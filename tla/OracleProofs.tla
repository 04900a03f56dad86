------------------------------- MODULE OracleProofs -------------------------------
(***************************************************************************)
(* Theorems about the oracle contract, for every set of accounts, tokens,  *)
(* configurations and requests.  First lemmas about one window and one     *)
(* request (every operation returns a record of the declared type, keeps   *)
(* the ladder of windows, and moves what is owed by what it pays), then the*)
(* contract's invariants.                                                  *)
(***************************************************************************)
EXTENDS OracleProperties, SumProofs

---------------------------------------------------------------------------
(***************************************************************************)
(* Windows                                                                 *)
(***************************************************************************)

(***************************************************************************)
(* ResolutionWindow::new returns a window.                                 *)
(***************************************************************************)
LEMMA NewWindowType ==
  ASSUME NEW prev_bond \in Nat, NEW period \in Nat, NEW start \in Nat
  PROVE  NewWindow(prev_bond, period, start) \in Window
BY DEF NewWindow, EmptyWindow, Window

(***************************************************************************)
(* A stake takes no more than the outcome lacks, and no more than it is.   *)
(***************************************************************************)
LEMMA TakenBounds ==
  ASSUME NEW w \in Window, NEW o \in Outcomes, NEW amount \in Nat,
         w.outcome_to_stake[o] <= w.bond_size
  PROVE  /\ Taken(w, o, amount) \in Nat
         /\ Taken(w, o, amount) <= amount
         /\ w.outcome_to_stake[o] + Taken(w, o, amount) <= w.bond_size
<1>1. w.outcome_to_stake[o] \in Nat /\ w.bond_size \in Nat
  BY DEF Window
<1>2. QED
  BY <1>1 DEF Taken, StakeOpen

(***************************************************************************)
(* The fields of a window after a stake.                                   *)
(***************************************************************************)
LEMMA AddStakeFields ==
  ASSUME NEW w \in Window, NEW s \in Stakers, NEW o \in Outcomes, NEW amount \in Nat,
         w.outcome_to_stake[o] <= w.bond_size
  PROVE  LET v     == AddStake(w, s, o, amount)
             total == w.outcome_to_stake[o] + Taken(w, o, amount)
         IN  /\ v \in Window
             /\ v.start_time = w.start_time
             /\ v.end_time = w.end_time
             /\ v.bond_size = w.bond_size
             /\ v.outcome_to_stake = [w.outcome_to_stake EXCEPT ![o] = total]
             /\ v.bonded_outcome = IF total = w.bond_size THEN o ELSE w.bonded_outcome
<1> DEFINE taken == Taken(w, o, amount)
           total == w.outcome_to_stake[o] + taken
           users == [w.user_to_outcome_to_stake EXCEPT ![s][o] = @ + taken]
<1>1. taken \in Nat
  BY TakenBounds
<1>2. total \in Nat
  BY <1>1 DEF Window
<1>3. users \in [Stakers -> [Outcomes -> Nat]]
  <2>1. w.user_to_outcome_to_stake \in [Stakers -> [Outcomes -> Nat]]
    BY DEF Window
  <2>2. w.user_to_outcome_to_stake[s][o] + taken \in Nat
    BY <1>1, <2>1
  <2>3. QED
    BY <2>1, <2>2
<1>4. [w.outcome_to_stake EXCEPT ![o] = total] \in [Outcomes -> Nat]
  BY <1>2 DEF Window
<1>5. AddStake(w, s, o, amount) =
        [w EXCEPT !.outcome_to_stake[o] = total,
                  !.user_to_outcome_to_stake[s][o] = @ + taken,
                  !.bonded_outcome = IF total = w.bond_size THEN o ELSE @]
  BY DEF AddStake
<1> HIDE DEF taken, total
<1>6. AddStake(w, s, o, amount) =
        [ start_time               |-> w.start_time,
          end_time                 |-> w.end_time,
          bond_size                |-> w.bond_size,
          bonded_outcome           |-> IF total = w.bond_size THEN o ELSE w.bonded_outcome,
          outcome_to_stake         |-> [w.outcome_to_stake EXCEPT ![o] = total],
          user_to_outcome_to_stake |-> users ]
  BY <1>5 DEF Window
<1> HIDE DEF users
<1>7. /\ w.start_time \in Nat
      /\ w.end_time \in Nat
      /\ w.bond_size \in Nat
      /\ w.bonded_outcome \in Outcomes \union {NoOutcome}
  BY DEF Window
<1>8. AddStake(w, s, o, amount) \in Window
  BY <1>3, <1>4, <1>6, <1>7 DEF Window
<1>9. QED
  BY <1>6, <1>8 DEF total, taken

\* Only the stake of the staker on the outcome changes.
LEMMA AddStakeUsers ==
  ASSUME NEW w \in Window, NEW s \in Stakers, NEW o \in Outcomes, NEW amount \in Nat
  PROVE  AddStake(w, s, o, amount).user_to_outcome_to_stake
           = [w.user_to_outcome_to_stake EXCEPT ![s][o] = @ + Taken(w, o, amount)]
BY DEF AddStake, Window

(***************************************************************************)
(* A new window and a stake in an open window leave it filled to its bond. *)
(***************************************************************************)
LEMMA NewWindowFilled ==
  ASSUME NEW prev_bond \in Nat, NEW period \in Nat, NEW start \in Nat
  PROVE  LET w == NewWindow(prev_bond, period, start)
         IN  FilledToBond(w) /\ ~IsBonded(w) /\ w.bond_size = prev_bond * 2
BY WindowAssumption DEF NewWindow, EmptyWindow, FilledToBond, IsBonded

\* Stake in an open window that is filled to its bond leaves it so, and bonds
\* no other outcome than the one staked on.
LEMMA AddStakeFilled ==
  ASSUME NEW w \in Window, NEW s \in Stakers, NEW o \in Outcomes, NEW amount \in Nat,
         FilledToBond(w), ~IsBonded(w)
  PROVE  LET v == AddStake(w, s, o, amount)
         IN  /\ v \in Window
             /\ FilledToBond(v)
             /\ v.start_time = w.start_time
             /\ v.end_time = w.end_time
             /\ v.bond_size = w.bond_size
             /\ v.bonded_outcome \in {NoOutcome, o}
<1> DEFINE v     == AddStake(w, s, o, amount)
           total == w.outcome_to_stake[o] + Taken(w, o, amount)
<1>1. /\ v \in Window
      /\ v.start_time = w.start_time
      /\ v.end_time = w.end_time
      /\ v.bond_size = w.bond_size
      /\ v.outcome_to_stake = [w.outcome_to_stake EXCEPT ![o] = total]
      /\ v.bonded_outcome = IF total = w.bond_size THEN o ELSE NoOutcome
  BY AddStakeFields DEF FilledToBond, IsBonded
<1>2. total \in Nat /\ total <= w.bond_size
  <2>1. w.outcome_to_stake[o] \in Nat
    BY DEF Window
  <2>2. QED
    BY <2>1, TakenBounds DEF FilledToBond
<1>3. w.outcome_to_stake \in [Outcomes -> Nat] /\ w.bond_size \in Nat
  BY DEF Window
<1>4. \A q \in Outcomes : v.outcome_to_stake[q] = IF q = o THEN total ELSE w.outcome_to_stake[q]
  BY <1>1, <1>3
<1> HIDE DEF v, total
<1>5. \A q \in Outcomes : w.outcome_to_stake[q] <= w.bond_size
  BY DEF FilledToBond
<1>6. w.bond_size > 0 => \A q \in Outcomes : w.outcome_to_stake[q] < w.bond_size
  BY WindowAssumption DEF FilledToBond, IsBonded
<1>7. FilledToBond(v)
  <2>1. \A q \in Outcomes : v.outcome_to_stake[q] <= v.bond_size
    BY <1>1, <1>2, <1>4, <1>5
  <2>2. IsBonded(v) => v.outcome_to_stake[v.bonded_outcome] = v.bond_size
    BY <1>1, <1>4 DEF IsBonded
  <2>3. v.bond_size > 0 =>
          \A q \in Outcomes \ {v.bonded_outcome} : v.outcome_to_stake[q] < v.bond_size
    BY <1>1, <1>2, <1>3, <1>4, <1>6
  <2>4. QED
    BY <2>1, <2>2, <2>3 DEF FilledToBond
<1>8. QED
  BY <1>1, <1>7 DEF v

\* Two windows that differ in what is staked only.
SameBond(v, w) ==
  /\ v.bonded_outcome = w.bonded_outcome
  /\ v.bond_size = w.bond_size
  /\ v.start_time = w.start_time
  /\ v.end_time = w.end_time

(***************************************************************************)
(* A withdrawal is from an outcome that is not bonded.                     *)
(***************************************************************************)
LEMMA RemoveStakeFilled ==
  ASSUME NEW w \in Window, NEW s \in Stakers, NEW o \in Outcomes, NEW amount \in Nat,
         FilledToBond(w), CanUnstake(w, s, o, amount)
  PROVE  LET v == RemoveStake(w, s, o, amount)
         IN  v \in Window /\ FilledToBond(v) /\ SameBond(v, w)
<1> DEFINE total == w.outcome_to_stake[o] - amount
           rest  == w.user_to_outcome_to_stake[s][o] - amount
           users == [w.user_to_outcome_to_stake EXCEPT ![s][o] = rest]
           v     == RemoveStake(w, s, o, amount)
<1>1. /\ w.outcome_to_stake \in [Outcomes -> Nat]
      /\ w.user_to_outcome_to_stake \in [Stakers -> [Outcomes -> Nat]]
      /\ w.bond_size \in Nat
      /\ w.bonded_outcome \in Outcomes \union {NoOutcome}
      /\ w.start_time \in Nat
      /\ w.end_time \in Nat
  BY DEF Window
<1>2. total \in Nat /\ rest \in Nat
  BY <1>1 DEF CanUnstake
<1>3. total <= w.outcome_to_stake[o]
  BY <1>1
<1>4. v = [w EXCEPT !.outcome_to_stake[o] = total, !.user_to_outcome_to_stake[s][o] = rest]
  BY DEF RemoveStake
<1> HIDE DEF total, rest
<1>5. v = [ start_time               |-> w.start_time,
            end_time                 |-> w.end_time,
            bond_size                |-> w.bond_size,
            bonded_outcome           |-> w.bonded_outcome,
            outcome_to_stake         |-> [w.outcome_to_stake EXCEPT ![o] = total],
            user_to_outcome_to_stake |-> users ]
  BY <1>4 DEF Window
<1>6. users \in [Stakers -> [Outcomes -> Nat]]
  BY <1>1, <1>2
<1> HIDE DEF users, v
<1>7. v \in Window
  BY <1>1, <1>2, <1>5, <1>6 DEF Window
<1>8. SameBond(v, w)
  BY <1>5 DEF SameBond
<1>9. \A q \in Outcomes : v.outcome_to_stake[q] = IF q = o THEN total ELSE w.outcome_to_stake[q]
  BY <1>1, <1>5
<1>10. FilledToBond(v)
  <2>1. w.bonded_outcome # o
    BY DEF CanUnstake
  <2>2. \A q \in Outcomes : v.outcome_to_stake[q] \in Nat
                            /\ v.outcome_to_stake[q] <= w.outcome_to_stake[q]
    BY <1>1, <1>2, <1>3, <1>9
  <2>3. \A q \in Outcomes : v.outcome_to_stake[q] <= v.bond_size
    BY <1>1, <1>8, <2>2 DEF FilledToBond, SameBond
  <2>4. IsBonded(v) => v.outcome_to_stake[v.bonded_outcome] = v.bond_size
    BY <1>1, <1>8, <1>9, <2>1 DEF FilledToBond, SameBond, IsBonded
  <2>5. v.bond_size > 0 =>
          \A q \in Outcomes \ {v.bonded_outcome} : v.outcome_to_stake[q] < v.bond_size
    BY <1>1, <1>8, <2>2 DEF FilledToBond, SameBond
  <2>6. QED
    BY <2>3, <2>4, <2>5 DEF FilledToBond
<1>11. QED
  BY <1>7, <1>8, <1>10 DEF v

(***************************************************************************)
(* A claim only touches what the claimer has staked.                       *)
(***************************************************************************)
LEMMA TakeClaimedFilled ==
  ASSUME NEW w \in Window, NEW u \in Stakers, NEW o \in Outcomes, FilledToBond(w)
  PROVE  LET v == TakeClaimedStake(w, u, o)
         IN  v \in Window /\ FilledToBond(v) /\ SameBond(v, w)
<1> DEFINE users == [w.user_to_outcome_to_stake EXCEPT ![u][o] = 0]
           v     == [w EXCEPT !.user_to_outcome_to_stake[u][o] = 0]
<1>1. users \in [Stakers -> [Outcomes -> Nat]]
  BY DEF Window
<1>2. v = [w EXCEPT !.user_to_outcome_to_stake = users]
  OBVIOUS
<1> HIDE DEF users, v
<1>3. v \in Window
  BY <1>1, <1>2 DEF Window
<1>4. v.outcome_to_stake = w.outcome_to_stake /\ SameBond(v, w)
  BY <1>2 DEF Window, SameBond
<1>5. FilledToBond(v)
  BY <1>4 DEF FilledToBond, SameBond, IsBonded
<1>6. QED
  BY <1>3, <1>4, <1>5 DEF TakeClaimedStake, SameBond, v

---------------------------------------------------------------------------
(***************************************************************************)
(* What is staked in a window                                              *)
(***************************************************************************)

\* What each staker has on an outcome, and what all have on each outcome.
StakesOn(w, o) == [u \in Stakers |-> UserStake(w, u, o)]
StakesByOutcome(w) == [o \in Outcomes |-> StakeOfAll(w, o)]

\* What a window holds for its stakers: open stake, and the bond.
Holds(w) == OpenStakeIn(w) + IF IsBonded(w) THEN w.bond_size ELSE 0

\* The stake on an outcome is the sum of a table of stakers.
LEMMA StakeOfAllTotal ==
  ASSUME NEW w, NEW o
  PROVE  StakeOfAll(w, o) = Total(StakesOn(w, o), Stakers)
BY DEF StakeOfAll, StakesOn, Total, MapThenSumSet, MapThenFoldSet

\* It is a natural number.
LEMMA StakeOfAllType ==
  ASSUME NEW w \in Window, NEW o \in Outcomes
  PROVE  /\ \A u \in Stakers : UserStake(w, u, o) \in Nat
         /\ Summable(StakesOn(w, o), Stakers)
         /\ StakeOfAll(w, o) \in Nat
<1>1. \A u \in Stakers : UserStake(w, u, o) \in Nat
  BY DEF Window, UserStake
<1>2. \A u \in Stakers : StakesOn(w, o)[u] \in Nat
  BY <1>1 DEF StakesOn
<1>3. Summable(StakesOn(w, o), Stakers)
  BY <1>2, FiniteAssumption DEF Summable
<1>4. QED
  BY <1>1, <1>2, <1>3, TotalNat, StakeOfAllTotal DEF Summable

\* The open stake is the sum of a table of outcomes, and a natural number.
LEMMA OpenStakeInTotal ==
  ASSUME NEW w \in Window
  PROVE  /\ Summable(StakesByOutcome(w), Outcomes \ {w.bonded_outcome})
         /\ OpenStakeIn(w) = Total(StakesByOutcome(w), Outcomes \ {w.bonded_outcome})
         /\ OpenStakeIn(w) \in Nat
<1> DEFINE S     == Outcomes \ {w.bonded_outcome}
           table == [o \in S |-> StakeOfAll(w, o)]
<1>1. OpenStakeIn(w) = Total(table, S)
  BY DEF OpenStakeIn, Total, MapThenSumSet, MapThenFoldSet
<1>2. IsFiniteSet(S)
  BY FiniteAssumption, FS_Subset
<1>3. \A o \in S : table[o] \in Nat /\ StakesByOutcome(w)[o] = table[o]
  BY StakeOfAllType DEF StakesByOutcome
<1> HIDE DEF table, S
<1>4. Summable(table, S) /\ Summable(StakesByOutcome(w), S)
  BY <1>2, <1>3 DEF Summable
<1>5. Total(StakesByOutcome(w), S) = Total(table, S)
  BY <1>3, <1>4, TotalSame
<1>6. Total(table, S) \in Nat
  BY <1>2, <1>3, TotalNat
<1>7. QED
  BY <1>1, <1>4, <1>5, <1>6 DEF S

\* The stake of one staker on one outcome changes.
LEMMA StakeChanged ==
  ASSUME NEW w \in Window, NEW v \in Window, NEW s \in Stakers, NEW o \in Outcomes,
         NEW n \in Nat,
         v.user_to_outcome_to_stake = [w.user_to_outcome_to_stake EXCEPT ![s][o] = n]
  PROVE  /\ StakeOfAll(v, o) = StakeOfAll(w, o) + n - UserStake(w, s, o)
         /\ \A q \in Outcomes \ {o} : StakeOfAll(v, q) = StakeOfAll(w, q)
<1>1. w.user_to_outcome_to_stake \in [Stakers -> [Outcomes -> Nat]]
  BY DEF Window
<1>2. \A u \in Stakers, q \in Outcomes :
        UserStake(v, u, q) = IF u = s /\ q = o THEN n ELSE UserStake(w, u, q)
  BY <1>1 DEF UserStake
<1>3. StakeOfAll(v, o) = StakeOfAll(w, o) + n - UserStake(w, s, o)
  <2>1. /\ StakesOn(v, o)[s] = n
        /\ StakesOn(w, o)[s] = UserStake(w, s, o)
        /\ \A u \in Stakers \ {s} : StakesOn(v, o)[u] = StakesOn(w, o)[u]
    BY <1>2 DEF StakesOn
  <2>2. Summable(StakesOn(w, o), Stakers)
    BY StakeOfAllType
  <2>3. Total(StakesOn(v, o), Stakers)
          = Total(StakesOn(w, o), Stakers) + StakesOn(v, o)[s] - StakesOn(w, o)[s]
    BY <2>1, <2>2, TotalChanged
  <2>4. QED
    BY <2>1, <2>3, StakeOfAllTotal
<1>4. ASSUME NEW q \in Outcomes \ {o}
      PROVE  StakeOfAll(v, q) = StakeOfAll(w, q)
  <2>1. StakesOn(v, q) = StakesOn(w, q)
    BY <1>2 DEF StakesOn
  <2>2. QED
    BY <2>1, StakeOfAllTotal
<1>5. QED
  BY <1>3, <1>4

\* Only a change on an outcome that is not bonded changes the open stake.
LEMMA OpenStakeChanged ==
  ASSUME NEW w \in Window, NEW v \in Window, NEW o \in Outcomes,
         v.bonded_outcome = w.bonded_outcome,
         \A q \in Outcomes \ {o} : StakeOfAll(v, q) = StakeOfAll(w, q)
  PROVE  OpenStakeIn(v) = IF o = w.bonded_outcome THEN OpenStakeIn(w)
                          ELSE OpenStakeIn(w) + StakeOfAll(v, o) - StakeOfAll(w, o)
<1> DEFINE S == Outcomes \ {w.bonded_outcome}
           f == StakesByOutcome(w)
           g == StakesByOutcome(v)
<1>1. /\ Summable(f, S) /\ OpenStakeIn(w) = Total(f, S)
      /\ Summable(g, S) /\ OpenStakeIn(v) = Total(g, S)
  BY OpenStakeInTotal
<1>2. \A q \in Outcomes : f[q] = StakeOfAll(w, q) /\ g[q] = StakeOfAll(v, q)
  BY DEF StakesByOutcome
<1> HIDE DEF f, g
<1>3. CASE o = w.bonded_outcome
  <2>1. \A q \in S : g[q] = f[q]
    BY <1>2, <1>3
  <2>2. Total(g, S) = Total(f, S)
    BY <1>1, <2>1, TotalSame
  <2>3. QED
    BY <1>1, <1>3, <2>2
<1>4. CASE o # w.bonded_outcome
  <2>1. o \in S /\ g[o] \in Int /\ \A q \in S \ {o} : g[q] = f[q]
    BY <1>1, <1>2, <1>4 DEF Summable
  <2> HIDE DEF S
  <2>2. Total(g, S) = Total(f, S) + g[o] - f[o]
    BY <1>1, <2>1, TotalChanged
  <2>3. QED
    BY <1>1, <1>2, <1>4, <2>2
<1>5. QED
  BY <1>3, <1>4

\* A window nobody has staked in holds nothing.
LEMMA NewWindowHolds ==
  ASSUME NEW prev_bond \in Nat, NEW period \in Nat, NEW start \in Nat
  PROVE  LET w == NewWindow(prev_bond, period, start)
         IN  StakesAgree(w) /\ Holds(w) = 0
<1> DEFINE w == NewWindow(prev_bond, period, start)
<1>1. w \in Window /\ ~IsBonded(w)
  BY NewWindowType, NewWindowFilled
<1>2. /\ \A o \in Outcomes : w.outcome_to_stake[o] = 0
      /\ \A u \in Stakers, o \in Outcomes : UserStake(w, u, o) = 0
  BY DEF NewWindow, EmptyWindow, UserStake
<1> HIDE DEF w
<1>3. ASSUME NEW o \in Outcomes
      PROVE  StakeOfAll(w, o) = 0
  <2>1. \A u \in Stakers : StakesOn(w, o)[u] = 0
    BY <1>2 DEF StakesOn
  <2>2. QED
    BY <2>1, TotalZero, StakeOfAllTotal, FiniteAssumption
<1>4. OpenStakeIn(w) = 0
  <2> DEFINE S == Outcomes \ {w.bonded_outcome}
  <2>1. IsFiniteSet(S) /\ \A o \in S : StakesByOutcome(w)[o] = 0
    BY <1>3, FiniteAssumption, FS_Subset DEF StakesByOutcome
  <2> HIDE DEF S
  <2>2. Total(StakesByOutcome(w), S) = 0
    BY <2>1, TotalZero
  <2>3. QED
    BY <1>1, <2>2, OpenStakeInTotal DEF S
<1>5. QED
  BY <1>1, <1>2, <1>3, <1>4 DEF StakesAgree, Holds, w

\* A stake in an open window adds what the window takes of it, also when it
\* turns the stake on an outcome into a bond.
LEMMA AddStakeHolds ==
  ASSUME NEW w \in Window, NEW s \in Stakers, NEW o \in Outcomes, NEW amount \in Nat,
         FilledToBond(w), ~IsBonded(w), StakesAgree(w)
  PROVE  LET v == AddStake(w, s, o, amount)
         IN  StakesAgree(v) /\ Holds(v) = Holds(w) + Taken(w, o, amount)
<1> DEFINE v     == AddStake(w, s, o, amount)
           taken == Taken(w, o, amount)
           total == w.outcome_to_stake[o] + taken
<1>1. /\ v \in Window
      /\ v.bond_size = w.bond_size
      /\ v.outcome_to_stake = [w.outcome_to_stake EXCEPT ![o] = total]
      /\ v.bonded_outcome = IF total = w.bond_size THEN o ELSE NoOutcome
      /\ w.bonded_outcome = NoOutcome
  BY AddStakeFields DEF FilledToBond, IsBonded
<1>0. v.user_to_outcome_to_stake =
        [w.user_to_outcome_to_stake EXCEPT ![s][o] = @ + taken]
  BY AddStakeUsers
<1>2. taken \in Nat
  BY TakenBounds DEF FilledToBond
<1>3. /\ w.outcome_to_stake \in [Outcomes -> Nat]
      /\ w.user_to_outcome_to_stake \in [Stakers -> [Outcomes -> Nat]]
      /\ w.bond_size \in Nat
  BY DEF Window
<1>4. UserStake(w, s, o) \in Nat /\ \A q \in Outcomes : StakeOfAll(w, q) \in Nat
  BY StakeOfAllType
<1> HIDE DEF v, taken
<1>5. v.user_to_outcome_to_stake =
        [w.user_to_outcome_to_stake EXCEPT ![s][o] = UserStake(w, s, o) + taken]
  BY <1>0, <1>3 DEF UserStake
<1>6. /\ StakeOfAll(v, o) = StakeOfAll(w, o) + taken
      /\ \A q \in Outcomes \ {o} : StakeOfAll(v, q) = StakeOfAll(w, q)
  <2>1. UserStake(w, s, o) + taken \in Nat
    BY <1>2, <1>4
  <2>2. /\ StakeOfAll(v, o) = StakeOfAll(w, o) + (UserStake(w, s, o) + taken) - UserStake(w, s, o)
        /\ \A q \in Outcomes \ {o} : StakeOfAll(v, q) = StakeOfAll(w, q)
    BY <1>1, <1>5, <2>1, StakeChanged
  <2>3. QED
    BY <1>2, <1>4, <2>2
<1>7. StakesAgree(v)
  <2>1. v.outcome_to_stake[o] = total /\ total = StakeOfAll(v, o)
    BY <1>1, <1>3, <1>6 DEF StakesAgree
  <2>2. \A q \in Outcomes \ {o} : v.outcome_to_stake[q] = StakeOfAll(v, q)
    BY <1>1, <1>3, <1>6 DEF StakesAgree
  <2>3. QED
    BY <2>1, <2>2 DEF StakesAgree
<1>8. Holds(v) = Holds(w) + taken
  <2>0. OpenStakeIn(w) \in Nat
    BY OpenStakeInTotal
  <2>1. Holds(w) = OpenStakeIn(w) /\ OpenStakeIn(w) \in Nat
    BY <2>0 DEF Holds
  <2>2. CASE total # w.bond_size
    <3>1. v.bonded_outcome = w.bonded_outcome /\ o # w.bonded_outcome /\ ~IsBonded(v)
      BY <1>1, <2>2, WindowAssumption DEF IsBonded
    <3>2. OpenStakeIn(v) = OpenStakeIn(w) + StakeOfAll(v, o) - StakeOfAll(w, o)
      BY <1>1, <1>6, <3>1, OpenStakeChanged
    <3>3. QED
      BY <1>2, <1>4, <1>6, <2>1, <3>1, <3>2 DEF Holds
  <2>3. CASE total = w.bond_size
    <3> DEFINE S == Outcomes \ {o}
               f == StakesByOutcome(w)
               g == StakesByOutcome(v)
    <3>1. Outcomes \ {w.bonded_outcome} = Outcomes
      BY <1>1, WindowAssumption
    <3>2. Summable(f, Outcomes) /\ OpenStakeIn(w) = Total(f, Outcomes)
      BY <3>1, OpenStakeInTotal
    <3>3. IsBonded(v) /\ v.bonded_outcome = o
      BY <1>1, <2>3, WindowAssumption DEF IsBonded
    <3>4. OpenStakeIn(v) = Total(g, S)
      BY <1>1, <3>3, OpenStakeInTotal
    <3>5. f[o] = StakeOfAll(w, o) /\ \A q \in S : g[q] = f[q]
      BY <1>6 DEF StakesByOutcome
    <3> HIDE DEF f, g, S
    <3>6. Summable(f, S)
      BY <3>2, FS_Subset DEF Summable, S
    <3>7. Total(f, Outcomes) = f[o] + Total(f, S) /\ Total(f, S) \in Int
      BY <3>2, <3>6, TotalWithout, TotalInt DEF S
    <3>8. Total(g, S) = Total(f, S)
      BY <3>5, <3>6, TotalSame
    <3>9. v.bond_size = StakeOfAll(w, o) + taken
      BY <1>1, <2>3 DEF StakesAgree
    <3>10. QED
      BY <1>2, <1>4, <2>1, <3>2, <3>3, <3>4, <3>5, <3>7, <3>8, <3>9 DEF Holds
  <2>4. QED
    BY <2>2, <2>3
<1>9. QED
  BY <1>7, <1>8 DEF v, taken

\* A withdrawal takes its amount off the open stake, and the two maps still agree.
LEMMA RemoveStakeHolds ==
  ASSUME NEW w \in Window, NEW s \in Stakers, NEW o \in Outcomes, NEW amount \in Nat,
         FilledToBond(w), CanUnstake(w, s, o, amount)
  PROVE  LET v == RemoveStake(w, s, o, amount)
         IN  /\ StakesAgree(w) => StakesAgree(v)
             /\ OpenStakeIn(v) = OpenStakeIn(w) - amount
             /\ \A u \in Stakers, q \in Outcomes :
                  q # o => UserStake(v, u, q) = UserStake(w, u, q)
<1> DEFINE v == RemoveStake(w, s, o, amount)
<1>1. v \in Window /\ v.bonded_outcome = w.bonded_outcome
  BY RemoveStakeFilled DEF SameBond
<1>2. /\ w.outcome_to_stake \in [Outcomes -> Nat]
      /\ w.user_to_outcome_to_stake \in [Stakers -> [Outcomes -> Nat]]
  BY DEF Window
<1>3. /\ v.outcome_to_stake = [w.outcome_to_stake EXCEPT ![o] = @ - amount]
      /\ v.user_to_outcome_to_stake =
           [w.user_to_outcome_to_stake EXCEPT ![s][o] = @ - amount]
  BY DEF RemoveStake, Window
<1> HIDE DEF v
<1>4. UserStake(w, s, o) \in Nat /\ UserStake(w, s, o) - amount \in Nat /\ o # w.bonded_outcome
  BY StakeOfAllType DEF CanUnstake, UserStake
<1>5. v.user_to_outcome_to_stake =
        [w.user_to_outcome_to_stake EXCEPT ![s][o] = UserStake(w, s, o) - amount]
  BY <1>2, <1>3 DEF UserStake
<1>6. \A q \in Outcomes : StakeOfAll(w, q) \in Nat
  BY StakeOfAllType
<1>7. /\ StakeOfAll(v, o) = StakeOfAll(w, o) - amount
      /\ \A q \in Outcomes \ {o} : StakeOfAll(v, q) = StakeOfAll(w, q)
  <2>1. /\ StakeOfAll(v, o) = StakeOfAll(w, o) + (UserStake(w, s, o) - amount) - UserStake(w, s, o)
        /\ \A q \in Outcomes \ {o} : StakeOfAll(v, q) = StakeOfAll(w, q)
    BY <1>1, <1>4, <1>5, StakeChanged
  <2>2. QED
    BY <1>4, <1>6, <2>1
<1>8. StakesAgree(w) => StakesAgree(v)
  <2> SUFFICES ASSUME StakesAgree(w) PROVE StakesAgree(v)
    OBVIOUS
  <2>1. v.outcome_to_stake[o] = StakeOfAll(v, o)
    BY <1>2, <1>3, <1>7 DEF StakesAgree
  <2>2. \A q \in Outcomes \ {o} : v.outcome_to_stake[q] = StakeOfAll(v, q)
    BY <1>2, <1>3, <1>7 DEF StakesAgree
  <2>3. QED
    BY <2>1, <2>2 DEF StakesAgree
<1>9. OpenStakeIn(v) = OpenStakeIn(w) - amount
  <2>1. OpenStakeIn(v) = OpenStakeIn(w) + StakeOfAll(v, o) - StakeOfAll(w, o)
    BY <1>1, <1>4, <1>7, OpenStakeChanged
  <2>2. OpenStakeIn(w) \in Nat
    BY OpenStakeInTotal
  <2>3. QED
    BY <1>6, <1>7, <2>1, <2>2
<1>10. \A u \in Stakers, q \in Outcomes : q # o => UserStake(v, u, q) = UserStake(w, u, q)
  BY <1>2, <1>5 DEF UserStake
<1>11. QED
  BY <1>8, <1>9, <1>10 DEF v

\* A claim takes what the claimer has behind the bond, and no open stake.
LEMMA TakeClaimedHolds ==
  ASSUME NEW w \in Window, NEW u \in Stakers, NEW o \in Outcomes, FilledToBond(w)
  PROVE  LET v == TakeClaimedStake(w, u, o)
         IN  /\ OpenStakeIn(v) = OpenStakeIn(w)
             /\ IsCorrect(w, o) => UserStake(v, u, o) = 0
             /\ \A x \in Stakers \ {u} : UserStake(v, x, o) = UserStake(w, x, o)
<1> DEFINE v == TakeClaimedStake(w, u, o)
<1>1. v \in Window /\ v.bonded_outcome = w.bonded_outcome
  BY TakeClaimedFilled DEF SameBond
<1>2. w.user_to_outcome_to_stake \in [Stakers -> [Outcomes -> Nat]]
  BY DEF Window
<1>3. CASE IsCorrect(w, o)
  <2>1. v.user_to_outcome_to_stake = [w.user_to_outcome_to_stake EXCEPT ![u][o] = 0]
    BY <1>3 DEF TakeClaimedStake, Window
  <2> HIDE DEF v
  <2>2. \A q \in Outcomes \ {o} : StakeOfAll(v, q) = StakeOfAll(w, q)
    BY <1>1, <2>1, StakeChanged
  <2>3. o = w.bonded_outcome
    BY <1>3 DEF IsCorrect
  <2>4. OpenStakeIn(v) = OpenStakeIn(w)
    BY <1>1, <2>2, <2>3, OpenStakeChanged
  <2>5. /\ UserStake(v, u, o) = 0
        /\ \A x \in Stakers \ {u} : UserStake(v, x, o) = UserStake(w, x, o)
    BY <1>2, <2>1 DEF UserStake
  <2>6. QED
    BY <2>4, <2>5 DEF v
<1>4. CASE ~IsCorrect(w, o)
  BY <1>4 DEF TakeClaimedStake
<1>5. QED
  BY <1>3, <1>4

---------------------------------------------------------------------------
(***************************************************************************)
(* Requests                                                                *)
(***************************************************************************)

(***************************************************************************)
(* calc_resolution_bond returns a Balance.                                 *)
(***************************************************************************)
LEMMA ResolutionBondType ==
  ASSUME NEW dr \in Request
  PROVE  CalcResolutionBond(dr) \in Nat
<1> DEFINE c == dr.request_config
<1>1. /\ c.paid_fee \in Nat
      /\ c.validity_bond \in Nat
      /\ c.min_resolution_bond \in Nat
      /\ c.stake_multiplier \in OptionalMultiplier
  BY DEF Request, RequestConfig
<1>2. \A stake \in Nat, m \in Nat : (stake * m) \div 10000 \in Nat
  <2> TAKE stake \in Nat, m \in Nat
  <2>1. stake * m \in Nat
    OBVIOUS
  <2>2. QED
    BY <2>1
<1>3. \A stake \in Nat : MultiplyStake(stake, c.stake_multiplier) \in Nat
  BY <1>1, <1>2 DEF MultiplyStake, OptionalMultiplier
<1>4. QED
  BY <1>1, <1>3 DEF CalcResolutionBond

(***************************************************************************)
(* The parts of a request.                                                 *)
(***************************************************************************)
LEMMA RequestFields ==
  ASSUME NEW dr \in Request
  PROVE  /\ dr.resolution_windows \in Seq(Window)
         /\ Rounds(dr) \in Nat
         /\ DOMAIN dr.resolution_windows = 1 .. Rounds(dr)
         /\ \A r \in 1 .. Rounds(dr) : dr.resolution_windows[r] \in Window
         /\ dr.resolution_windows # << >> <=> Rounds(dr) > 0
         /\ dr.final_arbitrator_triggered \in BOOLEAN
         /\ dr.request_config.final_arbitrator_invoke_amount \in Nat
         /\ \A rounds \in Nat : ChallengeDuration(dr, rounds) \in Nat
         /\ dr.initial_challenge_period \in Nat
<1>1. dr.resolution_windows \in Seq(Window)
  BY DEF Request
<1>2. dr.request_config \in RequestConfig
  BY DEF Request
<1>3. dr.final_arbitrator_triggered \in BOOLEAN /\ dr.initial_challenge_period \in Nat
  BY DEF Request
<1>4. QED
  BY <1>1, <1>2, <1>3 DEF Rounds, RequestConfig, ChallengeDuration

(***************************************************************************)
(* Only the windows, the arbitrator flag and the outcome of a request ever *)
(* change, and any change of them within their types gives a request.      *)
(***************************************************************************)
LEMMA ChangedRequest ==
  ASSUME NEW dr \in Request, NEW windows \in Seq(Window), NEW triggered \in BOOLEAN
  PROVE  LET e == [dr EXCEPT !.resolution_windows = windows,
                             !.final_arbitrator_triggered = triggered]
         IN  /\ e \in Request
             /\ e.resolution_windows = windows
             /\ e.final_arbitrator_triggered = triggered
             /\ e.request_config = dr.request_config
             /\ e.global_config_id = dr.global_config_id
             /\ e.initial_challenge_period = dr.initial_challenge_period
             /\ e.provider = dr.provider
             /\ e.finalized_outcome = dr.finalized_outcome
BY DEF Request

\* Two requests that differ in what is staked in their windows, or in the verdict.
SameWindows(e, dr) ==
  /\ Rounds(e) = Rounds(dr)
  /\ e.final_arbitrator_triggered = dr.final_arbitrator_triggered
  /\ \A r \in 1 .. Rounds(dr) : SameBond(e.resolution_windows[r], dr.resolution_windows[r])

(***************************************************************************)
(* Changes that leave each bond as it was keep the ladder.                 *)
(***************************************************************************)
LEMMA SameBondsLadder ==
  ASSUME NEW dr \in Request, NEW e \in Request, Ladder(dr),
         SameWindows(e, dr), e.request_config = dr.request_config,
         \A r \in 1 .. Rounds(dr) : FilledToBond(e.resolution_windows[r])
  PROVE  Ladder(e)
<1> USE DEF SameWindows
<1>1. /\ DOMAIN e.resolution_windows = 1 .. Rounds(dr)
      /\ DOMAIN dr.resolution_windows = 1 .. Rounds(dr)
      /\ Rounds(dr) \in Nat
  BY RequestFields
<1>2. BondedIffFull(e)
  BY <1>1 DEF BondedIffFull
<1>3. OnlyLastOpen(e)
  BY <1>1 DEF Ladder, OnlyLastOpen, SameBond, IsBonded
<1>4. ChallengesEscalate(e)
  <2> SUFFICES ASSUME NEW r \in 1 .. Rounds(dr), r > 1
               PROVE  /\ e.resolution_windows[r].bond_size
                            = e.resolution_windows[r - 1].bond_size * 2
                      /\ e.resolution_windows[r].bonded_outcome
                            # e.resolution_windows[r - 1].bonded_outcome
    BY <1>1 DEF ChallengesEscalate
  <2>1. r - 1 \in 1 .. Rounds(dr)
    BY <1>1
  <2>2. /\ dr.resolution_windows[r].bond_size = dr.resolution_windows[r - 1].bond_size * 2
        /\ dr.resolution_windows[r].bonded_outcome # dr.resolution_windows[r - 1].bonded_outcome
    BY <1>1 DEF Ladder, ChallengesEscalate
  <2>3. QED
    BY <2>1, <2>2 DEF SameBond
<1>5. ArbitratorEndsLadder(e)
  BY <1>1 DEF Ladder, ArbitratorEndsLadder, SameBond, IsBonded, LastWindow
<1>6. QED
  BY <1>2, <1>3, <1>4, <1>5 DEF Ladder

(***************************************************************************)
(* Unless the arbitrator was called in, a stake goes to an open window, and*)
(* no more comes back than was sent.                                       *)
(***************************************************************************)
LEMMA StakingWindowOpen ==
  ASSUME NEW dr \in Request, NEW time \in Nat, Ladder(dr), ~dr.final_arbitrator_triggered
  PROVE  LET w0 == StakingWindow(dr, time)
         IN  w0 \in Window /\ FilledToBond(w0) /\ ~IsBonded(w0)
<1> DEFINE w0 == StakingWindow(dr, time)
           k  == Rounds(dr)
<1>1. CASE dr.resolution_windows = << >>
  BY <1>1, NewWindowType, NewWindowFilled, ResolutionBondType, RequestFields
  DEF StakingWindow
<1>2. CASE dr.resolution_windows # << >>
  <2>1. k \in 1 .. k
    BY <1>2, RequestFields
  <2>2. w0 = dr.resolution_windows[k]
    BY <1>2 DEF StakingWindow, LastWindow
  <2>3. QED
    BY <2>1, <2>2, RequestFields
    DEF Ladder, BondedIffFull, ArbitratorEndsLadder, LastWindow
<1>3. QED
  BY <1>1, <1>2

\* What a stake returns as unspent is part of what was staked.
LEMMA UnspentBounds ==
  ASSUME NEW dr \in Request, NEW time \in Nat, NEW o \in Outcomes, NEW amount \in Nat,
         Ladder(dr), ~dr.final_arbitrator_triggered
  PROVE  Unspent(dr, o, amount, time) \in 0 .. amount
<1>1. /\ StakingWindow(dr, time) \in Window
      /\ StakingWindow(dr, time).outcome_to_stake[o] <= StakingWindow(dr, time).bond_size
  BY StakingWindowOpen DEF FilledToBond
<1>2. /\ Taken(StakingWindow(dr, time), o, amount) \in Nat
      /\ Taken(StakingWindow(dr, time), o, amount) <= amount
  BY <1>1, TakenBounds
<1>3. QED
  BY <1>2 DEF Unspent

\* The windows of dr after a stake on o that turned its staking window into w: a ladder
\* that the arbitrator flag does not enter yet.
WindowsAfterStake(dr, w, windows, o, time) ==
  LET n == Len(windows)
  IN  /\ windows \in Seq(Window)
      /\ n \in Nat /\ n > 0
      /\ windows[n] = w
      /\ w.bonded_outcome \in {NoOutcome, o}
      /\ w.start_time = StakingWindow(dr, time).start_time
      /\ w.end_time = StakingWindow(dr, time).end_time
      /\ dr.resolution_windows = << >> => n = 1
      /\ dr.resolution_windows # << >> => n = Rounds(dr)
      /\ \A r \in 1 .. n : r < n => windows[r] = dr.resolution_windows[r]
      /\ \A r \in 1 .. n : windows[r] \in Window /\ FilledToBond(windows[r])
      /\ \A r \in 1 .. n :
           r < n => /\ IsBonded(windows[r])
                    /\ ~(windows[r].bond_size
                           >= dr.request_config.final_arbitrator_invoke_amount)
      /\ \A r \in 1 .. n :
           r > 1 => /\ windows[r].bond_size = windows[r - 1].bond_size * 2
                    /\ windows[r].bonded_outcome # windows[r - 1].bonded_outcome

(***************************************************************************)
(* A stake goes to an open window, which it may fill.                      *)
(***************************************************************************)
LEMMA StakedWindows ==
  ASSUME NEW dr \in Request, NEW s \in Stakers, NEW o \in Outcomes, NEW amount \in Nat,
         NEW time \in Nat, Ladder(dr), ~dr.final_arbitrator_triggered,
         CanStakeOnOutcome(dr, o)
  PROVE  LET w == StakedWindow(dr, s, o, amount, time)
         IN  WindowsAfterStake(dr, w, WithStakedWindow(dr, w), o, time)
<1> DEFINE w0      == StakingWindow(dr, time)
           w       == StakedWindow(dr, s, o, amount, time)
           windows == WithStakedWindow(dr, w)
           n       == Len(windows)
           k       == Rounds(dr)
<1>1. w0 \in Window /\ FilledToBond(w0) /\ ~IsBonded(w0)
  BY StakingWindowOpen
<1>2. /\ w \in Window
      /\ FilledToBond(w)
      /\ w.start_time = w0.start_time
      /\ w.end_time = w0.end_time
      /\ w.bond_size = w0.bond_size
      /\ w.bonded_outcome \in {NoOutcome, o}
  BY <1>1, AddStakeFilled DEF StakedWindow
<1>3. CASE dr.resolution_windows = << >>
  <2>1. windows = << w >>
    BY <1>3 DEF WithStakedWindow
  <2> HIDE DEF w, windows
  <2>2. n = 1 /\ windows \in Seq(Window) /\ windows[1] = w
    BY <1>2, <2>1
  <2>3. \A r \in 1 .. n : r = 1 /\ windows[r] = w
    BY <2>2
  <2> HIDE DEF n
  <2>4. /\ n \in Nat /\ n > 0 /\ windows[n] = w
        /\ \A r \in 1 .. n : windows[r] \in Window /\ FilledToBond(windows[r])
        /\ \A r \in 1 .. n : ~(r < n) /\ ~(r > 1)
    BY <1>2, <2>2, <2>3
  <2>5. QED
    BY <1>2, <1>3, <2>2, <2>4 DEF w0, w, windows, n, WindowsAfterStake
<1>4. CASE dr.resolution_windows # << >>
  <2>1. k \in 1 .. k /\ dr.resolution_windows \in Seq(Window) /\ k = Len(dr.resolution_windows)
    BY <1>4, RequestFields DEF Rounds
  <2>2. windows = [dr.resolution_windows EXCEPT ![k] = w]
    BY <1>4 DEF WithStakedWindow
  <2>3. w0 = dr.resolution_windows[k]
    BY <1>4 DEF StakingWindow, LastWindow
  <2> HIDE DEF w, windows, w0
  <2>4. windows \in Seq(Window) /\ n = k
    BY <1>2, <2>1, <2>2
  <2> HIDE DEF n
  <2>5. windows[k] = w /\ \A r \in 1 .. k : r # k => windows[r] = dr.resolution_windows[r]
    BY <2>1, <2>2
  <2> HIDE DEF k
  <2>6. /\ k \in Nat
        /\ DOMAIN dr.resolution_windows = 1 .. k
        /\ \A r \in 1 .. k : dr.resolution_windows[r] \in Window
    BY RequestFields DEF k
  <2>7. \A r \in 1 .. k : windows[r] \in Window /\ FilledToBond(windows[r])
    BY <1>2, <2>5, <2>6 DEF Ladder, BondedIffFull
  <2>8. \A r \in 1 .. k :
          r < k => /\ IsBonded(windows[r])
                   /\ ~(windows[r].bond_size
                          >= dr.request_config.final_arbitrator_invoke_amount)
    BY <2>5, <2>6 DEF Ladder, OnlyLastOpen, ArbitratorEndsLadder, k
  <2>9. \A r \in 1 .. k :
          r > 1 => /\ windows[r].bond_size = windows[r - 1].bond_size * 2
                   /\ windows[r].bonded_outcome # windows[r - 1].bonded_outcome
    <3> SUFFICES ASSUME NEW r \in 1 .. k, r > 1
                 PROVE  /\ windows[r].bond_size = windows[r - 1].bond_size * 2
                        /\ windows[r].bonded_outcome # windows[r - 1].bonded_outcome
      OBVIOUS
    <3>1. r - 1 \in 1 .. k /\ r - 1 # k
      BY <2>6
    <3>2. /\ dr.resolution_windows[r].bond_size = dr.resolution_windows[r - 1].bond_size * 2
          /\ dr.resolution_windows[r].bonded_outcome
               # dr.resolution_windows[r - 1].bonded_outcome
      BY <2>6 DEF Ladder, ChallengesEscalate
    <3>3. CASE r # k
      BY <2>5, <3>1, <3>2, <3>3
    <3>4. CASE r = k
      <4>1. dr.resolution_windows[r - 1].bonded_outcome \notin {NoOutcome, o}
        BY <3>4 DEF CanStakeOnOutcome, k
      <4>2. QED
        BY <1>2, <2>3, <2>5, <3>1, <3>2, <3>4, <4>1
    <3>5. QED
      BY <3>3, <3>4
  <2>10. QED
    <3>1. \A r \in 1 .. n : r < n => windows[r] = dr.resolution_windows[r]
      BY <2>4, <2>5
    <3>2. k = Rounds(dr)
      BY DEF k
    <3>3. n = Rounds(dr)
      BY <2>4, <3>2
    <3>4. QED
      BY <1>2, <1>4, <2>1, <2>4, <2>5, <2>6, <2>7, <2>8, <2>9, <3>1, <3>3
         DEF w0, w, windows, n, WindowsAfterStake
<1>5. QED
  BY <1>3, <1>4

\* What no operation on a request changes.
SameTerms(e, dr) ==
  /\ e.request_config = dr.request_config
  /\ e.global_config_id = dr.global_config_id
  /\ e.initial_challenge_period = dr.initial_challenge_period
  /\ e.provider = dr.provider

(***************************************************************************)
(* ActiveDataRequest::stake keeps the ladder.                              *)
(***************************************************************************)
LEMMA StakedLadder ==
  ASSUME NEW dr \in Request, NEW s \in Stakers, NEW o \in Outcomes, NEW amount \in Nat,
         NEW time \in Nat, Ladder(dr), ~dr.final_arbitrator_triggered,
         CanStakeOnOutcome(dr, o)
  PROVE  LET e == Staked(dr, s, o, amount, time)
         IN  /\ e \in Request
             /\ Ladder(e)
             /\ SameTerms(e, dr)
             /\ e.finalized_outcome = dr.finalized_outcome
<1> DEFINE w       == StakedWindow(dr, s, o, amount, time)
           windows == WithStakedWindow(dr, w)
           n       == Len(windows)
           invoke  == dr.request_config.final_arbitrator_invoke_amount
           e       == Staked(dr, s, o, amount, time)
<1>1. /\ windows \in Seq(Window)
      /\ n \in Nat /\ n > 0
      /\ windows[n] = w
      /\ \A r \in 1 .. n : windows[r] \in Window /\ FilledToBond(windows[r])
      /\ \A r \in 1 .. n :
           r < n => IsBonded(windows[r]) /\ ~(windows[r].bond_size >= invoke)
      /\ \A r \in 1 .. n :
           r > 1 => /\ windows[r].bond_size = windows[r - 1].bond_size * 2
                    /\ windows[r].bonded_outcome # windows[r - 1].bonded_outcome
  <2>1. WindowsAfterStake(dr, w, windows, o, time)
    BY StakedWindows
  <2> HIDE DEF w, windows
  <2>2. QED
    BY <2>1 DEF WindowsAfterStake
<1>2. DOMAIN windows = 1 .. n
  BY <1>1
<1>3. invoke \in Nat
  BY RequestFields
<1>4. InvokesFinalArbitrator(dr, w.bond_size) <=> w.bond_size >= invoke
  BY DEF InvokesFinalArbitrator
<1>5. CASE ~IsBonded(w)
  <2>1. e = [dr EXCEPT !.resolution_windows = windows]
    BY <1>5 DEF Staked
  <2> HIDE DEF w, windows, e, invoke
  <2>2. /\ e \in Request
        /\ e.resolution_windows = windows
        /\ e.final_arbitrator_triggered = FALSE
        /\ e.request_config = dr.request_config
        /\ e.global_config_id = dr.global_config_id
        /\ e.initial_challenge_period = dr.initial_challenge_period
        /\ e.provider = dr.provider
        /\ e.finalized_outcome = dr.finalized_outcome
    BY <1>1, <2>1 DEF Request
  <2>3. BondedIffFull(e) /\ OnlyLastOpen(e) /\ ChallengesEscalate(e)
    BY <1>1, <1>2, <2>2 DEF BondedIffFull, OnlyLastOpen, ChallengesEscalate, Rounds
  <2>4. ArbitratorEndsLadder(e)
    BY <1>1, <1>2, <1>5, <2>2 DEF ArbitratorEndsLadder, Rounds, LastWindow, invoke
  <2>5. QED
    BY <2>2, <2>3, <2>4 DEF Ladder, SameTerms, e
<1>6. CASE IsBonded(w) /\ w.bond_size >= invoke
  <2>1. e = [dr EXCEPT !.resolution_windows = windows, !.final_arbitrator_triggered = TRUE]
    BY <1>4, <1>6 DEF Staked
  <2> HIDE DEF w, windows, e, invoke
  <2>0. windows \in Seq(Window)
    BY <1>1
  <2>2. /\ e \in Request
        /\ e.resolution_windows = windows
        /\ e.final_arbitrator_triggered = TRUE
        /\ e.request_config = dr.request_config
        /\ e.global_config_id = dr.global_config_id
        /\ e.initial_challenge_period = dr.initial_challenge_period
        /\ e.provider = dr.provider
        /\ e.finalized_outcome = dr.finalized_outcome
    BY <2>0, <2>1, ChangedRequest
  <2>3. BondedIffFull(e) /\ OnlyLastOpen(e) /\ ChallengesEscalate(e)
    BY <1>1, <1>2, <2>2 DEF BondedIffFull, OnlyLastOpen, ChallengesEscalate, Rounds
  <2>4. ArbitratorEndsLadder(e)
    BY <1>1, <1>2, <1>6, <2>2 DEF ArbitratorEndsLadder, Rounds, LastWindow, invoke
  <2>5. QED
    BY <2>2, <2>3, <2>4 DEF Ladder, SameTerms, e
<1>7. CASE IsBonded(w) /\ ~(w.bond_size >= invoke)
  <2> DEFINE next == NextWindow(dr, w, n, time)
             more == Append(windows, next)
  <2>1. e = [dr EXCEPT !.resolution_windows = more]
    BY <1>4, <1>7 DEF Staked
  <2>2. w \in Window
    BY <1>1
  <2>3. next \in Window /\ FilledToBond(next) /\ ~IsBonded(next)
        /\ next.bond_size = w.bond_size * 2
    <3>1. w.bond_size \in Nat /\ ChallengeDuration(dr, n) \in Nat
      BY <1>1, <2>2, RequestFields DEF Window
    <3>2. QED
      BY <3>1, NewWindowType, NewWindowFilled DEF NextWindow
  <2> HIDE DEF w, windows, e, invoke, next
  <2>4. /\ more \in Seq(Window)
        /\ Len(more) = n + 1
        /\ more[n + 1] = next
        /\ \A r \in 1 .. n : more[r] = windows[r]
    BY <1>1, <2>3
  <2> HIDE DEF more, n
  <2>5. /\ e \in Request
        /\ e.resolution_windows = more
        /\ e.final_arbitrator_triggered = FALSE
        /\ e.request_config = dr.request_config
        /\ e.global_config_id = dr.global_config_id
        /\ e.initial_challenge_period = dr.initial_challenge_period
        /\ e.provider = dr.provider
        /\ e.finalized_outcome = dr.finalized_outcome
    BY <2>1, <2>4 DEF Request
  <2>6. DOMAIN more = 1 .. (n + 1) /\ \A r \in 1 .. (n + 1) : r = n + 1 \/ r \in 1 .. n
    BY <1>1, <2>4
  <2>7. BondedIffFull(e)
    BY <1>1, <2>3, <2>4, <2>5, <2>6 DEF BondedIffFull
  <2>8. \A r \in 1 .. n : IsBonded(more[r]) /\ ~(more[r].bond_size >= invoke)
    BY <1>1, <1>7, <2>4
  <2>9. OnlyLastOpen(e)
    BY <1>1, <2>4, <2>5, <2>6, <2>8 DEF OnlyLastOpen, Rounds
  <2>10. ChallengesEscalate(e)
    <3> SUFFICES ASSUME NEW r \in 1 .. (n + 1), r > 1
                 PROVE  /\ more[r].bond_size = more[r - 1].bond_size * 2
                        /\ more[r].bonded_outcome # more[r - 1].bonded_outcome
      BY <2>5, <2>6 DEF ChallengesEscalate
    <3>1. CASE r \in 1 .. n
      <4>1. r - 1 \in 1 .. n
        BY <1>1, <3>1
      <4>2. QED
        BY <1>1, <2>4, <3>1, <4>1
    <3>2. CASE r = n + 1
      <4>1. r - 1 = n /\ n \in 1 .. n
        BY <1>1, <3>2
      <4>2. more[r] = next /\ more[r - 1] = w
        BY <1>1, <2>4, <3>2, <4>1
      <4>3. QED
        BY <1>7, <2>3, <4>2 DEF IsBonded
    <3>3. QED
      BY <2>6, <3>1, <3>2
  <2>11. ArbitratorEndsLadder(e)
    <3>1. Rounds(e) = n + 1 /\ LastWindow(e) = next
      BY <2>4, <2>5 DEF Rounds, LastWindow
    <3>2. \A r \in 1 .. n : r # n + 1
      BY <1>1
    <3>3. QED
      BY <2>3, <2>4, <2>5, <2>6, <2>8, <3>1, <3>2 DEF ArbitratorEndsLadder, invoke
  <2>12. QED
    BY <2>5, <2>7, <2>9, <2>10, <2>11 DEF Ladder, SameTerms, e
<1>8. QED
  BY <1>5, <1>6, <1>7

(***************************************************************************)
(* DataRequest::unstake keeps the ladder: a bonded outcome cannot be left. *)
(***************************************************************************)
LEMMA UnstakedLadder ==
  ASSUME NEW dr \in Request, NEW s \in Stakers, NEW round \in DOMAIN dr.resolution_windows,
         NEW o \in Outcomes, NEW amount \in Nat, Ladder(dr),
         CanUnstake(dr.resolution_windows[round], s, o, amount)
  PROVE  LET e == Unstaked(dr, s, round, o, amount)
         IN  /\ e \in Request
             /\ Ladder(e)
             /\ SameTerms(e, dr)
             /\ SameWindows(e, dr)
             /\ e.finalized_outcome = dr.finalized_outcome
<1> DEFINE w       == dr.resolution_windows[round]
           v       == RemoveStake(w, s, o, amount)
           windows == [dr.resolution_windows EXCEPT ![round] = v]
           e       == Unstaked(dr, s, round, o, amount)
<1>1. /\ dr.resolution_windows \in Seq(Window)
      /\ DOMAIN dr.resolution_windows = 1 .. Rounds(dr)
      /\ \A r \in 1 .. Rounds(dr) : dr.resolution_windows[r] \in Window
      /\ Rounds(dr) = Len(dr.resolution_windows)
  BY RequestFields DEF Rounds
<1>2. w \in Window /\ FilledToBond(w)
  BY <1>1 DEF Ladder, BondedIffFull
<1>3. v \in Window /\ FilledToBond(v) /\ SameBond(v, w)
  BY <1>2, RemoveStakeFilled
<1>4. e = [dr EXCEPT !.resolution_windows = windows]
  BY DEF Unstaked
<1> HIDE DEF v
<1>5. /\ windows \in Seq(Window)
      /\ Len(windows) = Rounds(dr)
      /\ \A r \in 1 .. Rounds(dr) :
           windows[r] = IF r = round THEN v ELSE dr.resolution_windows[r]
  BY <1>1, <1>3
<1> HIDE DEF windows, e, w
<1>6. /\ e \in Request
      /\ e.resolution_windows = windows
      /\ e.final_arbitrator_triggered = dr.final_arbitrator_triggered
      /\ e.request_config = dr.request_config
      /\ e.global_config_id = dr.global_config_id
      /\ e.initial_challenge_period = dr.initial_challenge_period
      /\ e.provider = dr.provider
      /\ e.finalized_outcome = dr.finalized_outcome
  BY <1>4, <1>5 DEF Request
<1>7. Rounds(e) = Rounds(dr)
  BY <1>5, <1>6 DEF Rounds
<1>8. \A r \in 1 .. Rounds(dr) :
        /\ SameBond(e.resolution_windows[r], dr.resolution_windows[r])
        /\ FilledToBond(e.resolution_windows[r])
  BY <1>1, <1>3, <1>5, <1>6 DEF Ladder, BondedIffFull, SameBond, w
<1>9. SameWindows(e, dr)
  BY <1>6, <1>7, <1>8 DEF SameWindows
<1>10. Ladder(e)
  BY <1>6, <1>8, <1>9, SameBondsLadder
<1>11. QED
  BY <1>6, <1>9, <1>10 DEF SameTerms, e

(***************************************************************************)
(* trim_dr keeps the windows.                                              *)
(***************************************************************************)
LEMMA FinalizedLadder ==
  ASSUME NEW dr \in Request, NEW o \in Outcomes, Ladder(dr)
  PROVE  LET e == Finalized(dr, o)
         IN  /\ e \in Request
             /\ Ladder(e)
             /\ SameTerms(e, dr)
             /\ SameWindows(e, dr)
             /\ e.finalized_outcome = o
<1> DEFINE e == Finalized(dr, o)
<1>1. /\ e \in Request
      /\ e.resolution_windows = dr.resolution_windows
      /\ e.final_arbitrator_triggered = dr.final_arbitrator_triggered
      /\ e.request_config = dr.request_config
      /\ e.global_config_id = dr.global_config_id
      /\ e.initial_challenge_period = dr.initial_challenge_period
      /\ e.provider = dr.provider
      /\ e.finalized_outcome = o
  BY DEF Finalized, Request
<1> HIDE DEF e
<1>2. Ladder(e)
  BY <1>1 DEF Ladder, BondedIffFull, OnlyLastOpen, ChallengesEscalate, ArbitratorEndsLadder,
              Rounds, LastWindow
<1>3. SameWindows(e, dr)
  BY <1>1 DEF SameWindows, SameBond, Rounds
<1>4. QED
  BY <1>1, <1>2, <1>3 DEF SameTerms, e

(***************************************************************************)
(* FinalizedDataRequest::claim keeps the ladder.                           *)
(***************************************************************************)
LEMMA ClaimedLadder ==
  ASSUME NEW dr \in Request, NEW u \in Stakers, Ladder(dr), ~IsActive(dr)
  PROVE  LET e == Claimed(dr, u)
         IN  /\ e \in Request
             /\ Ladder(e)
             /\ SameTerms(e, dr)
             /\ SameWindows(e, dr)
             /\ e.finalized_outcome = dr.finalized_outcome
<1> DEFINE windows == [r \in DOMAIN dr.resolution_windows |->
                         TakeClaimedStake(dr.resolution_windows[r], u, dr.finalized_outcome)]
           e       == Claimed(dr, u)
<1>1. /\ dr.resolution_windows \in Seq(Window)
      /\ DOMAIN dr.resolution_windows = 1 .. Rounds(dr)
      /\ \A r \in 1 .. Rounds(dr) : dr.resolution_windows[r] \in Window
      /\ Rounds(dr) \in Nat
  BY RequestFields
<1>2. dr.finalized_outcome \in Outcomes
  BY DEF Request, IsActive
<1>3. \A r \in 1 .. Rounds(dr) :
        /\ windows[r] \in Window
        /\ FilledToBond(windows[r])
        /\ SameBond(windows[r], dr.resolution_windows[r])
  BY <1>1, <1>2, TakeClaimedFilled DEF Ladder, BondedIffFull
<1>4. e = [dr EXCEPT !.resolution_windows = windows]
  BY DEF Claimed
<1>5. DOMAIN windows = 1 .. Rounds(dr)
  BY <1>1
<1> HIDE DEF e
<1>6. windows \in Seq(Window) /\ Len(windows) = Rounds(dr)
  <2>1. windows \in [1 .. Rounds(dr) -> Window]
    BY <1>1, <1>3
  <2> HIDE DEF windows
  <2>2. QED
    BY <1>1, <1>5, <2>1
<1> HIDE DEF windows
<1>7. /\ e \in Request
      /\ e.resolution_windows = windows
      /\ e.final_arbitrator_triggered = dr.final_arbitrator_triggered
      /\ e.request_config = dr.request_config
      /\ e.global_config_id = dr.global_config_id
      /\ e.initial_challenge_period = dr.initial_challenge_period
      /\ e.provider = dr.provider
      /\ e.finalized_outcome = dr.finalized_outcome
  BY <1>4, <1>6 DEF Request
<1>8. Rounds(e) = Rounds(dr)
  BY <1>6, <1>7 DEF Rounds
<1>9. SameWindows(e, dr)
  BY <1>3, <1>7, <1>8 DEF SameWindows
<1>10. Ladder(e)
  BY <1>3, <1>7, <1>9, SameBondsLadder
<1>11. QED
  BY <1>7, <1>9, <1>10 DEF SameTerms, e

---------------------------------------------------------------------------
(***************************************************************************)
(* What a request owes                                                     *)
(***************************************************************************)

\* The open stake and the bond of each window.
OpenStakes(dr) == [r \in DOMAIN dr.resolution_windows |-> OpenStakeIn(dr.resolution_windows[r])]
Bonds(dr) == [r \in DOMAIN dr.resolution_windows |-> dr.resolution_windows[r].bond_size]

\* What a list of windows holds for the stakers.
HoldsOf(windows) == [r \in DOMAIN windows |-> Holds(windows[r])]
HeldBy(windows) == Total(HoldsOf(windows), DOMAIN windows)

\* The two maps of every window agree.
AllAgree(dr) == \A r \in DOMAIN dr.resolution_windows : StakesAgree(dr.resolution_windows[r])

\* A request has finitely many windows.
LEMMA RoundsFinite ==
  ASSUME NEW dr \in Request
  PROVE  /\ IsFiniteSet(DOMAIN dr.resolution_windows)
         /\ \A R \in SUBSET DOMAIN dr.resolution_windows : IsFiniteSet(R)
<1>1. DOMAIN dr.resolution_windows = 1 .. Rounds(dr) /\ Rounds(dr) \in Nat
  BY RequestFields
<1>2. IsFiniteSet(1 .. Rounds(dr))
  BY <1>1, FS_Interval
<1>3. QED
  BY <1>1, <1>2, FS_Subset

\* The bonds of some windows, as a sum of the table of bonds.
LEMMA TotalBondsTotal ==
  ASSUME NEW dr \in Request, NEW R \in SUBSET DOMAIN dr.resolution_windows
  PROVE  /\ Summable(Bonds(dr), R)
         /\ TotalBonds(dr, R) = Total(Bonds(dr), R)
         /\ TotalBonds(dr, R) \in Nat
<1> DEFINE table == [r \in R |-> dr.resolution_windows[r].bond_size]
<1>1. TotalBonds(dr, R) = Total(table, R)
  BY DEF TotalBonds, Total, MapThenSumSet, MapThenFoldSet
<1>2. \A r \in R : table[r] \in Nat /\ Bonds(dr)[r] = table[r]
  BY RequestFields DEF Bonds, Window
<1>3. IsFiniteSet(R)
  BY RoundsFinite
<1> HIDE DEF table
<1>4. Summable(table, R) /\ Summable(Bonds(dr), R)
  BY <1>2, <1>3 DEF Summable
<1>5. Total(Bonds(dr), R) = Total(table, R) /\ Total(table, R) \in Nat
  BY <1>2, <1>3, <1>4, TotalSame, TotalNat
<1>6. QED
  BY <1>1, <1>4, <1>5

\* The open stake of a request, as a sum of a table of windows.
LEMMA OpenStakeTotal ==
  ASSUME NEW dr \in Request
  PROVE  /\ Summable(OpenStakes(dr), DOMAIN dr.resolution_windows)
         /\ OpenStake(dr) = Total(OpenStakes(dr), DOMAIN dr.resolution_windows)
         /\ OpenStake(dr) \in Nat
<1> DEFINE D == DOMAIN dr.resolution_windows
<1>1. OpenStake(dr) = Total(OpenStakes(dr), D)
  BY DEF OpenStake, OpenStakes, Total, MapThenSumSet, MapThenFoldSet
<1>2. \A r \in D : OpenStakes(dr)[r] \in Nat
  BY RequestFields, OpenStakeInTotal DEF OpenStakes
<1>3. IsFiniteSet(D)
  BY RoundsFinite
<1> HIDE DEF D
<1>4. QED
  BY <1>1, <1>2, <1>3, TotalNat DEF Summable, D

\* A list of windows holds a natural number.
LEMMA HeldByType ==
  ASSUME NEW windows \in Seq(Window)
  PROVE  /\ Summable(HoldsOf(windows), DOMAIN windows)
         /\ HeldBy(windows) \in Nat
         /\ \A w \in Window : Holds(w) \in Nat
<1>1. ASSUME NEW w \in Window
      PROVE  Holds(w) \in Nat
  <2>1. OpenStakeIn(w) \in Nat /\ w.bond_size \in Nat
    BY OpenStakeInTotal DEF Window
  <2>2. QED
    BY <2>1 DEF Holds
<1>2. \A r \in DOMAIN windows : HoldsOf(windows)[r] \in Nat
  BY <1>1 DEF HoldsOf
<1>3. IsFiniteSet(DOMAIN windows)
  BY FS_Interval
<1>4. QED
  BY <1>1, <1>2, <1>3, TotalNat DEF HeldBy, Summable

\* One window more.
LEMMA HeldAppended ==
  ASSUME NEW windows, windows \in Seq(Window), NEW w \in Window
  PROVE  HeldBy(Append(windows, w)) = HeldBy(windows) + Holds(w)
<1> DEFINE more == Append(windows, w)
           n    == Len(windows)
           D    == DOMAIN windows
           f    == HoldsOf(windows)
           g    == HoldsOf(more)
<1>1. /\ n \in Nat
      /\ D = 1 .. n
      /\ DOMAIN more = D \union {n + 1}
      /\ n + 1 \notin D
      /\ more[n + 1] = w
      /\ \A r \in D : more[r] = windows[r]
  OBVIOUS
<1>2. g[n + 1] = Holds(w) /\ \A r \in D : g[r] = f[r]
  BY <1>1 DEF HoldsOf
<1>3. Summable(f, D) /\ g[n + 1] \in Int
  BY <1>2, HeldByType
<1> DEFINE last == n + 1
<1>4. Summable(f, D)
  BY <1>3
<1>5. last \notin D /\ g[last] \in Int /\ \A r \in D : g[r] = f[r]
  BY <1>1, <1>2, <1>3
<1> HIDE DEF f, g, D, last
<1>6. Total(g, D \union {last}) = Total(f, D) + g[last]
  BY ONLY <1>4, <1>5, TotalAdded
<1>7. QED
  BY <1>1, <1>2, <1>6 DEF HeldBy, f, g, D, last

\* One window replaced.
LEMMA HeldReplaced ==
  ASSUME NEW windows \in Seq(Window), NEW w \in Window, NEW k \in DOMAIN windows
  PROVE  HeldBy([windows EXCEPT ![k] = w]) = HeldBy(windows) + Holds(w) - Holds(windows[k])
<1> DEFINE other == [windows EXCEPT ![k] = w]
           D     == DOMAIN windows
           f     == HoldsOf(windows)
           g     == HoldsOf(other)
<1>1. DOMAIN other = D /\ other[k] = w /\ \A r \in D \ {k} : other[r] = windows[r]
  OBVIOUS
<1>2. g[k] = Holds(w) /\ f[k] = Holds(windows[k]) /\ \A r \in D \ {k} : g[r] = f[r]
  BY <1>1 DEF HoldsOf
<1>3. Summable(f, D) /\ g[k] \in Int
  BY <1>2, HeldByType
<1> HIDE DEF f, g
<1>4. Total(g, D) = Total(f, D) + g[k] - f[k]
  BY <1>2, <1>3, TotalChanged
<1>5. QED
  BY <1>1, <1>2, <1>4 DEF HeldBy, f, g

\* What an active request owes its stakers is what its windows hold.
LEMMA ActiveStakeOwed ==
  ASSUME NEW dr \in Request, IsActive(dr)
  PROVE  StakeOwed(dr) = HeldBy(dr.resolution_windows)
<1> DEFINE windows == dr.resolution_windows
           D       == DOMAIN windows
           B       == BondedRounds(dr)
           bonds   == [r \in D |-> IF r \in B THEN windows[r].bond_size ELSE 0]
<1>1. B \in SUBSET D
  BY DEF BondedRounds
<1>2. IsFiniteSet(D) /\ \A r \in B : Bonds(dr)[r] \in Int
  BY <1>1, RoundsFinite, TotalBondsTotal DEF Summable
<1>3. /\ \A r \in B : bonds[r] = Bonds(dr)[r]
      /\ \A r \in D \ B : bonds[r] = 0
  BY <1>1 DEF Bonds
<1>4. \A r \in D : HoldsOf(windows)[r] = OpenStakes(dr)[r] + bonds[r]
  BY DEF HoldsOf, Holds, OpenStakes, BondedRounds
<1> HIDE DEF bonds, B, D
<1>5. Summable(bonds, D) /\ Total(bonds, D) = Total(Bonds(dr), B)
  BY <1>1, <1>2, <1>3, TotalPart
<1>6. Summable(OpenStakes(dr), D) /\ OpenStake(dr) = Total(OpenStakes(dr), D)
  BY OpenStakeTotal DEF D
<1> DEFINE f == OpenStakes(dr)
           h == HoldsOf(windows)
<1>7. Summable(f, D) /\ \A r \in D : h[r] = f[r] + bonds[r]
  BY <1>4, <1>6
<1> HIDE DEF f, h
<1>8. Total(h, D) = Total(f, D) + Total(bonds, D)
  BY <1>5, <1>7, TotalPlus
<1>9. TotalBonds(dr, B) = Total(Bonds(dr), B)
  BY <1>1, TotalBondsTotal DEF D
<1>10. QED
  BY <1>5, <1>6, <1>8, <1>9 DEF StakeOwed, HeldBy, B, D, f, h

\* A request nobody has staked on holds nothing.
LEMMA HeldByNone == HeldBy(<< >>) = 0
<1>1. DOMAIN << >> = {}
  OBVIOUS
<1>2. QED
  BY <1>1, TotalEmpty DEF HeldBy

\* The windows after a stake, before another is opened, hold what the stake
\* left with them.
LEMMA StakedWindowsHold ==
  ASSUME NEW dr \in Request, NEW s \in Stakers, NEW o \in Outcomes, NEW amount \in Nat,
         NEW time \in Nat, Ladder(dr), ~dr.final_arbitrator_triggered, AllAgree(dr)
  PROVE  LET w       == StakedWindow(dr, s, o, amount, time)
             windows == WithStakedWindow(dr, w)
         IN  /\ windows \in Seq(Window)
             /\ w \in Window
             /\ \A r \in DOMAIN windows : StakesAgree(windows[r])
             /\ HeldBy(windows) = HeldBy(dr.resolution_windows)
                                    + (amount - Unspent(dr, o, amount, time))
<1> DEFINE w0      == StakingWindow(dr, time)
           w       == StakedWindow(dr, s, o, amount, time)
           windows == WithStakedWindow(dr, w)
           taken   == Taken(w0, o, amount)
           before  == dr.resolution_windows
           k       == Rounds(dr)
<1>1. w0 \in Window /\ FilledToBond(w0) /\ ~IsBonded(w0)
  BY StakingWindowOpen
<1>2. taken \in Nat /\ amount - Unspent(dr, o, amount, time) = taken
  <2>1. taken \in Nat
    BY <1>1, TakenBounds DEF FilledToBond
  <2>2. QED
    BY <2>1 DEF Unspent
<1>3. w \in Window
  BY <1>1, AddStakeFilled DEF StakedWindow
<1>4. StakesAgree(w0) => StakesAgree(w) /\ Holds(w) = Holds(w0) + taken
  BY <1>1, AddStakeHolds DEF StakedWindow
<1>5. before \in Seq(Window) /\ DOMAIN before = 1 .. k /\ k \in Nat
  BY RequestFields
<1>6. HeldBy(before) \in Nat /\ Holds(w0) \in Nat
  BY <1>1, <1>5, HeldByType
<1>7. CASE before = << >>
  <2>1. windows = << w >>
    BY <1>7 DEF WithStakedWindow
  <2>2. StakesAgree(w0) /\ Holds(w0) = 0
    BY <1>7, NewWindowHolds, ResolutionBondType, RequestFields DEF StakingWindow
  <2> HIDE DEF w, w0, windows, taken
  <2>3. windows = Append(<< >>, w) /\ << >> \in Seq(Window)
    BY <2>1
  <2>4. HeldBy(windows) = HeldBy(<< >>) + Holds(w)
    BY <1>3, <2>3, HeldAppended
  <2>5. HeldBy(windows) = HeldBy(before) + taken
    BY <1>2, <1>4, <1>7, <2>2, <2>4, HeldByNone
  <2>6. \A r \in DOMAIN windows : windows[r] = w
    BY <2>1
  <2>7. windows \in Seq(Window)
    BY <1>3, <2>1
  <2>8. QED
    BY <1>2, <1>3, <1>4, <2>2, <2>5, <2>6, <2>7 DEF windows, w
<1>8. CASE before # << >>
  <2>1. k \in DOMAIN before
    BY <1>5, <1>8, RequestFields
  <2>2. windows = [before EXCEPT ![k] = w]
    BY <1>8 DEF WithStakedWindow
  <2>3. w0 = before[k]
    BY <1>8 DEF StakingWindow, LastWindow
  <2>4. StakesAgree(w0)
    BY <2>1, <2>3 DEF AllAgree
  <2> HIDE DEF w, w0, windows, taken, before, k
  <2>5. HeldBy(windows) = HeldBy(before) + Holds(w) - Holds(before[k])
    BY <1>3, <1>5, <2>1, <2>2, HeldReplaced
  <2>6. HeldBy(windows) = HeldBy(before) + taken
    BY <1>2, <1>4, <1>6, <2>3, <2>4, <2>5
  <2>7. windows \in Seq(Window) /\ DOMAIN windows = DOMAIN before
    BY <1>3, <1>5, <2>1, <2>2
  <2>8. \A r \in DOMAIN windows : windows[r] = w \/ windows[r] = before[r]
    BY <2>2
  <2>9. \A r \in DOMAIN windows : StakesAgree(windows[r])
    BY <1>4, <2>4, <2>7, <2>8 DEF AllAgree, before
  <2>10. QED
    BY <1>2, <1>3, <2>6, <2>7, <2>9 DEF windows, w, before
<1>9. QED
  BY <1>7, <1>8

\* A stake adds to what a request owes what the oracle keeps of it, and leaves
\* the maps of every window in agreement (ActiveDataRequest::stake).
LEMMA StakedOwes ==
  ASSUME NEW dr \in Request, NEW s \in Stakers, NEW o \in Outcomes, NEW amount \in Nat,
         NEW time \in Nat, Ladder(dr), ~dr.final_arbitrator_triggered,
         CanStakeOnOutcome(dr, o), IsActive(dr), AllAgree(dr)
  PROVE  LET e == Staked(dr, s, o, amount, time)
         IN  /\ AllAgree(e)
             /\ StakeOwed(e) = StakeOwed(dr) + (amount - Unspent(dr, o, amount, time))
             /\ PaymentOwed(e) = PaymentOwed(dr)
<1> DEFINE w       == StakedWindow(dr, s, o, amount, time)
           windows == WithStakedWindow(dr, w)
           next    == NextWindow(dr, w, Len(windows), time)
           e       == Staked(dr, s, o, amount, time)
           kept    == amount - Unspent(dr, o, amount, time)
<1>1. /\ windows \in Seq(Window)
      /\ w \in Window
      /\ \A r \in DOMAIN windows : StakesAgree(windows[r])
      /\ HeldBy(windows) = HeldBy(dr.resolution_windows) + kept
  BY StakedWindowsHold
<1>2. /\ e \in Request
      /\ e.request_config = dr.request_config
      /\ IsActive(e)
  BY StakedLadder DEF SameTerms, IsActive
<1>3. e.resolution_windows = windows \/ e.resolution_windows = Append(windows, next)
  BY DEF Staked, Request
<1>4. next \in Window /\ StakesAgree(next) /\ Holds(next) = 0
  <2>1. w.bond_size \in Nat /\ ChallengeDuration(dr, Len(windows)) \in Nat
    BY <1>1, RequestFields DEF Window
  <2>2. QED
    BY <2>1, NewWindowType, NewWindowHolds DEF NextWindow
<1> HIDE DEF w, windows, next, e, kept
<1>5. /\ HeldBy(e.resolution_windows) = HeldBy(windows)
      /\ \A r \in DOMAIN e.resolution_windows : StakesAgree(e.resolution_windows[r])
  <2>1. CASE e.resolution_windows = windows
    BY <1>1, <2>1
  <2>2. CASE e.resolution_windows = Append(windows, next)
    <3>1. HeldBy(Append(windows, next)) = HeldBy(windows) + Holds(next)
      BY <1>1, <1>4, HeldAppended
    <3>2. HeldBy(windows) \in Nat
      BY <1>1, HeldByType
    <3>3. \A r \in DOMAIN Append(windows, next) :
            IF r = Len(windows) + 1 THEN Append(windows, next)[r] = next
            ELSE r \in DOMAIN windows /\ Append(windows, next)[r] = windows[r]
      BY <1>1, <1>4
    <3>4. QED
      BY <1>1, <1>4, <2>2, <3>1, <3>2, <3>3
  <2>3. QED
    BY <1>3, <2>1, <2>2
<1>6. StakeOwed(e) = StakeOwed(dr) + kept
  BY <1>1, <1>2, <1>5, ActiveStakeOwed
<1>7. PaymentOwed(e) = PaymentOwed(dr)
  BY <1>2 DEF PaymentOwed
<1>8. QED
  BY <1>5, <1>6, <1>7 DEF AllAgree, e, kept

\* What an account has behind the final outcome, window by window, and what
\* every staker can claim.
CorrectStakes(dr, u) ==
  [r \in DOMAIN dr.resolution_windows |->
     UserStake(dr.resolution_windows[r], u, dr.finalized_outcome)]
StakePayouts(dr) == [u \in Stakers |-> StakePayout(dr, u)]
PaymentPayouts(dr) == [u \in Stakers |-> PaymentPayout(dr, u)]

\* The windows that won and those that lost are the bonded ones.
LEMMA RoundsByVerdict ==
  ASSUME NEW dr \in Request, ~IsActive(dr)
  PROVE  /\ CorrectRounds(dr) \in SUBSET DOMAIN dr.resolution_windows
         /\ IncorrectRounds(dr) \in SUBSET DOMAIN dr.resolution_windows
         /\ BondedRounds(dr) \in SUBSET DOMAIN dr.resolution_windows
         /\ CorrectRounds(dr) \subseteq BondedRounds(dr)
         /\ IncorrectRounds(dr) = BondedRounds(dr) \ CorrectRounds(dr)
BY DEF CorrectRounds, IncorrectRounds, BondedRounds, IsCorrect, IsIncorrect, IsBonded, IsActive

\* What an account has behind the final outcome, as a sum of a table.
LEMMA UserCorrectStakeTotal ==
  ASSUME NEW dr \in Request, ~IsActive(dr), NEW u \in Stakers
  PROVE  /\ Summable(CorrectStakes(dr, u), CorrectRounds(dr))
         /\ UserCorrectStake(dr, u) = Total(CorrectStakes(dr, u), CorrectRounds(dr))
         /\ UserCorrectStake(dr, u) \in Nat
<1> DEFINE R     == CorrectRounds(dr)
           o     == dr.finalized_outcome
           table == [r \in R |-> dr.resolution_windows[r].user_to_outcome_to_stake[u][o]]
<1>1. UserCorrectStake(dr, u) = Total(table, R)
  BY DEF UserCorrectStake, Total, MapThenSumSet, MapThenFoldSet
<1>2. R \in SUBSET DOMAIN dr.resolution_windows /\ o \in Outcomes
  BY RoundsByVerdict DEF IsActive, Request
<1>3. \A r \in DOMAIN dr.resolution_windows : UserStake(dr.resolution_windows[r], u, o) \in Nat
  BY <1>2, RequestFields, StakeOfAllType
<1>4. \A r \in R : table[r] \in Nat /\ CorrectStakes(dr, u)[r] = table[r]
  BY <1>2, <1>3 DEF CorrectStakes, UserStake
<1>5. IsFiniteSet(R)
  BY <1>2, RoundsFinite
<1> DEFINE all == CorrectStakes(dr, u)
<1> HIDE DEF table, R, o, all
<1>6. Summable(table, R) /\ Summable(all, R)
  BY <1>4, <1>5 DEF Summable, all
<1>7. Total(all, R) = Total(table, R) /\ Total(table, R) \in Nat
  BY <1>4, <1>5, <1>6, TotalSame, TotalNat DEF all
<1>8. QED
  BY <1>1, <1>6, <1>7 DEF R, all

\* A share of a pot is a natural number, and 0 for who has no part.
LEMMA ProfitShareType ==
  ASSUME NEW dr \in Request, ~IsActive(dr), NEW u \in Stakers, NEW pot \in Nat
  PROVE  /\ ProfitShare(dr, u, pot) \in Nat
         /\ UserCorrectStake(dr, u) = 0 => ProfitShare(dr, u, pot) = 0
<1> DEFINE c == TotalBonds(dr, CorrectRounds(dr))
           p == UserCorrectStake(dr, u)
<1>1. c \in Nat /\ p \in Nat
  BY RoundsByVerdict, TotalBondsTotal, UserCorrectStakeTotal
<1> HIDE DEF c, p
<1>2. p * pot \in Nat /\ (p = 0 => p * pot = 0)
  BY <1>1
<1> DEFINE n == p * pot
<1>3. n \in Nat
  BY <1>2
<1> HIDE DEF n
<1>4. CASE c # 0
  <2>1. n \div c \in Nat /\ (n = 0 => n \div c = 0)
    BY <1>1, <1>3, <1>4
  <2>2. ProfitShare(dr, u, pot) = n \div c
    BY <1>4 DEF ProfitShare, CalcProduct, c, p, n
  <2>3. QED
    BY <1>2, <2>1, <2>2 DEF n, p
<1>5. CASE c = 0
  BY <1>5 DEF ProfitShare, c
<1>6. QED
  BY <1>4, <1>5

\* Payouts are natural numbers, and who has nothing behind the final outcome
\* gets nothing.
LEMMA PayoutType ==
  ASSUME NEW dr \in Request, ~IsActive(dr), NEW u \in Stakers
  PROVE  /\ StakePayout(dr, u) \in Nat
         /\ PaymentPayout(dr, u) \in Nat
         /\ UserCorrectStake(dr, u) = 0 => StakePayout(dr, u) = 0 /\ PaymentPayout(dr, u) = 0
<1>1. TotalBonds(dr, IncorrectRounds(dr)) \in Nat
  BY RoundsByVerdict, TotalBondsTotal
<1>2. dr.request_config.paid_fee \in Nat
  BY DEF Request, RequestConfig
<1>3. UserCorrectStake(dr, u) \in Nat
  BY UserCorrectStakeTotal
<1>4. QED
  BY <1>1, <1>2, <1>3, ProfitShareType DEF StakePayout, PaymentPayout

\* What a final request owes, as sums of tables of stakers.
LEMMA FinalOwed ==
  ASSUME NEW dr \in Request, ~IsActive(dr)
  PROVE  /\ Summable(StakePayouts(dr), Stakers)
         /\ Summable(PaymentPayouts(dr), Stakers)
         /\ StakeOwed(dr) = OpenStake(dr) + Total(StakePayouts(dr), Stakers)
         /\ PaymentOwed(dr) = Total(PaymentPayouts(dr), Stakers)
         /\ Total(StakePayouts(dr), Stakers) \in Nat
         /\ Total(PaymentPayouts(dr), Stakers) \in Nat
<1>1. \A u \in Stakers : StakePayouts(dr)[u] \in Nat /\ PaymentPayouts(dr)[u] \in Nat
  BY PayoutType DEF StakePayouts, PaymentPayouts
<1>2. MapThenSumSet(LAMBDA u : StakePayout(dr, u), Stakers) = Total(StakePayouts(dr), Stakers)
  BY DEF StakePayouts, Total, MapThenSumSet, MapThenFoldSet
<1>3. MapThenSumSet(LAMBDA u : PaymentPayout(dr, u), Stakers)
        = Total(PaymentPayouts(dr), Stakers)
  BY DEF PaymentPayouts, Total, MapThenSumSet, MapThenFoldSet
<1>4. Summable(StakePayouts(dr), Stakers) /\ Summable(PaymentPayouts(dr), Stakers)
  BY <1>1, FiniteAssumption DEF Summable
<1>5. /\ Total(StakePayouts(dr), Stakers) \in Nat
      /\ Total(PaymentPayouts(dr), Stakers) \in Nat
  BY <1>1, FiniteAssumption, TotalNat
<1>6. StakeOwed(dr) = OpenStake(dr) + Total(StakePayouts(dr), Stakers)
  BY <1>2 DEF StakeOwed
<1>7. PaymentOwed(dr) = Total(PaymentPayouts(dr), Stakers)
  BY <1>3 DEF PaymentOwed
<1>8. QED
  BY <1>4, <1>5, <1>6, <1>7

\* What a request owes is a natural number.
LEMMA OwedType ==
  ASSUME NEW dr \in Request
  PROVE  StakeOwed(dr) \in Nat /\ PaymentOwed(dr) \in Nat
<1>1. CASE IsActive(dr)
  <2>1. dr.request_config.paid_fee \in Nat /\ dr.request_config.validity_bond \in Nat
    BY DEF Request, RequestConfig
  <2>2. HeldBy(dr.resolution_windows) \in Nat
    BY RequestFields, HeldByType
  <2>3. QED
    BY <1>1, <2>1, <2>2, ActiveStakeOwed DEF PaymentOwed
<1>2. CASE ~IsActive(dr)
  <2>1. OpenStake(dr) \in Nat
    BY OpenStakeTotal
  <2>2. QED
    BY <1>2, <2>1, FinalOwed
<1>3. QED
  BY <1>1, <1>2

\* Requests with the same bonds and verdict have the same rounds won and lost.
LEMMA SameRounds ==
  ASSUME NEW dr \in Request, NEW e \in Request, SameWindows(e, dr)
  PROVE  /\ DOMAIN e.resolution_windows = DOMAIN dr.resolution_windows
         /\ \A R \in SUBSET DOMAIN dr.resolution_windows : TotalBonds(e, R) = TotalBonds(dr, R)
         /\ BondedRounds(e) = BondedRounds(dr)
         /\ e.finalized_outcome = dr.finalized_outcome =>
              /\ CorrectRounds(e) = CorrectRounds(dr)
              /\ IncorrectRounds(e) = IncorrectRounds(dr)
<1> DEFINE D == DOMAIN dr.resolution_windows
<1>1. DOMAIN e.resolution_windows = D /\ D = 1 .. Rounds(dr)
  BY RequestFields DEF SameWindows
<1>2. \A r \in D : SameBond(e.resolution_windows[r], dr.resolution_windows[r])
  BY <1>1 DEF SameWindows
<1>3. ASSUME NEW R \in SUBSET D
      PROVE  TotalBonds(e, R) = TotalBonds(dr, R)
  <2>1. /\ Summable(Bonds(dr), R) /\ TotalBonds(dr, R) = Total(Bonds(dr), R)
        /\ Summable(Bonds(e), R) /\ TotalBonds(e, R) = Total(Bonds(e), R)
    BY <1>1, TotalBondsTotal
  <2>2. \A r \in R : Bonds(e)[r] = Bonds(dr)[r]
    BY <1>1, <1>2 DEF Bonds, SameBond
  <2>3. Total(Bonds(e), R) = Total(Bonds(dr), R)
    BY <2>1, <2>2, TotalSame
  <2>4. QED
    BY <2>1, <2>3
<1>4. BondedRounds(e) = BondedRounds(dr)
  BY <1>1, <1>2 DEF BondedRounds, IsBonded, SameBond
<1>5. ASSUME e.finalized_outcome = dr.finalized_outcome
      PROVE  CorrectRounds(e) = CorrectRounds(dr) /\ IncorrectRounds(e) = IncorrectRounds(dr)
  BY <1>1, <1>2, <1>5
     DEF CorrectRounds, IncorrectRounds, IsCorrect, IsIncorrect, IsBonded, SameBond
<1>6. QED
  BY <1>1, <1>3, <1>4, <1>5

\* Who has as much behind the final outcome gets as much.
LEMMA SamePayout ==
  ASSUME NEW dr \in Request, NEW e \in Request, ~IsActive(dr), SameWindows(e, dr),
         SameTerms(e, dr), e.finalized_outcome = dr.finalized_outcome, NEW u \in Stakers,
         \A r \in CorrectRounds(dr) :
           UserStake(e.resolution_windows[r], u, dr.finalized_outcome)
             = UserStake(dr.resolution_windows[r], u, dr.finalized_outcome)
  PROVE  StakePayout(e, u) = StakePayout(dr, u) /\ PaymentPayout(e, u) = PaymentPayout(dr, u)
<1> DEFINE R == CorrectRounds(dr)
<1>1. /\ CorrectRounds(e) = R
      /\ IncorrectRounds(e) = IncorrectRounds(dr)
      /\ TotalBonds(e, R) = TotalBonds(dr, R)
      /\ TotalBonds(e, IncorrectRounds(dr)) = TotalBonds(dr, IncorrectRounds(dr))
      /\ R \in SUBSET DOMAIN dr.resolution_windows
      /\ DOMAIN e.resolution_windows = DOMAIN dr.resolution_windows
      /\ ~IsActive(e)
  BY SameRounds, RoundsByVerdict DEF IsActive
<1>2. /\ Summable(CorrectStakes(dr, u), R)
      /\ UserCorrectStake(dr, u) = Total(CorrectStakes(dr, u), R)
      /\ UserCorrectStake(e, u) = Total(CorrectStakes(e, u), R)
  BY <1>1, UserCorrectStakeTotal
<1>3. \A r \in R : CorrectStakes(e, u)[r] = CorrectStakes(dr, u)[r]
  BY <1>1 DEF CorrectStakes
<1>4. Total(CorrectStakes(e, u), R) = Total(CorrectStakes(dr, u), R)
  BY <1>2, <1>3, TotalSame
<1>5. UserCorrectStake(e, u) = UserCorrectStake(dr, u)
  BY <1>2, <1>4
<1>6. QED
  BY <1>1, <1>5 DEF StakePayout, PaymentPayout, ProfitShare, SameTerms

\* What stays behind depends on the bonds and the verdict.
LEMMA SameLeftBehind ==
  ASSUME NEW dr \in Request, NEW e \in Request, SameWindows(e, dr), SameTerms(e, dr),
         e.finalized_outcome = dr.finalized_outcome
  PROVE  /\ StakeLeftBehind(e) = StakeLeftBehind(dr)
         /\ PaymentLeftBehind(e) = PaymentLeftBehind(dr)
<1>1. /\ CorrectRounds(dr) \in SUBSET DOMAIN dr.resolution_windows
      /\ BondedRounds(dr) \in SUBSET DOMAIN dr.resolution_windows
  BY DEF CorrectRounds, BondedRounds
<1>2. /\ CorrectRounds(e) = CorrectRounds(dr)
      /\ BondedRounds(e) = BondedRounds(dr)
      /\ TotalBonds(e, CorrectRounds(dr)) = TotalBonds(dr, CorrectRounds(dr))
      /\ TotalBonds(e, BondedRounds(dr)) = TotalBonds(dr, BondedRounds(dr))
  BY <1>1, SameRounds
<1>3. QED
  BY <1>2 DEF StakeLeftBehind, PaymentLeftBehind, SameTerms, IsActive

\* A withdrawal, also from a final request, takes its amount off what is owed,
\* and nothing off what the claims will pay (ResolutionWindow::unstake).
LEMMA UnstakedOwes ==
  ASSUME NEW dr \in Request, NEW s \in Stakers, NEW round \in DOMAIN dr.resolution_windows,
         NEW o \in Outcomes, NEW amount \in Nat, Ladder(dr),
         CanUnstake(dr.resolution_windows[round], s, o, amount)
  PROVE  LET e == Unstaked(dr, s, round, o, amount)
         IN  /\ AllAgree(dr) => AllAgree(e)
             /\ StakeOwed(e) = StakeOwed(dr) - amount
             /\ PaymentOwed(e) = PaymentOwed(dr)
             /\ StakeLeftBehind(e) = StakeLeftBehind(dr)
             /\ PaymentLeftBehind(e) = PaymentLeftBehind(dr)
<1> DEFINE w == dr.resolution_windows[round]
           v == RemoveStake(w, s, o, amount)
           e == Unstaked(dr, s, round, o, amount)
           D == DOMAIN dr.resolution_windows
<1>1. /\ e \in Request
      /\ SameTerms(e, dr)
      /\ SameWindows(e, dr)
      /\ e.finalized_outcome = dr.finalized_outcome
  BY UnstakedLadder
<1>2. /\ dr.resolution_windows \in Seq(Window)
      /\ w \in Window
      /\ FilledToBond(w)
  BY RequestFields DEF Ladder, BondedIffFull
<1>3. /\ StakesAgree(w) => StakesAgree(v)
      /\ OpenStakeIn(v) = OpenStakeIn(w) - amount
      /\ \A u \in Stakers, q \in Outcomes : q # o => UserStake(v, u, q) = UserStake(w, u, q)
  BY <1>2, RemoveStakeHolds
<1>4. e.resolution_windows = [dr.resolution_windows EXCEPT ![round] = v]
  BY DEF Unstaked, Request
<1> HIDE DEF e, v
<1>5. /\ DOMAIN e.resolution_windows = D
      /\ e.resolution_windows[round] = v
      /\ \A r \in D \ {round} : e.resolution_windows[r] = dr.resolution_windows[r]
  BY <1>2, <1>4
<1>6. AllAgree(dr) => AllAgree(e)
  BY <1>3, <1>5 DEF AllAgree
<1>7. OpenStake(e) = OpenStake(dr) - amount
  <2> DEFINE f == OpenStakes(dr)
             g == OpenStakes(e)
  <2>1. /\ Summable(f, D) /\ OpenStake(dr) = Total(f, D)
        /\ Summable(g, D) /\ OpenStake(e) = Total(g, D)
        /\ OpenStake(dr) \in Nat
    BY <1>1, <1>5, OpenStakeTotal
  <2>2. /\ f[round] = OpenStakeIn(w) /\ g[round] = OpenStakeIn(v)
        /\ \A r \in D \ {round} : g[r] = f[r]
    BY <1>5 DEF OpenStakes
  <2>3. OpenStakeIn(w) \in Nat
    BY <1>2, OpenStakeInTotal
  <2> HIDE DEF f, g, D, w
  <2>4. Summable(f, D) /\ round \in D /\ g[round] \in Int
    BY <2>1 DEF Summable, D
  <2>5. Total(g, D) = Total(f, D) + g[round] - f[round]
    BY <2>2, <2>4, TotalChanged
  <2>6. QED
    BY <1>3, <2>1, <2>2, <2>3, <2>5
<1>8. StakeOwed(e) = StakeOwed(dr) - amount /\ PaymentOwed(e) = PaymentOwed(dr)
  <2>0. OpenStake(dr) \in Nat
    BY OpenStakeTotal
  <2>1. CASE IsActive(dr)
    <3>1. IsActive(e) /\ e.request_config = dr.request_config
      BY <1>1, <2>1 DEF IsActive, SameTerms
    <3>2. BondedRounds(dr) \in SUBSET D
      BY DEF BondedRounds
    <3>3. TotalBonds(dr, BondedRounds(dr)) \in Nat
      BY <3>2, TotalBondsTotal
    <3>4. TotalBonds(e, BondedRounds(e)) = TotalBonds(dr, BondedRounds(dr))
      BY <1>1, <3>2, SameRounds
    <3>5. QED
      BY <1>7, <2>0, <2>1, <3>1, <3>3, <3>4 DEF StakeOwed, PaymentOwed
  <2>2. CASE ~IsActive(dr)
    <3>1. ~IsActive(e) /\ dr.finalized_outcome \in Outcomes
      BY <1>1, <2>2 DEF IsActive, Request
    <3>2. \A r \in CorrectRounds(dr) : \A u \in Stakers :
            UserStake(e.resolution_windows[r], u, dr.finalized_outcome)
              = UserStake(dr.resolution_windows[r], u, dr.finalized_outcome)
      BY <1>3, <1>5, <3>1 DEF CorrectRounds, IsCorrect, CanUnstake
    <3>3. \A u \in Stakers :
            StakePayout(e, u) = StakePayout(dr, u) /\ PaymentPayout(e, u) = PaymentPayout(dr, u)
      BY <1>1, <2>2, <3>2, SamePayout
    <3>4. StakePayouts(e) = StakePayouts(dr) /\ PaymentPayouts(e) = PaymentPayouts(dr)
      BY <3>3 DEF StakePayouts, PaymentPayouts
    <3>5. Total(StakePayouts(dr), Stakers) \in Nat
      BY <2>2, FinalOwed
    <3>6. QED
      BY <1>1, <1>7, <2>0, <2>2, <3>1, <3>4, <3>5, FinalOwed
  <2>3. QED
    BY <2>1, <2>2
<1>9. QED
  BY <1>1, <1>6, <1>8, SameLeftBehind DEF e

\* A claim takes off what is owed exactly what it pays, so that it cannot be
\* repeated, and changes no other claim (FinalizedDataRequest::claim).
LEMMA ClaimedOwes ==
  ASSUME NEW dr \in Request, NEW u \in Stakers, Ladder(dr), ~IsActive(dr)
  PROVE  LET e == Claimed(dr, u)
         IN  /\ StakeOwed(e) = StakeOwed(dr) - StakePayout(dr, u)
             /\ PaymentOwed(e) = PaymentOwed(dr) - PaymentPayout(dr, u)
             /\ StakeLeftBehind(e) = StakeLeftBehind(dr)
             /\ PaymentLeftBehind(e) = PaymentLeftBehind(dr)
<1> DEFINE e == Claimed(dr, u)
           o == dr.finalized_outcome
           D == DOMAIN dr.resolution_windows
           R == CorrectRounds(dr)
<1>1. /\ e \in Request
      /\ SameTerms(e, dr)
      /\ SameWindows(e, dr)
      /\ e.finalized_outcome = o
  BY ClaimedLadder
<1>2. /\ o \in Outcomes
      /\ \A r \in D : dr.resolution_windows[r] \in Window
                      /\ FilledToBond(dr.resolution_windows[r])
  BY RequestFields DEF Ladder, BondedIffFull, IsActive, Request
<1>3. /\ DOMAIN e.resolution_windows = D
      /\ \A r \in D : e.resolution_windows[r] = TakeClaimedStake(dr.resolution_windows[r], u, o)
  BY DEF Claimed, Request
<1> HIDE DEF e
<1>4. \A r \in D :
        /\ OpenStakeIn(e.resolution_windows[r]) = OpenStakeIn(dr.resolution_windows[r])
        /\ r \in R => UserStake(e.resolution_windows[r], u, o) = 0
        /\ \A x \in Stakers \ {u} : UserStake(e.resolution_windows[r], x, o)
                                      = UserStake(dr.resolution_windows[r], x, o)
  BY <1>2, <1>3, TakeClaimedHolds DEF CorrectRounds
<1>5. ~IsActive(e) /\ R \in SUBSET D /\ CorrectRounds(e) = R
  BY <1>1, SameRounds, RoundsByVerdict DEF IsActive
<1>6. OpenStake(e) = OpenStake(dr)
  <2>1. /\ Summable(OpenStakes(dr), D) /\ OpenStake(dr) = Total(OpenStakes(dr), D)
        /\ OpenStake(e) = Total(OpenStakes(e), D)
    BY <1>1, <1>3, OpenStakeTotal
  <2>2. \A r \in D : OpenStakes(e)[r] = OpenStakes(dr)[r]
    BY <1>3, <1>4 DEF OpenStakes
  <2>3. QED
    BY <2>1, <2>2, TotalSame
<1>7. StakePayout(e, u) = 0 /\ PaymentPayout(e, u) = 0
  <2>1. \A r \in R : CorrectStakes(e, u)[r] = 0
    BY <1>1, <1>3, <1>4, <1>5 DEF CorrectStakes
  <2>2. IsFiniteSet(R)
    BY <1>5, RoundsFinite
  <2>3. Total(CorrectStakes(e, u), R) = 0
    BY <2>1, <2>2, TotalZero
  <2>4. UserCorrectStake(e, u) = 0
    BY <1>1, <1>5, <2>3, UserCorrectStakeTotal
  <2>5. QED
    BY <1>1, <1>5, <2>4, PayoutType
<1>8. \A x \in Stakers \ {u} :
        StakePayout(e, x) = StakePayout(dr, x) /\ PaymentPayout(e, x) = PaymentPayout(dr, x)
  <2> TAKE x \in Stakers \ {u}
  <2>1. \A r \in R : UserStake(e.resolution_windows[r], x, o)
                       = UserStake(dr.resolution_windows[r], x, o)
    BY <1>4, <1>5
  <2>2. QED
    BY <1>1, <2>1, SamePayout
<1>9. StakeOwed(e) = StakeOwed(dr) - StakePayout(dr, u)
  <2> DEFINE f == StakePayouts(dr)
             g == StakePayouts(e)
  <2>1. /\ Summable(f, Stakers)
        /\ Total(f, Stakers) \in Nat
        /\ StakeOwed(dr) = OpenStake(dr) + Total(f, Stakers)
        /\ StakeOwed(e) = OpenStake(dr) + Total(g, Stakers)
    BY <1>1, <1>5, <1>6, FinalOwed
  <2>2. /\ f[u] = StakePayout(dr, u) /\ g[u] = 0
        /\ \A x \in Stakers \ {u} : g[x] = f[x]
    BY <1>7, <1>8 DEF StakePayouts
  <2>3. StakePayout(dr, u) \in Nat /\ OpenStake(dr) \in Nat
    BY PayoutType, OpenStakeTotal
  <2> HIDE DEF f, g
  <2>4. Summable(f, Stakers) /\ g[u] \in Int
    BY <2>1, <2>2
  <2>5. Total(g, Stakers) = Total(f, Stakers) + g[u] - f[u]
    BY <2>2, <2>4, TotalChanged
  <2>6. QED
    BY <2>1, <2>2, <2>3, <2>5
<1>10. PaymentOwed(e) = PaymentOwed(dr) - PaymentPayout(dr, u)
  <2> DEFINE f == PaymentPayouts(dr)
             g == PaymentPayouts(e)
  <2>1. /\ Summable(f, Stakers)
        /\ Total(f, Stakers) \in Nat
        /\ PaymentOwed(dr) = Total(f, Stakers)
        /\ PaymentOwed(e) = Total(g, Stakers)
    BY <1>1, <1>5, FinalOwed
  <2>2. /\ f[u] = PaymentPayout(dr, u) /\ g[u] = 0
        /\ \A x \in Stakers \ {u} : g[x] = f[x]
    BY <1>7, <1>8 DEF PaymentPayouts
  <2>3. PaymentPayout(dr, u) \in Nat
    BY PayoutType
  <2> HIDE DEF f, g
  <2>4. Summable(f, Stakers) /\ g[u] \in Int
    BY <2>1, <2>2
  <2>5. Total(g, Stakers) = Total(f, Stakers) + g[u] - f[u]
    BY <2>2, <2>4, TotalChanged
  <2>6. QED
    BY <2>1, <2>2, <2>3, <2>5
<1>11. QED
  BY <1>1, <1>9, <1>10, SameLeftBehind DEF e

\* What every staker has behind the final outcome, and its share of a pot.
CorrectParts(dr) == [u \in Stakers |-> UserCorrectStake(dr, u)]
ProfitShares(dr, pot) == [u \in Stakers |-> ProfitShare(dr, u, pot)]

\* Before anything is claimed, the stakers together have the bonds that won.
LEMMA PartsMakeBonds ==
  ASSUME NEW dr \in Request, ~IsActive(dr), BondedIffFull(dr), AllAgree(dr)
  PROVE  /\ Summable(CorrectParts(dr), Stakers)
         /\ Total(CorrectParts(dr), Stakers) = TotalBonds(dr, CorrectRounds(dr))
<1> DEFINE D == DOMAIN dr.resolution_windows
           C == CorrectRounds(dr)
           o == dr.finalized_outcome
           m == [r \in C |-> StakesOn(dr.resolution_windows[r], o)]
           rows == [r \in C |-> Total(m[r], Stakers)]
           cols == [u \in Stakers |-> Total([r \in C |-> m[r][u]], C)]
<1>1. C \in SUBSET D /\ IsFiniteSet(C) /\ IsFiniteSet(Stakers) /\ o \in Outcomes
  BY RoundsByVerdict, RoundsFinite, FiniteAssumption DEF IsActive, Request
<1>2. \A r \in D : /\ dr.resolution_windows[r] \in Window
                   /\ FilledToBond(dr.resolution_windows[r])
                   /\ StakesAgree(dr.resolution_windows[r])
  BY RequestFields DEF BondedIffFull, AllAgree
<1>3. \A r \in C, u \in Stakers :
        /\ m[r][u] = UserStake(dr.resolution_windows[r], u, o)
        /\ m[r][u] \in Int
  <2>1. \A r \in C, u \in Stakers : UserStake(dr.resolution_windows[r], u, o) \in Nat
    BY <1>1, <1>2, StakeOfAllType
  <2>2. QED
    BY <2>1 DEF StakesOn
<1>4. \A r \in C : rows[r] = Bonds(dr)[r]
  <2> TAKE r \in C
  <2>1. rows[r] = StakeOfAll(dr.resolution_windows[r], o)
    BY StakeOfAllTotal
  <2>2. dr.resolution_windows[r].bonded_outcome = o /\ IsBonded(dr.resolution_windows[r])
    BY <1>1 DEF CorrectRounds, IsCorrect, IsBonded, IsActive
  <2>3. StakeOfAll(dr.resolution_windows[r], o) = dr.resolution_windows[r].bond_size
    BY <1>1, <1>2, <2>2 DEF FilledToBond, StakesAgree
  <2>4. QED
    BY <1>1, <2>1, <2>3 DEF Bonds
<1>5. \A u \in Stakers : cols[u] = CorrectParts(dr)[u]
  <2> TAKE u \in Stakers
  <2> DEFINE f == [r \in C |-> m[r][u]]
             g == CorrectStakes(dr, u)
  <2>1. Summable(g, C) /\ UserCorrectStake(dr, u) = Total(g, C)
    BY UserCorrectStakeTotal
  <2>2. \A r \in C : f[r] = g[r]
    BY <1>1, <1>3 DEF CorrectStakes
  <2>3. cols[u] = Total(f, C) /\ CorrectParts(dr)[u] = UserCorrectStake(dr, u)
    BY DEF CorrectParts
  <2> HIDE DEF f, g, C, cols
  <2>4. Total(f, C) = Total(g, C)
    BY <2>1, <2>2, TotalSame
  <2>5. QED
    BY <2>1, <2>3, <2>4
<1>6. Total(rows, C) = Total(cols, Stakers)
  <2>1. \A r \in C, u \in Stakers : m[r][u] \in Int
    BY <1>3
  <2> HIDE DEF m, C
  <2>2. QED
    BY <1>1, <2>1, TotalSwapped
<1>7. Summable(Bonds(dr), C) /\ TotalBonds(dr, C) = Total(Bonds(dr), C)
  BY <1>1, TotalBondsTotal
<1>8. \A u \in Stakers : CorrectParts(dr)[u] \in Nat
  BY UserCorrectStakeTotal DEF CorrectParts
<1>9. Summable(CorrectParts(dr), Stakers)
  BY <1>1, <1>8 DEF Summable
<1> HIDE DEF rows, cols, C
<1>10. Total(rows, C) = Total(Bonds(dr), C)
  BY <1>4, <1>7, TotalSame
<1>11. Total(cols, Stakers) = Total(CorrectParts(dr), Stakers)
  BY <1>5, <1>9, TotalSame
<1>12. QED
  BY <1>6, <1>7, <1>9, <1>10, <1>11 DEF C

\* The rounded shares of a pot never add up to more than the pot, and to less
\* by no more than one unit for each staker but one.
LEMMA SharesOfPot ==
  ASSUME NEW dr \in Request, ~IsActive(dr), BondedIffFull(dr), AllAgree(dr), NEW pot \in Nat
  PROVE  LET c   == TotalBonds(dr, CorrectRounds(dr))
             all == Total(ProfitShares(dr, pot), Stakers)
         IN  /\ Summable(ProfitShares(dr, pot), Stakers)
             /\ all \in Nat
             /\ all <= pot
             /\ c = 0 => all = 0
             /\ c # 0 => pot - all <= Cardinality(Stakers) - 1
<1> DEFINE c     == TotalBonds(dr, CorrectRounds(dr))
           part  == CorrectParts(dr)
           share == ProfitShares(dr, pot)
<1>1. c \in Nat
  BY RoundsByVerdict, TotalBondsTotal
<1>2. Total(part, Stakers) = c
  BY PartsMakeBonds
<1>3. \A u \in Stakers : part[u] \in Nat /\ part[u] = UserCorrectStake(dr, u)
  BY UserCorrectStakeTotal DEF CorrectParts
<1>4. \A u \in Stakers : share[u] \in Nat /\ share[u] = ProfitShare(dr, u, pot)
  BY ProfitShareType DEF ProfitShares
<1>5. Summable(share, Stakers) /\ IsFiniteSet(Stakers)
  BY <1>4, FiniteAssumption DEF Summable
<1>6. CASE c = 0
  <2>1. \A u \in Stakers : share[u] = 0
    BY <1>4, <1>6 DEF ProfitShare
  <2> HIDE DEF share
  <2>2. Total(share, Stakers) = 0
    BY <1>5, <2>1, TotalZero
  <2>3. QED
    BY <1>5, <1>6, <2>2 DEF share
<1>7. CASE c # 0
  <2>1. \A u \in Stakers : share[u] = (part[u] * pot) \div c
    BY <1>3, <1>4, <1>7 DEF ProfitShare, CalcProduct
  <2>2. AreShares(share, part, Stakers, pot, c)
    BY <1>3, <2>1 DEF AreShares
  <2> HIDE DEF share, part, c
  <2>3. c > 0
    BY <1>1, <1>7
  <2>4. /\ Total(share, Stakers) \in Nat
        /\ Total(share, Stakers) <= pot
        /\ pot - Total(share, Stakers) <= Cardinality(Stakers) - 1
    BY <1>1, <1>2, <1>5, <2>2, <2>3, TotalShares
  <2>5. QED
    BY <1>5, <1>7, <2>4 DEF share, c
<1>8. QED
  BY <1>6, <1>7

\* A verdict turns the bonds and the fee into claims that never add up to more,
\* and to less by what is listed as left behind only (trim_dr, claim_for).
LEMMA FinalizedOwes ==
  ASSUME NEW dr \in Request, NEW o \in Outcomes, Ladder(dr), IsActive(dr), AllAgree(dr)
  PROVE  LET e   == Finalized(dr, o)
             fee == dr.request_config.paid_fee
         IN  /\ StakeOwed(e) <= StakeOwed(dr)
             /\ StakeOwed(dr) <= StakeOwed(e) + StakeLeftBehind(e)
             /\ PaymentOwed(e) <= fee
             /\ fee + (IF o = Invalid \/ dr.provider # NoProvider
                         THEN dr.request_config.validity_bond ELSE 0)
                  <= PaymentOwed(e) + PaymentLeftBehind(e)
<1> DEFINE e    == Finalized(dr, o)
           fee  == dr.request_config.paid_fee
           bond == IF o = Invalid \/ dr.provider # NoProvider
                     THEN dr.request_config.validity_bond ELSE 0
           C    == CorrectRounds(e)
           I    == IncorrectRounds(e)
           B    == BondedRounds(dr)
           c    == TotalBonds(e, C)
           i    == TotalBonds(e, I)
           D    == DOMAIN dr.resolution_windows
           n    == Cardinality(Stakers)
<1>1. /\ e \in Request
      /\ Ladder(e)
      /\ SameTerms(e, dr)
      /\ SameWindows(e, dr)
      /\ e.finalized_outcome = o
  BY FinalizedLadder
<1>2. e.resolution_windows = dr.resolution_windows /\ ~IsActive(e)
  BY <1>1, WindowAssumption DEF Finalized, Request, IsActive
<1>3. BondedIffFull(e) /\ AllAgree(e)
  BY <1>1, <1>2 DEF Ladder, AllAgree
<1> HIDE DEF e
<1>4. OpenStake(e) = OpenStake(dr) /\ OpenStake(dr) \in Nat
  <2>1. OpenStakes(e) = OpenStakes(dr)
    BY <1>2 DEF OpenStakes
  <2>2. QED
    BY <1>1, <1>2, <2>1, OpenStakeTotal
<1>5. /\ C \in SUBSET D /\ B \in SUBSET D /\ I = B \ C /\ C \subseteq B
      /\ BondedRounds(e) = B
      /\ TotalBonds(e, B) = TotalBonds(dr, B)
  BY <1>1, <1>2, RoundsByVerdict, SameRounds
<1>6. fee \in Nat /\ bond \in Nat /\ n \in Nat /\ c \in Nat /\ i \in Nat
  <2>1. c \in Nat /\ i \in Nat
    BY <1>1, <1>2, RoundsByVerdict, TotalBondsTotal
  <2>2. n \in Nat
    BY FiniteAssumption, FS_CardinalityType
  <2>3. QED
    BY <2>1, <2>2 DEF Request, RequestConfig
<1>7. TotalBonds(dr, B) = c + i
  <2> DEFINE f == Bonds(e)
  <2>1. /\ Summable(f, B) /\ TotalBonds(e, B) = Total(f, B)
        /\ c = Total(f, C) /\ i = Total(f, I)
    BY <1>1, <1>2, <1>5, TotalBondsTotal
  <2>2. C \in SUBSET B /\ I = B \ C
    BY <1>5
  <2> HIDE DEF f, B, C, I, c, i
  <2>3. Total(f, B) = Total(f, C) + Total(f, B \ C)
    BY <2>1, <2>2, TotalSplit
  <2>4. QED
    BY <1>5, <2>1, <2>2, <2>3
<1>8. StakeOwed(dr) = OpenStake(dr) + c + i
  BY <1>4, <1>6, <1>7 DEF StakeOwed
<1>9. Total(StakePayouts(e), Stakers) = c + Total(ProfitShares(e, i), Stakers)
  <2> DEFINE f == CorrectParts(e)
             g == ProfitShares(e, i)
             h == StakePayouts(e)
  <2>1. Summable(f, Stakers) /\ Total(f, Stakers) = c
    BY <1>1, <1>2, <1>3, PartsMakeBonds
  <2>2. Summable(g, Stakers)
    BY <1>1, <1>2, <1>3, <1>6, SharesOfPot
  <2>3. \A u \in Stakers : h[u] = f[u] + g[u]
    BY DEF StakePayouts, StakePayout, CorrectParts, ProfitShares
  <2> HIDE DEF f, g, h
  <2>4. Total(h, Stakers) = Total(f, Stakers) + Total(g, Stakers)
    BY <2>1, <2>2, <2>3, TotalPlus
  <2>5. QED
    BY <2>1, <2>4 DEF g, h
<1>10. Total(PaymentPayouts(e), Stakers) = Total(ProfitShares(e, fee), Stakers)
  <2>1. PaymentPayouts(e) = ProfitShares(e, fee)
    BY <1>1 DEF PaymentPayouts, ProfitShares, PaymentPayout, SameTerms
  <2>2. QED
    BY <2>1
<1>11. /\ StakeOwed(e) = OpenStake(dr) + (c + Total(ProfitShares(e, i), Stakers))
       /\ PaymentOwed(e) = Total(ProfitShares(e, fee), Stakers)
  BY <1>1, <1>2, <1>4, <1>9, <1>10, FinalOwed
<1>12. /\ StakeLeftBehind(e) = IF c = 0 THEN c + i ELSE n - 1
       /\ PaymentLeftBehind(e) = (IF c = 0 THEN fee ELSE n - 1) + bond
  BY <1>1, <1>2, <1>5, <1>7 DEF StakeLeftBehind, PaymentLeftBehind, SameTerms
<1> DEFINE profit  == Total(ProfitShares(e, i), Stakers)
           payment == Total(ProfitShares(e, fee), Stakers)
<1>13. /\ profit \in Nat /\ profit <= i
       /\ c = 0 => profit = 0
       /\ c # 0 => i - profit <= n - 1
  BY <1>1, <1>2, <1>3, <1>6, SharesOfPot
<1>14. /\ payment \in Nat /\ payment <= fee
       /\ c = 0 => payment = 0
       /\ c # 0 => fee - payment <= n - 1
  BY <1>1, <1>2, <1>3, <1>6, SharesOfPot
<1> HIDE DEF fee, bond, c, i, n, profit, payment
<1>15. /\ StakeOwed(e) <= StakeOwed(dr)
       /\ StakeOwed(dr) <= StakeOwed(e) + StakeLeftBehind(e)
  BY <1>4, <1>6, <1>8, <1>11, <1>12, <1>13 DEF profit
<1>16. /\ PaymentOwed(e) <= fee
       /\ fee + bond <= PaymentOwed(e) + PaymentLeftBehind(e)
  BY <1>6, <1>11, <1>12, <1>14 DEF payment
<1>17. QED
  BY <1>15, <1>16 DEF e, fee, bond

\* What stays behind is a whole number, and nothing before the verdict.
LEMMA LeftBehindType ==
  ASSUME NEW dr \in Request
  PROVE  /\ StakeLeftBehind(dr) \in Int
         /\ PaymentLeftBehind(dr) \in Int
         /\ IsActive(dr) => StakeLeftBehind(dr) = 0 /\ PaymentLeftBehind(dr) = 0
<1>1. BondedRounds(dr) \in SUBSET DOMAIN dr.resolution_windows
  BY DEF BondedRounds
<1>2. TotalBonds(dr, BondedRounds(dr)) \in Nat
  BY <1>1, TotalBondsTotal
<1>3. Cardinality(Stakers) \in Nat
  BY FiniteAssumption, FS_CardinalityType
<1>4. dr.request_config.paid_fee \in Nat /\ dr.request_config.validity_bond \in Nat
  BY DEF Request, RequestConfig
<1>5. QED
  BY <1>2, <1>3, <1>4 DEF StakeLeftBehind, PaymentLeftBehind

\* A new request holds no stake; it owes what was paid for it.
LEMMA NewRequestOwes ==
  ASSUME NEW dr \in Request, IsActive(dr), dr.resolution_windows = << >>
  PROVE  /\ AllAgree(dr)
         /\ StakeOwed(dr) = 0
         /\ PaymentOwed(dr) = dr.request_config.paid_fee + dr.request_config.validity_bond
<1>1. DOMAIN << >> = {}
  OBVIOUS
<1>2. AllAgree(dr)
  BY <1>1 DEF AllAgree
<1>3. StakeOwed(dr) = 0
  BY ActiveStakeOwed, HeldByNone
<1>4. QED
  BY <1>2, <1>3 DEF PaymentOwed

---------------------------------------------------------------------------
(***************************************************************************)
(* The contract                                                            *)
(***************************************************************************)

(***************************************************************************)
(* The inductive invariant.  The ladder is what makes it inductive: only   *)
(* because the window a stake goes to is open and not overfull is what the *)
(* stake leaves unspent a balance, and only because a window below the top *)
(* one is bonded is what dr_finalize reports an outcome.                   *)
(***************************************************************************)
Inv == TypeOK /\ DisputeLadder /\ AnsweredOnce

---------------------------------------------------------------------------
(***************************************************************************)
(* Lemmas                                                                  *)
(***************************************************************************)

(***************************************************************************)
(* A payout leaves balances that are not negative.                         *)
(***************************************************************************)
LEMMA PaidType ==
  ASSUME NEW bal \in [Tokens -> Nat], NEW token \in Tokens, NEW amount \in Nat,
         NEW succeeds \in BOOLEAN
  PROVE  Paid(bal, token, amount, succeeds) \in [Tokens -> Nat]
<1>1. bal[token] \in Nat
  OBVIOUS
<1>2. amount <= bal[token] => bal[token] - amount \in Nat
  BY <1>1
<1>3. QED
  BY <1>2 DEF Paid

(***************************************************************************)
(* The current configuration and that of a request.                        *)
(***************************************************************************)
LEMMA ConfigTypes ==
  ASSUME TypeOK
  PROVE  /\ Len(configs) \in DOMAIN configs
         /\ CurrentConfig \in OracleConfig
         /\ \A id \in DOMAIN data_requests :
              /\ data_requests[id] \in Request
              /\ ConfigOf(data_requests[id]) \in OracleConfig
<1>1. Len(configs) \in DOMAIN configs
  BY DEF TypeOK
<1>2. CurrentConfig \in OracleConfig
  BY <1>1 DEF TypeOK, CurrentConfig
<1>3. \A id \in DOMAIN data_requests : data_requests[id] \in Request
  BY DEF TypeOK
<1>4. \A id \in DOMAIN data_requests : ConfigOf(data_requests[id]) \in OracleConfig
  BY DEF TypeOK, ConfigOf
<1>5. QED
  BY <1>1, <1>2, <1>3, <1>4

(***************************************************************************)
(* ActiveDataRequest::new returns a request without windows.               *)
(***************************************************************************)
LEMMA NewRequestLadder ==
  ASSUME NEW requester \in Accounts, NEW multiplier \in OptionalMultiplier,
         NEW config_id \in Nat, NEW config \in OracleConfig, NEW paid_fee \in Nat,
         NEW payload \in Payload
  PROVE  LET dr == NewRequest(requester, multiplier, config_id, config, paid_fee, payload)
         IN  dr \in Request /\ Ladder(dr) /\ IsActive(dr) /\ dr.global_config_id = config_id
<1> DEFINE dr == NewRequest(requester, multiplier, config_id, config, paid_fee, payload)
           c  == [ default_challenge_window_duration |-> config.default_challenge_window_duration,
                   final_arbitrator_invoke_amount    |-> config.final_arbitrator_invoke_amount,
                   final_arbitrator                  |-> config.final_arbitrator,
                   validity_bond                     |-> config.validity_bond,
                   stake_multiplier                  |-> multiplier,
                   paid_fee                          |-> paid_fee,
                   min_resolution_bond               |-> config.min_resolution_bond ]
<1>1. c \in RequestConfig
  BY DEF OracleConfig, RequestConfig
<1>2. /\ payload.provider \in Accounts \union {NoProvider}
      /\ payload.outcomes \in SUBSET Outcomes
      /\ payload.data_type \in SUBSET Outcomes
      /\ payload.challenge_period \in Nat
  BY DEF Payload
<1>3. dr = [ requester                  |-> requester,
             provider                   |-> payload.provider,
             outcomes                   |-> payload.outcomes,
             data_type                  |-> payload.data_type,
             global_config_id           |-> config_id,
             request_config             |-> c,
             initial_challenge_period   |-> payload.challenge_period,
             final_arbitrator_triggered |-> FALSE,
             resolution_windows         |-> << >>,
             finalized_outcome          |-> NoOutcome ]
  BY DEF NewRequest
<1> HIDE DEF c, dr
<1>4. << >> \in Seq(Window)
  OBVIOUS
<1>5. dr \in Request
  BY <1>1, <1>2, <1>3, <1>4 DEF Request
<1>6. /\ dr.resolution_windows = << >>
      /\ dr.final_arbitrator_triggered = FALSE
      /\ dr.finalized_outcome = NoOutcome
      /\ dr.global_config_id = config_id
  BY <1>3
<1>7. Ladder(dr)
  BY <1>6 DEF Ladder, BondedIffFull, OnlyLastOpen, ChallengesEscalate, ArbitratorEndsLadder, Rounds
<1>8. QED
  BY <1>5, <1>6, <1>7 DEF IsActive, dr

(***************************************************************************)
(* A step that puts a well-formed request of the same terms in the place of*)
(* one, and keeps what was answered in line with it, keeps the invariant.  *)
(***************************************************************************)
LEMMA RequestReplaced ==
  ASSUME Inv, NEW id \in DOMAIN data_requests, NEW e \in Request,
         Ladder(e), SameTerms(e, data_requests[id]),
         data_requests' = [data_requests EXCEPT ![id] = e],
         answers' \in Seq(Seq(Outcomes)),
         answers' = [answers EXCEPT ![id] = IF IsActive(e) THEN << >> ELSE << e.finalized_outcome >>],
         balance' \in [Tokens -> Nat],
         UNCHANGED << whitelist, configs, paused, now >>
  PROVE  Inv' /\ TermsKept
<1>1. /\ data_requests \in Seq(Request)
      /\ answers \in Seq(Seq(Outcomes))
      /\ Len(answers) = Len(data_requests)
      /\ DOMAIN data_requests = 1 .. Len(data_requests)
      /\ DOMAIN answers = 1 .. Len(data_requests)
  BY DEF Inv, TypeOK
<1>2. /\ data_requests' \in Seq(Request)
      /\ Len(data_requests') = Len(data_requests)
      /\ DOMAIN data_requests' = DOMAIN data_requests
      /\ data_requests'[id] = e
      /\ \A i \in DOMAIN data_requests : i # id => data_requests'[i] = data_requests[i]
  BY <1>1
<1>3. /\ Len(answers') = Len(answers)
      /\ answers'[id] = IF IsActive(e) THEN << >> ELSE << e.finalized_outcome >>
      /\ \A i \in DOMAIN data_requests : i # id => answers'[i] = answers[i]
  BY <1>1
<1>4. TypeOK'
  <2>1. \A i \in DOMAIN data_requests' : data_requests'[i].global_config_id \in DOMAIN configs'
    BY <1>2 DEF Inv, TypeOK, SameTerms
  <2>2. QED
    BY <1>1, <1>2, <1>3, <2>1 DEF Inv, TypeOK
<1>5. DisputeLadder'
  BY <1>2 DEF Inv, DisputeLadder
<1>6. AnsweredOnce'
  BY <1>2, <1>3 DEF Inv, AnsweredOnce, IsActive
<1>7. TermsKept
  BY <1>2 DEF TermsKept, SameTerms, ConfigOf
<1>8. QED
  BY <1>4, <1>5, <1>6, <1>7 DEF Inv

(***************************************************************************)
(* What Inv says of one request.                                           *)
(***************************************************************************)
LEMMA RequestFacts ==
  ASSUME Inv, NEW id \in DOMAIN data_requests
  PROVE  LET dr == data_requests[id]
         IN  /\ dr \in Request
             /\ Ladder(dr)
             /\ ConfigOf(dr).stake_token \in Tokens
             /\ ConfigOf(dr).payment_token \in Tokens
             /\ dr.request_config.validity_bond \in Nat
             /\ answers \in Seq(Seq(Outcomes))
             /\ DOMAIN answers = DOMAIN data_requests
             /\ answers[id] = IF IsActive(dr) THEN << >> ELSE << dr.finalized_outcome >>
             /\ answers = [answers EXCEPT ![id] =
                             IF IsActive(dr) THEN << >> ELSE << dr.finalized_outcome >>]
             /\ balance \in [Tokens -> Nat]
             /\ now \in Nat
<1> DEFINE dr == data_requests[id]
<1>1. dr \in Request /\ ConfigOf(dr) \in OracleConfig
  BY ConfigTypes DEF Inv
<1>2. dr.request_config \in RequestConfig
  BY <1>1 DEF Request
<1>3. Ladder(dr)
  BY DEF Inv, DisputeLadder
<1>4. /\ answers \in Seq(Seq(Outcomes))
      /\ DOMAIN answers = DOMAIN data_requests
      /\ balance \in [Tokens -> Nat]
      /\ now \in Nat
  BY DEF Inv, TypeOK
<1>5. answers[id] = IF IsActive(dr) THEN << >> ELSE << dr.finalized_outcome >>
  BY DEF Inv, AnsweredOnce
<1>6. answers = [answers EXCEPT ![id] = answers[id]]
  BY <1>4
<1>7. QED
  BY <1>1, <1>2, <1>3, <1>4, <1>5, <1>6 DEF OracleConfig, RequestConfig

(***************************************************************************)
(* A verdict for a listed outcome on an active request is told once.       *)
(***************************************************************************)
LEMMA DecideKeepsInv ==
  ASSUME Inv, NEW id \in DOMAIN data_requests, NEW outcome \in Outcomes,
         Decide(id, outcome), balance' \in [Tokens -> Nat],
         UNCHANGED << whitelist, configs, paused, now >>
  PROVE  Inv' /\ TermsKept
<1> DEFINE dr == data_requests[id]
           e  == Finalized(dr, outcome)
<1>1. dr \in Request /\ Ladder(dr) /\ IsActive(dr)
  BY RequestFacts DEF Decide
<1>2. /\ answers \in Seq(Seq(Outcomes))
      /\ DOMAIN answers = DOMAIN data_requests
      /\ answers[id] = << >>
  BY <1>1, RequestFacts
<1>3. e \in Request /\ Ladder(e) /\ SameTerms(e, dr) /\ e.finalized_outcome = outcome
  BY <1>1, FinalizedLadder
<1>4. ~IsActive(e)
  BY <1>3, WindowAssumption DEF IsActive
<1>5. data_requests' = [data_requests EXCEPT ![id] = e]
  BY DEF Decide
<1> HIDE DEF e
<1>6. Append(<< >>, outcome) = << outcome >> /\ << outcome >> \in Seq(Outcomes)
  OBVIOUS
<1>7. answers' = [answers EXCEPT ![id] = << outcome >>]
  BY <1>2, <1>6 DEF Decide
<1>8. answers' \in Seq(Seq(Outcomes))
  BY <1>2, <1>6, <1>7
<1>9. answers' = [answers EXCEPT ![id] =
                    IF IsActive(e) THEN << >> ELSE << e.finalized_outcome >>]
  BY <1>3, <1>4, <1>7
<1>10. QED
  BY <1>3, <1>5, <1>8, <1>9, RequestReplaced

---------------------------------------------------------------------------
(***************************************************************************)
(* Each handler keeps the invariant                                        *)
(***************************************************************************)

(***************************************************************************)
(* dr_new appends a request without windows.                               *)
(***************************************************************************)
LEMMA DrNewKeepsInv ==
  ASSUME Inv, NEW token \in Tokens, NEW sender \in Requesters, NEW amount \in Payments,
         NEW payload \in Payloads, DrNew(token, sender, amount, payload)
  PROVE  Inv' /\ TermsKept
<1> DEFINE fee == amount - CurrentConfig.validity_bond
           dr  == NewRequest(sender, StakeMultiplier(sender), Len(configs), CurrentConfig,
                             fee, payload)
           n   == Len(data_requests)
<1>1. /\ sender \in Accounts
      /\ amount \in Nat
      /\ payload \in Payload
  BY OracleAssumption
<1>2. CurrentConfig \in OracleConfig /\ Len(configs) \in DOMAIN configs /\ Len(configs) \in Nat
  BY ConfigTypes DEF Inv, TypeOK
<1>3. fee \in Nat
  <2>1. CurrentConfig.validity_bond \in Nat
    BY <1>2 DEF OracleConfig
  <2>2. QED
    BY <1>1, <2>1 DEF DrNew
<1>4. StakeMultiplier(sender) \in OptionalMultiplier
  <2>1. CASE whitelist = NoWhitelist
    BY <2>1 DEF StakeMultiplier, OptionalMultiplier
  <2>2. CASE whitelist # NoWhitelist
    <3>1. PICK S \in SUBSET Requesters : whitelist \in [S -> OptionalMultiplier]
      BY <2>2 DEF Inv, TypeOK, IsWhitelist
    <3>2. sender \in S
      BY <2>2, <3>1 DEF DrNew, IsWhitelisted
    <3>3. QED
      BY <2>2, <3>1, <3>2 DEF StakeMultiplier
  <2>3. QED
    BY <2>1, <2>2
<1>5. dr \in Request /\ Ladder(dr) /\ IsActive(dr) /\ dr.global_config_id = Len(configs)
  BY <1>1, <1>2, <1>3, <1>4, NewRequestLadder
<1>6. /\ data_requests' = Append(data_requests, dr)
      /\ answers' = Append(answers, << >>)
      /\ balance' = [balance EXCEPT ![token] = @ + amount]
      /\ UNCHANGED << whitelist, configs, paused, now >>
  BY DEF DrNew
<1> HIDE DEF dr, fee
<1>7. /\ data_requests \in Seq(Request)
      /\ answers \in Seq(Seq(Outcomes))
      /\ Len(answers) = n
      /\ n \in Nat
      /\ balance \in [Tokens -> Nat]
  BY DEF Inv, TypeOK
<1>8. << >> \in Seq(Outcomes)
  OBVIOUS
<1>9. /\ data_requests' \in Seq(Request)
      /\ Len(data_requests') = n + 1
      /\ DOMAIN data_requests' = 1 .. (n + 1)
      /\ data_requests'[n + 1] = dr
      /\ \A i \in 1 .. n : data_requests'[i] = data_requests[i]
  BY <1>5, <1>6, <1>7
<1>10. /\ answers' \in Seq(Seq(Outcomes))
       /\ Len(answers') = n + 1
       /\ answers'[n + 1] = << >>
       /\ \A i \in 1 .. n : answers'[i] = answers[i]
  BY <1>6, <1>7, <1>8
<1>11. DOMAIN data_requests = 1 .. n /\ \A i \in 1 .. (n + 1) : i = n + 1 \/ i \in 1 .. n
  BY <1>7
<1>12. balance' \in [Tokens -> Nat]
  BY <1>1, <1>6, <1>7
<1> HIDE DEF n
<1>13. TypeOK'
  <2>1. \A i \in DOMAIN data_requests' : data_requests'[i].global_config_id \in DOMAIN configs'
    BY <1>2, <1>5, <1>6, <1>9, <1>11 DEF Inv, TypeOK
  <2>2. QED
    BY <1>6, <1>9, <1>10, <1>12, <2>1 DEF Inv, TypeOK
<1>14. DisputeLadder'
  BY <1>5, <1>9, <1>11 DEF Inv, DisputeLadder
<1>15. AnsweredOnce'
  BY <1>5, <1>9, <1>10, <1>11 DEF Inv, AnsweredOnce
<1>16. TermsKept
  BY <1>6, <1>9, <1>11 DEF TermsKept, ConfigOf
<1>17. QED
  BY <1>13, <1>14, <1>15, <1>16 DEF Inv

(***************************************************************************)
(* dr_stake stakes in an open window of an active request.                 *)
(***************************************************************************)
LEMMA DrStakeKeepsInv ==
  ASSUME Inv, NEW token \in Tokens, NEW sender \in Stakers, NEW amount \in StakeAmounts,
         NEW id \in DOMAIN data_requests, NEW outcome \in Outcomes,
         DrStake(token, sender, amount, id, outcome)
  PROVE  Inv' /\ TermsKept
<1> DEFINE dr == data_requests[id]
           e  == Staked(dr, sender, outcome, amount, now)
<1>1. amount \in Nat
  BY OracleAssumption
<1>2. /\ IsActive(dr)
      /\ ~dr.final_arbitrator_triggered
      /\ CanStakeOnOutcome(dr, outcome)
      /\ data_requests' = [data_requests EXCEPT ![id] = e]
      /\ balance' = [balance EXCEPT ![token] = @ + amount - Unspent(dr, outcome, amount, now)]
      /\ UNCHANGED << whitelist, configs, paused, answers, now >>
  BY DEF DrStake
<1>3. /\ dr \in Request
      /\ Ladder(dr)
      /\ answers \in Seq(Seq(Outcomes))
      /\ answers = [answers EXCEPT ![id] =
                      IF IsActive(dr) THEN << >> ELSE << dr.finalized_outcome >>]
      /\ balance \in [Tokens -> Nat]
      /\ now \in Nat
  BY RequestFacts
<1>4. /\ e \in Request
      /\ Ladder(e)
      /\ SameTerms(e, dr)
      /\ e.finalized_outcome = dr.finalized_outcome
  BY <1>1, <1>2, <1>3, StakedLadder
<1>5. Unspent(dr, outcome, amount, now) \in 0 .. amount
  BY <1>1, <1>2, <1>3, UnspentBounds
<1> HIDE DEF e
<1>6. balance' \in [Tokens -> Nat]
  <2>1. balance[token] + amount - Unspent(dr, outcome, amount, now) \in Nat
    BY <1>1, <1>3, <1>5
  <2>2. QED
    BY <1>2, <1>3, <2>1
<1>7. answers' = [answers EXCEPT ![id] =
                    IF IsActive(e) THEN << >> ELSE << e.finalized_outcome >>]
  BY <1>2, <1>3, <1>4 DEF IsActive
<1>8. QED
  BY <1>2, <1>3, <1>4, <1>6, <1>7, RequestReplaced

(***************************************************************************)
(* dr_unstake takes back stake that is not behind a bonded outcome.        *)
(***************************************************************************)
LEMMA DrUnstakeKeepsInv ==
  ASSUME Inv, NEW sender \in Stakers, NEW id \in DOMAIN data_requests,
         NEW round \in DOMAIN data_requests[id].resolution_windows,
         NEW outcome \in Outcomes, NEW amount \in StakeAmounts, NEW succeeds \in TransferResults,
         DrUnstake(sender, id, round, outcome, amount, succeeds)
  PROVE  Inv' /\ TermsKept
<1> DEFINE dr == data_requests[id]
           e  == Unstaked(dr, sender, round, outcome, amount)
<1>1. amount \in Nat /\ succeeds \in BOOLEAN
  BY OracleAssumption
<1>2. /\ CanUnstake(dr.resolution_windows[round], sender, outcome, amount)
      /\ data_requests' = [data_requests EXCEPT ![id] = e]
      /\ balance' = Paid(balance, ConfigOf(dr).stake_token, amount, succeeds)
      /\ UNCHANGED << whitelist, configs, paused, answers, now >>
  BY DEF DrUnstake
<1>3. /\ dr \in Request
      /\ Ladder(dr)
      /\ answers \in Seq(Seq(Outcomes))
      /\ answers = [answers EXCEPT ![id] =
                      IF IsActive(dr) THEN << >> ELSE << dr.finalized_outcome >>]
      /\ ConfigOf(dr).stake_token \in Tokens
      /\ balance \in [Tokens -> Nat]
  BY RequestFacts
<1>4. /\ e \in Request
      /\ Ladder(e)
      /\ SameTerms(e, dr)
      /\ e.finalized_outcome = dr.finalized_outcome
  BY <1>1, <1>2, <1>3, UnstakedLadder
<1> HIDE DEF e
<1>5. balance' \in [Tokens -> Nat]
  BY <1>1, <1>2, <1>3, PaidType
<1>6. answers' = [answers EXCEPT ![id] =
                    IF IsActive(e) THEN << >> ELSE << e.finalized_outcome >>]
  BY <1>2, <1>3, <1>4 DEF IsActive
<1>7. QED
  BY <1>2, <1>3, <1>4, <1>5, <1>6, RequestReplaced

(***************************************************************************)
(* dr_claim touches what the claimer has staked on the final outcome.      *)
(***************************************************************************)
LEMMA DrClaimKeepsInv ==
  ASSUME Inv, NEW account \in Stakers, NEW id \in DOMAIN data_requests,
         NEW stake_succeeds \in TransferResults, NEW payment_succeeds \in TransferResults,
         DrClaim(account, id, stake_succeeds, payment_succeeds)
  PROVE  Inv' /\ TermsKept
<1> DEFINE dr      == data_requests[id]
           e       == Claimed(dr, account)
           stake   == StakePayout(dr, account)
           payment == PaymentPayout(dr, account)
           between == Paid(balance, ConfigOf(dr).stake_token, stake, stake_succeeds)
<1>1. stake_succeeds \in BOOLEAN /\ payment_succeeds \in BOOLEAN
  BY OracleAssumption
<1>2. /\ ~IsActive(dr)
      /\ stake \in 0 .. MaxBalance
      /\ payment \in 0 .. MaxBalance
      /\ data_requests' = [data_requests EXCEPT ![id] = e]
      /\ balance' = Paid(between, ConfigOf(dr).payment_token, payment, payment_succeeds)
      /\ UNCHANGED << whitelist, configs, paused, answers, now >>
  BY DEF DrClaim
<1>3. /\ dr \in Request
      /\ Ladder(dr)
      /\ answers \in Seq(Seq(Outcomes))
      /\ answers = [answers EXCEPT ![id] =
                      IF IsActive(dr) THEN << >> ELSE << dr.finalized_outcome >>]
      /\ ConfigOf(dr).stake_token \in Tokens
      /\ ConfigOf(dr).payment_token \in Tokens
      /\ balance \in [Tokens -> Nat]
  BY RequestFacts
<1>4. /\ e \in Request
      /\ Ladder(e)
      /\ SameTerms(e, dr)
      /\ e.finalized_outcome = dr.finalized_outcome
  BY <1>2, <1>3, ClaimedLadder
<1>5. stake \in Nat /\ payment \in Nat
  BY <1>2, WindowAssumption
<1> HIDE DEF e, stake, payment
<1>6. between \in [Tokens -> Nat]
  BY <1>1, <1>3, <1>5, PaidType
<1> HIDE DEF between
<1>7. balance' \in [Tokens -> Nat]
  BY <1>1, <1>2, <1>3, <1>5, <1>6, PaidType
<1>8. answers' = [answers EXCEPT ![id] =
                    IF IsActive(e) THEN << >> ELSE << e.finalized_outcome >>]
  BY <1>2, <1>3, <1>4 DEF IsActive
<1>9. QED
  BY <1>2, <1>3, <1>4, <1>7, <1>8, RequestReplaced

(***************************************************************************)
(* The three handlers that finalise.                                       *)
(***************************************************************************)
LEMMA BondReturnedType ==
  ASSUME Inv, NEW id \in DOMAIN data_requests, NEW outcome \in Outcomes,
         NEW succeeds \in TransferResults
  PROVE  BondReturned(data_requests[id], outcome, succeeds) \in [Tokens -> Nat]
<1>1. succeeds \in BOOLEAN
  BY OracleAssumption
<1>2. QED
  BY <1>1, RequestFacts, PaidType DEF BondReturned

\* dr_finalize decides for the outcome of the last bonded window, which is an
\* outcome.
LEMMA FinalOutcomeIsOutcome ==
  ASSUME Inv, NEW id \in DOMAIN data_requests, NEW succeeds \in TransferResults,
         DrFinalize(id, succeeds)
  PROVE  FinalOutcome(data_requests[id]) \in Outcomes
<1> DEFINE dr == data_requests[id]
<1>1. dr \in Request
  BY RequestFacts
<1>2. Rounds(dr) >= 2 /\ IsBonded(dr.resolution_windows[Rounds(dr) - 1])
  BY DEF DrFinalize, HasFinalOutcome
<1>3. Rounds(dr) \in Nat /\ \A r \in 1 .. Rounds(dr) : dr.resolution_windows[r] \in Window
  BY <1>1, RequestFields
<1>4. Rounds(dr) - 1 \in 1 .. Rounds(dr)
  BY <1>2, <1>3
<1>5. dr.resolution_windows[Rounds(dr) - 1] \in Window
  BY <1>3, <1>4
<1>6. QED
  BY <1>2, <1>5 DEF FinalOutcome, IsBonded, Window

\* dr_finalize decides once and returns the validity bond.
LEMMA DrFinalizeKeepsInv ==
  ASSUME Inv, NEW id \in DOMAIN data_requests, NEW succeeds \in TransferResults,
         DrFinalize(id, succeeds)
  PROVE  Inv' /\ TermsKept
<1> DEFINE dr      == data_requests[id]
           outcome == FinalOutcome(dr)
<1>1. outcome \in Outcomes
  BY FinalOutcomeIsOutcome
<1>2. /\ Decide(id, outcome)
      /\ balance' = BondReturned(dr, outcome, succeeds)
      /\ UNCHANGED << whitelist, configs, paused, now >>
  BY DEF DrFinalize
<1> HIDE DEF outcome
<1>3. QED
  BY <1>1, <1>2, BondReturnedType, DecideKeepsInv

\* dr_finalize_by_provider decides and pays nothing.
LEMMA DrFinalizeByProviderKeepsInv ==
  ASSUME Inv, NEW caller \in Accounts, NEW id \in DOMAIN data_requests,
         NEW outcome \in Outcomes, DrFinalizeByProvider(caller, id, outcome)
  PROVE  Inv' /\ TermsKept
<1>1. /\ Decide(id, outcome)
      /\ UNCHANGED << whitelist, configs, paused, balance, now >>
  BY DEF DrFinalizeByProvider
<1>2. balance' \in [Tokens -> Nat]
  BY <1>1 DEF Inv, TypeOK
<1>3. QED
  BY <1>1, <1>2, DecideKeepsInv

\* dr_final_arbitrator_finalize decides and returns the validity bond.
LEMMA DrFinalArbitratorFinalizeKeepsInv ==
  ASSUME Inv, NEW caller \in Accounts, NEW id \in DOMAIN data_requests,
         NEW outcome \in Outcomes, NEW succeeds \in TransferResults,
         DrFinalArbitratorFinalize(caller, id, outcome, succeeds)
  PROVE  Inv' /\ TermsKept
<1>1. /\ Decide(id, outcome)
      /\ balance' = BondReturned(data_requests[id], outcome, succeeds)
      /\ UNCHANGED << whitelist, configs, paused, now >>
  BY DEF DrFinalArbitratorFinalize
<1>2. QED
  BY <1>1, BondReturnedType, DecideKeepsInv

(***************************************************************************)
(* Governance and the clock leave requests, answers and balances alone.    *)
(***************************************************************************)
LEMMA OthersKeepInv ==
  ASSUME Inv, UNCHANGED << data_requests, answers, balance >>,
         whitelist' = NoWhitelist \/ IsWhitelist(whitelist'),
         configs' \in Seq(OracleConfig), configs' # << >>, paused' \in BOOLEAN, now' \in Nat,
         \A i \in DOMAIN configs : i \in DOMAIN configs' /\ configs'[i] = configs[i]
  PROVE  Inv' /\ TermsKept
<1>1. \A id \in DOMAIN data_requests : data_requests[id].global_config_id \in DOMAIN configs
  BY DEF Inv, TypeOK
<1>2. TypeOK'
  BY <1>1 DEF Inv, TypeOK
<1>3. DisputeLadder' /\ AnsweredOnce'
  BY DEF Inv, DisputeLadder, AnsweredOnce
<1>4. TermsKept
  BY <1>1 DEF TermsKept, ConfigOf
<1>5. QED
  BY <1>2, <1>3, <1>4 DEF Inv

\* set_config appends: the configurations that requests refer to stay.
LEMMA SetConfigKeepsInv ==
  ASSUME Inv, NEW caller \in Accounts, NEW config \in Configs, SetConfig(caller, config)
  PROVE  Inv' /\ TermsKept
<1>1. config \in OracleConfig
  BY OracleAssumption
<1>2. configs \in Seq(OracleConfig) /\ configs' = Append(configs, config)
  BY DEF Inv, TypeOK, SetConfig, WithConfig
<1>3. /\ configs' \in Seq(OracleConfig)
      /\ configs' # << >>
      /\ \A i \in DOMAIN configs : i \in DOMAIN configs' /\ configs'[i] = configs[i]
  BY <1>1, <1>2
<1>4. QED
  BY <1>3, OthersKeepInv DEF SetConfig, Inv, TypeOK

\* toggle_pause changes the switch only.
LEMMA TogglePauseKeepsInv ==
  ASSUME Inv, NEW caller \in Accounts, TogglePause(caller)
  PROVE  Inv' /\ TermsKept
<1>1. paused' \in BOOLEAN
  BY DEF TogglePause
<1>2. QED
  BY <1>1, OthersKeepInv DEF TogglePause, Inv, TypeOK

\* add_to_whitelist gives a whitelist, also when there was none.
LEMMA AddToWhitelistKeepsInv ==
  ASSUME Inv, NEW caller \in Accounts, NEW requester \in Requesters,
         NEW multiplier \in Multipliers, AddToWhitelist(caller, requester, multiplier)
  PROVE  Inv' /\ TermsKept
<1> DEFINE listed == IF whitelist = NoWhitelist THEN {} ELSE DOMAIN whitelist
<1>1. multiplier \in OptionalMultiplier
  BY OracleAssumption
<1>2. /\ listed \subseteq Requesters
      /\ \A r \in listed : whitelist[r] \in OptionalMultiplier
  BY DEF Inv, TypeOK, IsWhitelist
<1>3. whitelist' = [r \in listed \union {requester} |->
                      IF r = requester THEN multiplier ELSE whitelist[r]]
  BY DEF AddToWhitelist
<1> HIDE DEF listed
<1>4. whitelist' \in [listed \union {requester} -> OptionalMultiplier]
  BY <1>1, <1>2, <1>3
<1>5. IsWhitelist(whitelist')
  BY <1>2, <1>4 DEF IsWhitelist
<1>6. QED
  BY <1>5, OthersKeepInv DEF AddToWhitelist, Inv, TypeOK

\* remove_from_whitelist leaves a whitelist.
LEMMA RemoveFromWhitelistKeepsInv ==
  ASSUME Inv, NEW caller \in Accounts, NEW requester \in Requesters,
         RemoveFromWhitelist(caller, requester)
  PROVE  Inv' /\ TermsKept
<1>1. PICK S \in SUBSET Requesters : whitelist \in [S -> OptionalMultiplier]
  BY DEF RemoveFromWhitelist, Inv, TypeOK, IsWhitelist
<1>2. whitelist' \in [S \ {requester} -> OptionalMultiplier]
  BY <1>1 DEF RemoveFromWhitelist
<1>3. IsWhitelist(whitelist')
  BY <1>2 DEF IsWhitelist
<1>4. QED
  BY <1>3, OthersKeepInv DEF RemoveFromWhitelist, Inv, TypeOK

\* Time passing changes the time only.
LEMMA TickKeepsInv ==
  ASSUME Inv, Tick
  PROVE  Inv' /\ TermsKept
<1>1. now' \in Nat
  BY DEF Inv, TypeOK, Tick
<1>2. QED
  BY <1>1, OthersKeepInv DEF Tick, Inv, TypeOK

---------------------------------------------------------------------------
(***************************************************************************)
(* What is owed, and what is there to pay it                               *)
(***************************************************************************)

\* What is owed on each request, and what is left behind of each, in a token.
OwedTable(cs, drs, t) == [id \in DOMAIN drs |-> OwedOn(t, cs[drs[id].global_config_id], drs[id])]
LeftTable(cs, drs, t) == [id \in DOMAIN drs |-> LeftOn(t, cs[drs[id].global_config_id], drs[id])]

OwedOfAll(cs, drs, t) == Total(OwedTable(cs, drs, t), DOMAIN drs)
LeftOfAll(cs, drs, t) == Total(LeftTable(cs, drs, t), DOMAIN drs)

\* The sums of a state, before and after a step.
LEMMA SumsOfRequests ==
  ASSUME NEW t
  PROVE  /\ Owed(t) = OwedOfAll(configs, data_requests, t)
         /\ Owed(t)' = OwedOfAll(configs', data_requests', t)
         /\ LeftBehind(t) = LeftOfAll(configs, data_requests, t)
         /\ LeftBehind(t)' = LeftOfAll(configs', data_requests', t)
<1>1. Owed(t) = OwedOfAll(configs, data_requests, t)
  BY DEF Owed, OwedOfAll, OwedTable, ConfigOf, Total, MapThenSumSet, MapThenFoldSet
<1>2. Owed(t)' = OwedOfAll(configs', data_requests', t)
  BY DEF Owed, OwedOfAll, OwedTable, ConfigOf, Total, MapThenSumSet, MapThenFoldSet
<1>3. LeftBehind(t) = LeftOfAll(configs, data_requests, t)
  BY DEF LeftBehind, LeftOfAll, LeftTable, ConfigOf, Total, MapThenSumSet, MapThenFoldSet
<1>4. LeftBehind(t)' = LeftOfAll(configs', data_requests', t)
  BY DEF LeftBehind, LeftOfAll, LeftTable, ConfigOf, Total, MapThenSumSet, MapThenFoldSet
<1>5. QED
  BY <1>1, <1>2, <1>3, <1>4

\* What is owed on a request in a token is a natural number.
LEMMA OwedOnType ==
  ASSUME NEW t, NEW config, NEW dr \in Request
  PROVE  /\ OwedOn(t, config, dr) \in Nat
         /\ LeftOn(t, config, dr) \in Int
         /\ IsActive(dr) => LeftOn(t, config, dr) = 0
BY OwedType, LeftBehindType DEF OwedOn, LeftOn, InToken

\* A list of requests.
AreRequests(drs) == drs \in Seq(Request)

\* The sums are over finite tables of whole numbers, and no request is owed
\* more than all together.
LEMMA SumsType ==
  ASSUME NEW t, NEW cs, NEW drs, AreRequests(drs)
  PROVE  /\ Summable(OwedTable(cs, drs, t), DOMAIN drs)
         /\ Summable(LeftTable(cs, drs, t), DOMAIN drs)
         /\ OwedOfAll(cs, drs, t) \in Nat
         /\ LeftOfAll(cs, drs, t) \in Int
         /\ \A id \in DOMAIN drs :
              OwedOn(t, cs[drs[id].global_config_id], drs[id]) <= OwedOfAll(cs, drs, t)
<1> DEFINE D == DOMAIN drs
           f == OwedTable(cs, drs, t)
           g == LeftTable(cs, drs, t)
<1>1. D = 1 .. Len(drs) /\ Len(drs) \in Nat /\ \A id \in D : drs[id] \in Request
  BY DEF AreRequests
<1>2. IsFiniteSet(D)
  <2>1. IsFiniteSet(1 .. Len(drs))
    BY <1>1, FS_Interval
  <2>2. QED
    BY <1>1, <2>1
<1>3. \A id \in D : /\ f[id] = OwedOn(t, cs[drs[id].global_config_id], drs[id])
                    /\ f[id] \in Nat
                    /\ g[id] \in Int
  BY <1>1, OwedOnType DEF OwedTable, LeftTable
<1> HIDE DEF D, f, g
<1>4. Summable(f, D) /\ Summable(g, D)
  BY <1>2, <1>3 DEF Summable
<1>5. \A id \in D : f[id] \in Nat
  BY <1>3
<1>6. Total(f, D) \in Nat /\ Total(g, D) \in Int
  BY <1>2, <1>4, <1>5, TotalNat, TotalInt
<1>7. \A id \in D : f[id] <= Total(f, D)
  BY <1>2, <1>5, TotalBoundsSummand
<1>8. QED
  BY <1>3, <1>4, <1>6, <1>7 DEF OwedOfAll, LeftOfAll, D, f, g

\* One request takes the place of another made under the same configuration.
LEMMA SumsReplaced ==
  ASSUME NEW t, NEW cs, NEW drs, AreRequests(drs), NEW id \in DOMAIN drs,
         NEW e \in Request, e.global_config_id = drs[id].global_config_id
  PROVE  LET config == cs[drs[id].global_config_id]
             after  == [drs EXCEPT ![id] = e]
         IN  /\ OwedOfAll(cs, after, t)
                  = OwedOfAll(cs, drs, t) + OwedOn(t, config, e) - OwedOn(t, config, drs[id])
             /\ LeftOfAll(cs, after, t)
                  = LeftOfAll(cs, drs, t) + LeftOn(t, config, e) - LeftOn(t, config, drs[id])
<1> DEFINE D      == DOMAIN drs
           config == cs[drs[id].global_config_id]
           after  == [drs EXCEPT ![id] = e]
           f      == OwedTable(cs, drs, t)
           g      == OwedTable(cs, after, t)
           h      == LeftTable(cs, drs, t)
           k      == LeftTable(cs, after, t)
<1>1. DOMAIN after = D /\ after[id] = e /\ \A i \in D \ {id} : after[i] = drs[i]
  BY DEF AreRequests
<1>2. Summable(f, D) /\ Summable(h, D)
  BY SumsType
<1>3. /\ f[id] = OwedOn(t, config, drs[id])
      /\ g[id] = OwedOn(t, config, e)
      /\ h[id] = LeftOn(t, config, drs[id])
      /\ k[id] = LeftOn(t, config, e)
      /\ \A i \in D \ {id} : g[i] = f[i] /\ k[i] = h[i]
  BY <1>1 DEF OwedTable, LeftTable
<1>4. g[id] \in Int /\ k[id] \in Int /\ id \in D
  BY <1>3, OwedOnType
<1>5. /\ OwedOfAll(cs, drs, t) = Total(f, D)
      /\ OwedOfAll(cs, after, t) = Total(g, D)
      /\ LeftOfAll(cs, drs, t) = Total(h, D)
      /\ LeftOfAll(cs, after, t) = Total(k, D)
  BY <1>1 DEF OwedOfAll, LeftOfAll
<1> HIDE DEF D, f, g, h, k, config, after
<1>6. Total(g, D) = Total(f, D) + g[id] - f[id]
  BY ONLY <1>2, <1>3, <1>4, TotalChanged
<1>7. Total(k, D) = Total(h, D) + k[id] - h[id]
  BY ONLY <1>2, <1>3, <1>4, TotalChanged
<1>8. QED
  BY <1>3, <1>5, <1>6, <1>7 DEF config, after

\* One request more.
LEMMA SumsAppended ==
  ASSUME NEW t, NEW cs, NEW drs, AreRequests(drs), NEW e \in Request
  PROVE  LET config == cs[e.global_config_id]
         IN  /\ OwedOfAll(cs, Append(drs, e), t)
                  = OwedOfAll(cs, drs, t) + OwedOn(t, config, e)
             /\ LeftOfAll(cs, Append(drs, e), t)
                  = LeftOfAll(cs, drs, t) + LeftOn(t, config, e)
<1> DEFINE after  == Append(drs, e)
           last   == Len(drs) + 1
           D      == DOMAIN drs
           config == cs[e.global_config_id]
           f      == OwedTable(cs, drs, t)
           g      == OwedTable(cs, after, t)
           h      == LeftTable(cs, drs, t)
           k      == LeftTable(cs, after, t)
<1>1. /\ DOMAIN after = D \union {last}
      /\ last \notin D
      /\ after[last] = e
      /\ \A i \in D : after[i] = drs[i]
  BY DEF AreRequests
<1>2. Summable(f, D) /\ Summable(h, D)
  BY SumsType
<1>3. /\ g[last] = OwedOn(t, config, e)
      /\ k[last] = LeftOn(t, config, e)
      /\ \A i \in D : g[i] = f[i]
      /\ \A i \in D : k[i] = h[i]
  BY <1>1 DEF OwedTable, LeftTable
<1>4. g[last] \in Int /\ k[last] \in Int
  BY <1>3, OwedOnType
<1>5. /\ OwedOfAll(cs, drs, t) = Total(f, D)
      /\ OwedOfAll(cs, after, t) = Total(g, D \union {last})
      /\ LeftOfAll(cs, drs, t) = Total(h, D)
      /\ LeftOfAll(cs, after, t) = Total(k, D \union {last})
  BY <1>1 DEF OwedOfAll, LeftOfAll
<1>6. last \notin D
  BY <1>1
<1> HIDE DEF D, f, g, h, k, config, last, after
<1>7. Total(g, D \union {last}) = Total(f, D) + g[last]
  <2>1. Summable(f, D)
    BY <1>2
  <2>2. last \notin D /\ g[last] \in Int /\ \A i \in D : g[i] = f[i]
    BY <1>3, <1>4, <1>6
  <2>3. QED
    BY ONLY <2>1, <2>2, TotalAdded
<1>8. Total(k, D \union {last}) = Total(h, D) + k[last]
  <2>1. Summable(h, D)
    BY <1>2
  <2>2. last \notin D /\ k[last] \in Int /\ \A i \in D : k[i] = h[i]
    BY <1>3, <1>4, <1>6
  <2>3. QED
    BY ONLY <2>1, <2>2, TotalAdded
<1>9. QED
  BY <1>3, <1>5, <1>7, <1>8 DEF config, after

\* Configurations that no request refers to do not matter.
LEMMA SumsSame ==
  ASSUME NEW t, NEW cs, NEW after, NEW drs, AreRequests(drs),
         \A id \in DOMAIN drs : after[drs[id].global_config_id] = cs[drs[id].global_config_id]
  PROVE  /\ OwedOfAll(after, drs, t) = OwedOfAll(cs, drs, t)
         /\ LeftOfAll(after, drs, t) = LeftOfAll(cs, drs, t)
<1>1. /\ OwedTable(after, drs, t) = OwedTable(cs, drs, t)
      /\ LeftTable(after, drs, t) = LeftTable(cs, drs, t)
  BY DEF OwedTable, LeftTable
<1>2. QED
  BY <1>1 DEF OwedOfAll, LeftOfAll

\* What a payout takes off a balance: never more than its amount, and exactly
\* that if it succeeds and is covered.
LEMMA PaidBounds ==
  ASSUME NEW bal \in [Tokens -> Nat], NEW token \in Tokens, NEW amount \in Nat,
         NEW succeeds \in BOOLEAN, NEW t \in Tokens
  PROVE  LET after == Paid(bal, token, amount, succeeds)
         IN  /\ bal[t] <= after[t] + InToken(t, token, amount)
             /\ succeeds /\ amount <= bal[token] => after[t] + InToken(t, token, amount) = bal[t]
<1>1. bal[t] \in Nat /\ bal[token] \in Nat
  OBVIOUS
<1>2. CASE succeeds /\ amount <= bal[token]
  <2>1. Paid(bal, token, amount, succeeds)[t] = IF t = token THEN bal[t] - amount ELSE bal[t]
    BY <1>2 DEF Paid
  <2>2. QED
    BY <1>1, <2>1 DEF InToken
<1>3. CASE ~(succeeds /\ amount <= bal[token])
  BY <1>1, <1>3 DEF Paid, InToken
<1>4. QED
  BY <1>2, <1>3

\* The oracle can pay what a request is owed.
LEMMA CoversRequest ==
  ASSUME Inv, Solvent, NEW id \in DOMAIN data_requests, NEW t \in Tokens
  PROVE  LET dr == data_requests[id] IN OwedOn(t, ConfigOf(dr), dr) <= balance[t]
<1> DEFINE dr == data_requests[id]
<1>1. AreRequests(data_requests) /\ balance[t] \in Nat /\ dr \in Request
  BY DEF Inv, TypeOK, AreRequests
<1>2. /\ OwedOn(t, ConfigOf(dr), dr) <= OwedOfAll(configs, data_requests, t)
      /\ OwedOfAll(configs, data_requests, t) \in Nat
  BY <1>1, SumsType DEF ConfigOf
<1>3. OwedOn(t, ConfigOf(dr), dr) \in Nat
  BY <1>1, OwedOnType
<1>4. Owed(t) = OwedOfAll(configs, data_requests, t)
  BY SumsOfRequests
<1>5. QED
  BY <1>1, <1>2, <1>3, <1>4 DEF Solvent

\* A step that puts e in the place of a request, when the oracle gives away no
\* more of a token than it owes less, and, for the other bound, keeps no more.
LEMMA MoneyReplaced ==
  ASSUME Inv, StakesAddUp, Solvent, NEW id \in DOMAIN data_requests, NEW e \in Request,
         SameTerms(e, data_requests[id]),
         data_requests' = [data_requests EXCEPT ![id] = e], configs' = configs,
         balance' \in [Tokens -> Nat],
         IsActive(e) => AllAgree(e),
         \A t \in Tokens :
           LET c == ConfigOf(data_requests[id])
           IN  OwedOn(t, c, e) + balance[t] <= OwedOn(t, c, data_requests[id]) + balance'[t]
  PROVE  /\ StakesAddUp'
         /\ Solvent'
         /\ NothingElseStranded /\
              (\A t \in Tokens :
                 LET c == ConfigOf(data_requests[id])
                 IN  balance'[t] + OwedOn(t, c, data_requests[id])
                                 + LeftOn(t, c, data_requests[id])
                       <= balance[t] + OwedOn(t, c, e) + LeftOn(t, c, e))
              => NothingElseStranded'
<1> DEFINE dr == data_requests[id]
           c  == ConfigOf(dr)
<1>1. /\ AreRequests(data_requests)
      /\ DOMAIN data_requests' = DOMAIN data_requests
      /\ data_requests'[id] = e
      /\ \A i \in DOMAIN data_requests : i # id => data_requests'[i] = data_requests[i]
      /\ balance \in [Tokens -> Nat]
      /\ dr \in Request
  BY DEF Inv, TypeOK, AreRequests
<1>2. StakesAddUp'
  <2>1. \A i \in DOMAIN data_requests :
          IsActive(data_requests'[i]) => AllAgree(data_requests'[i])
    BY <1>1 DEF StakesAddUp, AllAgree
  <2>2. QED
    BY <1>1, <2>1 DEF StakesAddUp, AllAgree
<1>3. ASSUME NEW t \in Tokens
      PROVE  /\ Owed(t)' = Owed(t) + OwedOn(t, c, e) - OwedOn(t, c, dr)
             /\ LeftBehind(t)' = LeftBehind(t) + LeftOn(t, c, e) - LeftOn(t, c, dr)
             /\ Owed(t) \in Nat /\ LeftBehind(t) \in Int
             /\ OwedOn(t, c, e) \in Nat /\ OwedOn(t, c, dr) \in Nat
             /\ LeftOn(t, c, e) \in Int /\ LeftOn(t, c, dr) \in Int
             /\ balance[t] \in Nat /\ balance'[t] \in Nat
  <2>1. e.global_config_id = dr.global_config_id /\ c = configs[dr.global_config_id]
    BY DEF SameTerms, ConfigOf
  <2> DEFINE k     == configs[dr.global_config_id]
             after == [data_requests EXCEPT ![id] = e]
  <2>0. /\ OwedOfAll(configs, after, t)
             = OwedOfAll(configs, data_requests, t) + OwedOn(t, k, e) - OwedOn(t, k, dr)
        /\ LeftOfAll(configs, after, t)
             = LeftOfAll(configs, data_requests, t) + LeftOn(t, k, e) - LeftOn(t, k, dr)
    <3>1. /\ AreRequests(data_requests)
          /\ id \in DOMAIN data_requests
          /\ e \in Request
          /\ e.global_config_id = data_requests[id].global_config_id
      BY <1>1, <2>1
    <3>2. QED
      BY ONLY <3>1, SumsReplaced
  <2>2. /\ OwedOfAll(configs, data_requests', t)
             = OwedOfAll(configs, data_requests, t) + OwedOn(t, c, e) - OwedOn(t, c, dr)
        /\ LeftOfAll(configs, data_requests', t)
             = LeftOfAll(configs, data_requests, t) + LeftOn(t, c, e) - LeftOn(t, c, dr)
    BY <2>0, <2>1
  <2>3. /\ OwedOfAll(configs, data_requests, t) \in Nat
        /\ LeftOfAll(configs, data_requests, t) \in Int
    BY <1>1, SumsType
  <2>4. /\ OwedOn(t, c, e) \in Nat /\ OwedOn(t, c, dr) \in Nat
        /\ LeftOn(t, c, e) \in Int /\ LeftOn(t, c, dr) \in Int
    BY <1>1, OwedOnType
  <2>5. balance[t] \in Nat /\ balance'[t] \in Nat
    BY <1>1
  <2>6. /\ Owed(t) = OwedOfAll(configs, data_requests, t)
        /\ Owed(t)' = OwedOfAll(configs, data_requests', t)
        /\ LeftBehind(t) = LeftOfAll(configs, data_requests, t)
        /\ LeftBehind(t)' = LeftOfAll(configs, data_requests', t)
    BY SumsOfRequests
  <2>7. QED
    BY <2>2, <2>3, <2>4, <2>5, <2>6
<1>4. ASSUME NEW t \in Tokens
      PROVE  Owed(t)' <= balance'[t]
  <2>1. OwedOn(t, c, e) + balance[t] <= OwedOn(t, c, dr) + balance'[t] /\ Owed(t) <= balance[t]
    BY DEF Solvent
  <2> HIDE DEF dr, c
  <2>2. QED
    BY <1>3, <2>1
<1>5. Solvent'
  BY <1>4 DEF Solvent
<1>6. ASSUME NothingElseStranded,
             \A t \in Tokens : balance'[t] + OwedOn(t, c, dr) + LeftOn(t, c, dr)
                                 <= balance[t] + OwedOn(t, c, e) + LeftOn(t, c, e),
             NEW t \in Tokens
      PROVE  balance'[t] <= Owed(t)' + LeftBehind(t)'
  <2>1. /\ balance'[t] + OwedOn(t, c, dr) + LeftOn(t, c, dr)
             <= balance[t] + OwedOn(t, c, e) + LeftOn(t, c, e)
        /\ balance[t] <= Owed(t) + LeftBehind(t)
    BY <1>6 DEF NothingElseStranded
  <2> HIDE DEF dr, c
  <2>2. QED
    BY <1>3, <2>1
<1>7. QED
  BY <1>2, <1>5, <1>6 DEF NothingElseStranded

\* What each handler keeps; the last part only where no payout fails.
MoneyKept ==
  /\ StakesAddUp'
  /\ Solvent'
  /\ TransferResults = {TRUE} /\ NothingElseStranded => NothingElseStranded'

\* dr_new: what is paid for a request is what the request owes.
LEMMA DrNewKeepsMoney ==
  ASSUME Inv, StakesAddUp, Solvent, NEW token \in Tokens, NEW sender \in Requesters,
         NEW amount \in Payments, NEW payload \in Payloads,
         DrNew(token, sender, amount, payload)
  PROVE  MoneyKept
<1> DEFINE config == CurrentConfig
           fee    == amount - config.validity_bond
           dr     == NewRequest(sender, StakeMultiplier(sender), Len(configs), config, fee, payload)
           n      == Len(data_requests)
<1>1. /\ data_requests' = Append(data_requests, dr)
      /\ balance' = [balance EXCEPT ![token] = @ + amount]
      /\ configs' = configs
      /\ token = config.payment_token
  BY DEF DrNew
<1>2. Inv'
  BY DrNewKeepsInv
<1>3. /\ AreRequests(data_requests) /\ n \in Nat
      /\ DOMAIN data_requests = 1 .. n
      /\ balance \in [Tokens -> Nat]
      /\ config \in OracleConfig
  BY ConfigTypes DEF Inv, TypeOK, AreRequests
<1>4. amount \in Nat /\ config.validity_bond \in Nat
  BY <1>3, OracleAssumption DEF OracleConfig
<1>5. /\ dr.resolution_windows = << >>
      /\ IsActive(dr)
      /\ dr.request_config.paid_fee = fee
      /\ dr.request_config.validity_bond = config.validity_bond
      /\ configs[dr.global_config_id] = config
  BY DEF NewRequest, IsActive, CurrentConfig
<1> HIDE DEF dr, config
<1>6. /\ DOMAIN data_requests' = 1 .. (n + 1)
      /\ data_requests'[n + 1] = dr
      /\ \A i \in 1 .. n : data_requests'[i] = data_requests[i]
  BY <1>1, <1>3 DEF AreRequests
<1>7. dr \in Request
  <2>1. n + 1 \in DOMAIN data_requests'
    BY <1>3, <1>6
  <2>2. data_requests' \in Seq(Request)
    BY <1>2 DEF Inv, TypeOK
  <2>3. QED
    BY <1>6, <2>1, <2>2
<1>8. AllAgree(dr) /\ StakeOwed(dr) = 0 /\ PaymentOwed(dr) = amount
  BY <1>4, <1>5, <1>7, NewRequestOwes
<1>9. StakesAddUp'
  <2>1. \A i \in 1 .. (n + 1) : i = n + 1 \/ i \in 1 .. n
    BY <1>3
  <2>2. \A i \in DOMAIN data_requests' :
          IsActive(data_requests'[i]) => AllAgree(data_requests'[i])
    BY <1>3, <1>6, <1>8, <2>1 DEF StakesAddUp, AllAgree
  <2>3. QED
    BY <2>2 DEF StakesAddUp, AllAgree
<1>10. ASSUME NEW t \in Tokens
       PROVE  /\ Owed(t)' = Owed(t) + InToken(t, token, amount)
              /\ LeftBehind(t)' = LeftBehind(t)
              /\ balance'[t] = balance[t] + InToken(t, token, amount)
              /\ Owed(t) \in Nat /\ LeftBehind(t) \in Int /\ balance[t] \in Nat
              /\ InToken(t, token, amount) \in Nat
  <2>1. /\ OwedOfAll(configs, Append(data_requests, dr), t)
             = OwedOfAll(configs, data_requests, t) + OwedOn(t, configs[dr.global_config_id], dr)
        /\ LeftOfAll(configs, Append(data_requests, dr), t)
             = LeftOfAll(configs, data_requests, t) + LeftOn(t, configs[dr.global_config_id], dr)
    <3>1. AreRequests(data_requests)
      BY <1>3
    <3>2. QED
      BY ONLY <1>7, <3>1, SumsAppended
  <2>2. OwedOn(t, config, dr) = InToken(t, token, amount)
    BY <1>1, <1>4, <1>8 DEF OwedOn, InToken
  <2>3. LeftOn(t, config, dr) = 0
    BY <1>5, <1>7, OwedOnType
  <2>4. /\ OwedOfAll(configs, data_requests, t) \in Nat
        /\ LeftOfAll(configs, data_requests, t) \in Int
    BY <1>3, SumsType
  <2>5. balance'[t] = balance[t] + InToken(t, token, amount)
    BY <1>1, <1>3, <1>4 DEF InToken
  <2>6. /\ Owed(t) = OwedOfAll(configs, data_requests, t)
        /\ Owed(t)' = OwedOfAll(configs, Append(data_requests, dr), t)
        /\ LeftBehind(t) = LeftOfAll(configs, data_requests, t)
        /\ LeftBehind(t)' = LeftOfAll(configs, Append(data_requests, dr), t)
    BY <1>1, SumsOfRequests
  <2>7. balance[t] \in Nat /\ InToken(t, token, amount) \in Nat
    BY <1>3, <1>4 DEF InToken
  <2>8. QED
    BY <1>5, <2>1, <2>2, <2>3, <2>4, <2>5, <2>6, <2>7
<1>11. Solvent'
  BY <1>10 DEF Solvent
<1>12. NothingElseStranded => NothingElseStranded'
  BY <1>10 DEF NothingElseStranded
<1>13. QED
  BY <1>9, <1>11, <1>12 DEF MoneyKept

\* dr_stake: what the oracle keeps of a stake is what it owes more.
LEMMA DrStakeKeepsMoney ==
  ASSUME Inv, StakesAddUp, Solvent, NEW token \in Tokens, NEW sender \in Stakers,
         NEW amount \in StakeAmounts, NEW id \in DOMAIN data_requests, NEW outcome \in Outcomes,
         DrStake(token, sender, amount, id, outcome)
  PROVE  MoneyKept
<1> DEFINE dr   == data_requests[id]
           e    == Staked(dr, sender, outcome, amount, now)
           c    == ConfigOf(dr)
           kept == amount - Unspent(dr, outcome, amount, now)
<1>1. /\ IsActive(dr)
      /\ token = c.stake_token
      /\ ~dr.final_arbitrator_triggered
      /\ CanStakeOnOutcome(dr, outcome)
      /\ data_requests' = [data_requests EXCEPT ![id] = e]
      /\ balance' = [balance EXCEPT ![token] = @ + amount - Unspent(dr, outcome, amount, now)]
      /\ configs' = configs
  BY DEF DrStake, IsStakeToken
<1>2. /\ dr \in Request /\ Ladder(dr) /\ now \in Nat /\ amount \in Nat
      /\ balance \in [Tokens -> Nat]
  BY RequestFacts, OracleAssumption
<1>3. AllAgree(dr)
  BY <1>1 DEF StakesAddUp, AllAgree
<1>4. e \in Request /\ SameTerms(e, dr) /\ IsActive(e)
  BY <1>1, <1>2, StakedLadder DEF IsActive
<1>5. /\ AllAgree(e)
      /\ StakeOwed(e) = StakeOwed(dr) + kept
      /\ PaymentOwed(e) = PaymentOwed(dr)
  BY <1>1, <1>2, <1>3, StakedOwes
<1>6. kept \in Nat /\ Unspent(dr, outcome, amount, now) \in Nat
  <2>1. Unspent(dr, outcome, amount, now) \in 0 .. amount
    BY <1>1, <1>2, UnspentBounds
  <2>2. QED
    BY <1>2, <2>1
<1>7. balance' \in [Tokens -> Nat]
  BY DrStakeKeepsInv DEF Inv, TypeOK
<1>8. StakeOwed(dr) \in Nat /\ PaymentOwed(dr) \in Nat
  BY <1>2, OwedType
<1> HIDE DEF e
<1>9. ASSUME NEW t \in Tokens
      PROVE  /\ OwedOn(t, c, e) + balance[t] = OwedOn(t, c, dr) + balance'[t]
             /\ LeftOn(t, c, e) = 0 /\ LeftOn(t, c, dr) = 0
             /\ OwedOn(t, c, e) \in Nat /\ OwedOn(t, c, dr) \in Nat
             /\ balance[t] \in Nat /\ balance'[t] \in Nat
  <2>1. balance'[t] = balance[t] + InToken(t, token, kept)
    BY <1>1, <1>2, <1>6 DEF InToken
  <2>2. OwedOn(t, c, e) = OwedOn(t, c, dr) + InToken(t, token, kept)
    BY <1>1, <1>5, <1>6, <1>8 DEF OwedOn, InToken
  <2>3. /\ LeftOn(t, c, e) = 0 /\ LeftOn(t, c, dr) = 0
        /\ OwedOn(t, c, e) \in Nat /\ OwedOn(t, c, dr) \in Nat
    BY <1>1, <1>2, <1>4, OwedOnType
  <2>4. balance[t] \in Nat /\ InToken(t, token, kept) \in Nat
    BY <1>2, <1>6 DEF InToken
  <2> HIDE DEF dr, c, kept
  <2>5. QED
    BY <2>1, <2>2, <2>3, <2>4
<1>10. \A t \in Tokens :
         /\ OwedOn(t, c, e) + balance[t] <= OwedOn(t, c, dr) + balance'[t]
         /\ balance'[t] + OwedOn(t, c, dr) + LeftOn(t, c, dr)
              <= balance[t] + OwedOn(t, c, e) + LeftOn(t, c, e)
  BY <1>9
<1>11. QED
  BY <1>1, <1>4, <1>5, <1>7, <1>10, MoneyReplaced DEF MoneyKept

\* dr_unstake: what is paid back is owed no more, whether or not the payout
\* succeeds.
LEMMA DrUnstakeKeepsMoney ==
  ASSUME Inv, StakesAddUp, Solvent, NEW sender \in Stakers, NEW id \in DOMAIN data_requests,
         NEW round \in DOMAIN data_requests[id].resolution_windows,
         NEW outcome \in Outcomes, NEW amount \in StakeAmounts, NEW succeeds \in TransferResults,
         DrUnstake(sender, id, round, outcome, amount, succeeds)
  PROVE  /\ MoneyKept
         /\ succeeds =>
              \A t \in Tokens :
                balance'[t] + InToken(t, ConfigOf(data_requests[id]).stake_token, amount)
                  = balance[t]
<1> DEFINE dr == data_requests[id]
           e  == Unstaked(dr, sender, round, outcome, amount)
           c  == ConfigOf(dr)
           st == c.stake_token
<1>1. /\ CanUnstake(dr.resolution_windows[round], sender, outcome, amount)
      /\ data_requests' = [data_requests EXCEPT ![id] = e]
      /\ balance' = Paid(balance, st, amount, succeeds)
      /\ configs' = configs
  BY DEF DrUnstake
<1>2. /\ dr \in Request /\ Ladder(dr) /\ amount \in Nat /\ succeeds \in BOOLEAN
      /\ balance \in [Tokens -> Nat] /\ st \in Tokens
  BY RequestFacts, OracleAssumption
<1>3. e \in Request /\ SameTerms(e, dr) /\ e.finalized_outcome = dr.finalized_outcome
  BY <1>1, <1>2, UnstakedLadder
<1>4. /\ AllAgree(dr) => AllAgree(e)
      /\ StakeOwed(e) = StakeOwed(dr) - amount
      /\ PaymentOwed(e) = PaymentOwed(dr)
      /\ StakeLeftBehind(e) = StakeLeftBehind(dr)
      /\ PaymentLeftBehind(e) = PaymentLeftBehind(dr)
  BY <1>1, <1>2, UnstakedOwes
<1>5. IsActive(e) => AllAgree(e)
  BY <1>3, <1>4 DEF IsActive, StakesAddUp, AllAgree
<1>6. balance' \in [Tokens -> Nat]
  BY DrUnstakeKeepsInv DEF Inv, TypeOK
<1>7. /\ StakeOwed(dr) \in Nat /\ PaymentOwed(dr) \in Nat
      /\ StakeOwed(e) \in Nat /\ PaymentOwed(e) \in Nat
  BY <1>2, <1>3, OwedType
<1> HIDE DEF e
<1>8. amount <= balance[st]
  <2>1. OwedOn(st, c, dr) <= balance[st]
    BY <1>2, CoversRequest
  <2>2. amount <= StakeOwed(dr) /\ StakeOwed(dr) <= OwedOn(st, c, dr)
    BY <1>2, <1>4, <1>7 DEF OwedOn, InToken
  <2>3. OwedOn(st, c, dr) \in Nat /\ balance[st] \in Nat
    BY <1>2, OwedOnType
  <2> HIDE DEF dr, c, st
  <2>4. QED
    BY <1>2, <1>7, <2>1, <2>2, <2>3
<1>9. ASSUME succeeds, NEW t \in Tokens
      PROVE  balance'[t] + InToken(t, st, amount) = balance[t]
  BY <1>1, <1>2, <1>8, <1>9, PaidBounds
<1>10. ASSUME NEW t \in Tokens
      PROVE  /\ OwedOn(t, c, e) + balance[t] <= OwedOn(t, c, dr) + balance'[t]
             /\ succeeds => balance'[t] + OwedOn(t, c, dr) + LeftOn(t, c, dr)
                              <= balance[t] + OwedOn(t, c, e) + LeftOn(t, c, e)
  <2>1. /\ balance[t] <= balance'[t] + InToken(t, st, amount)
        /\ succeeds => balance'[t] + InToken(t, st, amount) = balance[t]
    BY <1>1, <1>2, <1>8, PaidBounds
  <2>2. OwedOn(t, c, dr) = OwedOn(t, c, e) + InToken(t, st, amount)
    BY <1>2, <1>4, <1>7 DEF OwedOn, InToken
  <2>3. LeftOn(t, c, e) = LeftOn(t, c, dr)
    BY <1>4 DEF LeftOn
  <2>4. /\ LeftOn(t, c, dr) \in Int
        /\ OwedOn(t, c, e) \in Nat /\ OwedOn(t, c, dr) \in Nat
    BY <1>2, <1>3, OwedOnType
  <2>5. balance[t] \in Nat /\ balance'[t] \in Nat /\ InToken(t, st, amount) \in Nat
    BY <1>2, <1>6 DEF InToken
  <2> HIDE DEF dr, c, st
  <2>6. QED
    BY <2>1, <2>2, <2>3, <2>4, <2>5
<1>11. \A t \in Tokens : OwedOn(t, c, e) + balance[t] <= OwedOn(t, c, dr) + balance'[t]
  BY <1>10
<1>12. TransferResults = {TRUE} =>
         \A t \in Tokens : balance'[t] + OwedOn(t, c, dr) + LeftOn(t, c, dr)
                             <= balance[t] + OwedOn(t, c, e) + LeftOn(t, c, e)
  BY <1>10
<1>13. QED
  BY <1>1, <1>3, <1>5, <1>6, <1>11, <1>12, <1>9, MoneyReplaced DEF MoneyKept

\* A verdict: what is owed less covers the validity bond, if that is returned.
LEMMA DecideKeepsMoney ==
  ASSUME Inv, StakesAddUp, Solvent, NEW id \in DOMAIN data_requests, NEW outcome \in Outcomes,
         Decide(id, outcome), balance' \in [Tokens -> Nat], configs' = configs,
         NEW bond, bond = data_requests[id].request_config.validity_bond,
         NEW pt, pt = ConfigOf(data_requests[id]).payment_token,
         \A t \in Tokens : balance[t] <= balance'[t] + InToken(t, pt, bond),
         TransferResults = {TRUE} =>
           \A t \in Tokens :
             balance'[t] + InToken(t, pt, IF outcome = Invalid
                                             \/ data_requests[id].provider # NoProvider
                                            THEN 0 ELSE bond) <= balance[t]
  PROVE  MoneyKept
<1> DEFINE dr   == data_requests[id]
           e    == Finalized(dr, outcome)
           c    == ConfigOf(dr)
           fee  == dr.request_config.paid_fee
           kept == IF outcome = Invalid \/ dr.provider # NoProvider THEN bond ELSE 0
           gone == IF outcome = Invalid \/ dr.provider # NoProvider THEN 0 ELSE bond
<1>1. IsActive(dr) /\ data_requests' = [data_requests EXCEPT ![id] = e]
  BY DEF Decide
<1>2. /\ dr \in Request /\ Ladder(dr) /\ AllAgree(dr)
      /\ balance \in [Tokens -> Nat]
      /\ bond \in Nat /\ fee \in Nat
  <2>1. dr \in Request /\ Ladder(dr) /\ balance \in [Tokens -> Nat] /\ AllAgree(dr)
    BY <1>1, RequestFacts DEF StakesAddUp, AllAgree
  <2>2. QED
    BY <2>1 DEF Request, RequestConfig
<1>3. e \in Request /\ SameTerms(e, dr) /\ e.finalized_outcome = outcome
  BY <1>2, FinalizedLadder
<1>4. ~IsActive(e)
  BY <1>3, WindowAssumption DEF IsActive
<1>5. /\ StakeOwed(e) <= StakeOwed(dr)
      /\ StakeOwed(dr) <= StakeOwed(e) + StakeLeftBehind(e)
      /\ PaymentOwed(e) <= fee
      /\ fee + kept <= PaymentOwed(e) + PaymentLeftBehind(e)
  BY <1>1, <1>2, FinalizedOwes
<1>6. PaymentOwed(dr) = fee + bond
  BY <1>1 DEF PaymentOwed
<1>7. /\ StakeOwed(dr) \in Nat /\ StakeOwed(e) \in Nat /\ PaymentOwed(e) \in Nat
      /\ StakeLeftBehind(e) \in Int /\ PaymentLeftBehind(e) \in Int
      /\ StakeLeftBehind(dr) = 0 /\ PaymentLeftBehind(dr) = 0
  BY <1>1, <1>2, <1>3, OwedType, LeftBehindType
<1>8. /\ kept \in Nat /\ gone \in Nat /\ kept + gone = bond
  BY <1>2
<1> HIDE DEF e, kept, gone, fee
<1>9. ASSUME NEW t \in Tokens
      PROVE  /\ OwedOn(t, c, e) + InToken(t, pt, bond) <= OwedOn(t, c, dr)
             /\ OwedOn(t, c, dr)
                  <= OwedOn(t, c, e) + LeftOn(t, c, e) + InToken(t, pt, gone)
             /\ LeftOn(t, c, dr) = 0
  <2>1. /\ InToken(t, c.stake_token, StakeOwed(e)) <= InToken(t, c.stake_token, StakeOwed(dr))
        /\ InToken(t, c.stake_token, StakeOwed(dr))
             <= InToken(t, c.stake_token, StakeOwed(e))
                + InToken(t, c.stake_token, StakeLeftBehind(e))
        /\ InToken(t, c.stake_token, StakeOwed(e)) \in Nat
        /\ InToken(t, c.stake_token, StakeOwed(dr)) \in Nat
        /\ InToken(t, c.stake_token, StakeLeftBehind(e)) \in Int
    BY <1>5, <1>7 DEF InToken
  <2>2. /\ PaymentOwed(e) + bond <= PaymentOwed(dr)
        /\ PaymentOwed(dr) <= PaymentOwed(e) + PaymentLeftBehind(e) + gone
    BY <1>2, <1>5, <1>6, <1>7, <1>8
  <2>3. /\ InToken(t, pt, PaymentOwed(e)) + InToken(t, pt, bond) <= InToken(t, pt, PaymentOwed(dr))
        /\ InToken(t, pt, PaymentOwed(dr))
             <= InToken(t, pt, PaymentOwed(e))
                + InToken(t, pt, PaymentLeftBehind(e)) + InToken(t, pt, gone)
        /\ InToken(t, pt, PaymentOwed(e)) \in Nat
        /\ InToken(t, pt, PaymentOwed(dr)) \in Nat
        /\ InToken(t, pt, PaymentLeftBehind(e)) \in Int
        /\ InToken(t, pt, bond) \in Nat
        /\ InToken(t, pt, gone) \in Nat
    BY <1>2, <1>6, <1>7, <1>8, <2>2 DEF InToken
  <2>4. LeftOn(t, c, dr) = 0
    BY <1>7 DEF LeftOn, InToken
  <2>5. /\ OwedOn(t, c, e) = InToken(t, c.stake_token, StakeOwed(e))
                               + InToken(t, pt, PaymentOwed(e))
        /\ OwedOn(t, c, dr) = InToken(t, c.stake_token, StakeOwed(dr))
                                + InToken(t, pt, PaymentOwed(dr))
        /\ LeftOn(t, c, e) = InToken(t, c.stake_token, StakeLeftBehind(e))
                               + InToken(t, pt, PaymentLeftBehind(e))
    BY DEF OwedOn, LeftOn
  <2> HIDE DEF dr, c
  <2>6. QED
    BY <2>1, <2>3, <2>4, <2>5
<1>10. ASSUME NEW t \in Tokens
       PROVE  /\ OwedOn(t, c, e) + balance[t] <= OwedOn(t, c, dr) + balance'[t]
              /\ TransferResults = {TRUE} =>
                   balance'[t] + OwedOn(t, c, dr) + LeftOn(t, c, dr)
                     <= balance[t] + OwedOn(t, c, e) + LeftOn(t, c, e)
  <2>1. /\ balance[t] <= balance'[t] + InToken(t, pt, bond)
        /\ TransferResults = {TRUE} => balance'[t] + InToken(t, pt, gone) <= balance[t]
    BY DEF gone
  <2>2. /\ OwedOn(t, c, e) \in Nat /\ OwedOn(t, c, dr) \in Nat
        /\ LeftOn(t, c, e) \in Int
    BY <1>2, <1>3, OwedOnType
  <2>3. /\ balance[t] \in Nat /\ balance'[t] \in Nat
        /\ InToken(t, pt, bond) \in Nat /\ InToken(t, pt, gone) \in Nat
    BY <1>2, <1>8 DEF InToken
  <2>4. /\ OwedOn(t, c, e) + InToken(t, pt, bond) <= OwedOn(t, c, dr)
        /\ OwedOn(t, c, dr)
             <= OwedOn(t, c, e) + LeftOn(t, c, e) + InToken(t, pt, gone)
        /\ LeftOn(t, c, dr) = 0
    BY <1>9
  <2> HIDE DEF dr, c
  <2>5. OwedOn(t, c, e) + balance[t] <= OwedOn(t, c, dr) + balance'[t]
    BY ONLY <2>1, <2>2, <2>3, <2>4
  <2>6. ASSUME balance'[t] + InToken(t, pt, gone) <= balance[t]
        PROVE  balance'[t] + OwedOn(t, c, dr) + LeftOn(t, c, dr)
                 <= balance[t] + OwedOn(t, c, e) + LeftOn(t, c, e)
    BY ONLY <2>2, <2>3, <2>4, <2>6
  <2>7. QED
    BY ONLY <2>1, <2>5, <2>6
<1>11. \A t \in Tokens : OwedOn(t, c, e) + balance[t] <= OwedOn(t, c, dr) + balance'[t]
  BY <1>10
<1>12. TransferResults = {TRUE} =>
         \A t \in Tokens : balance'[t] + OwedOn(t, c, dr) + LeftOn(t, c, dr)
                             <= balance[t] + OwedOn(t, c, e) + LeftOn(t, c, e)
  BY <1>10
<1>13. QED
  BY <1>1, <1>3, <1>4, <1>11, <1>12, MoneyReplaced DEF MoneyKept

\* The validity bond of an active request is there to be returned.
LEMMA BondIsThere ==
  ASSUME Inv, Solvent, NEW id \in DOMAIN data_requests, IsActive(data_requests[id])
  PROVE  LET dr == data_requests[id]
         IN  dr.request_config.validity_bond <= balance[ConfigOf(dr).payment_token]
<1> DEFINE dr   == data_requests[id]
           c    == ConfigOf(dr)
           fee  == dr.request_config.paid_fee
           bond == dr.request_config.validity_bond
           pt   == c.payment_token
<1>1. dr \in Request /\ pt \in Tokens /\ bond \in Nat /\ balance \in [Tokens -> Nat]
  BY RequestFacts
<1>2. fee \in Nat /\ StakeOwed(dr) \in Nat /\ PaymentOwed(dr) = fee + bond
  BY <1>1, OwedType DEF Request, RequestConfig, PaymentOwed
<1>3. OwedOn(pt, c, dr) <= balance[pt]
  BY <1>1, CoversRequest
<1>4. bond <= OwedOn(pt, c, dr) /\ OwedOn(pt, c, dr) \in Nat
  BY <1>1, <1>2 DEF OwedOn, InToken
<1>5. balance[pt] \in Nat
  BY <1>1
<1> HIDE DEF dr, c, pt, bond
<1>6. bond <= balance[pt]
  BY <1>1, <1>3, <1>4, <1>5
<1>7. QED
  BY <1>6 DEF dr, c, pt, bond

\* What return_validity_bond does to the balances.
LEMMA BondReturnedBounds ==
  ASSUME Inv, Solvent, NEW id \in DOMAIN data_requests, IsActive(data_requests[id]),
         NEW outcome \in Outcomes, NEW succeeds \in TransferResults, NEW t \in Tokens
  PROVE  LET dr    == data_requests[id]
             bond  == dr.request_config.validity_bond
             pt    == ConfigOf(dr).payment_token
             after == BondReturned(dr, outcome, succeeds)
         IN  /\ balance[t] <= after[t] + InToken(t, pt, bond)
             /\ succeeds => after[t] + InToken(t, pt, IF outcome = Invalid THEN 0 ELSE bond)
                              <= balance[t]
<1> DEFINE dr    == data_requests[id]
           c     == ConfigOf(dr)
           fee   == dr.request_config.paid_fee
           bond  == dr.request_config.validity_bond
           pt    == c.payment_token
           after == BondReturned(dr, outcome, succeeds)
<1>1. /\ dr \in Request /\ pt \in Tokens /\ bond \in Nat /\ balance \in [Tokens -> Nat]
      /\ succeeds \in BOOLEAN
  BY RequestFacts, OracleAssumption
<1>2. fee \in Nat /\ StakeOwed(dr) \in Nat /\ PaymentOwed(dr) = fee + bond
  BY <1>1, OwedType DEF Request, RequestConfig, PaymentOwed
<1>3. bond <= balance[pt]
  BY BondIsThere
<1>4. /\ balance[t] \in Nat
      /\ InToken(t, pt, bond) \in Nat
      /\ InToken(t, pt, 0) = 0
  BY <1>1 DEF InToken
<1> HIDE DEF dr, pt, bond
<1>5. CASE outcome # Invalid
  <2>1. after = Paid(balance, pt, bond, succeeds)
    BY <1>5 DEF BondReturned, ReturnsValidityBond, pt, bond
  <2>2. /\ balance[t] <= Paid(balance, pt, bond, succeeds)[t] + InToken(t, pt, bond)
        /\ succeeds => Paid(balance, pt, bond, succeeds)[t] + InToken(t, pt, bond) = balance[t]
    BY <1>1, <1>3, PaidBounds
  <2>3. QED
    BY <1>4, <1>5, <2>1, <2>2 DEF dr, bond, pt
<1>6. CASE outcome = Invalid
  <2>1. after = balance
    BY <1>6 DEF BondReturned, ReturnsValidityBond
  <2>2. QED
    BY <1>4, <1>6, <2>1 DEF dr, bond, pt
<1>7. QED
  BY <1>5, <1>6

\* A verdict that returns the bond.
LEMMA DecideAndReturnKeepsMoney ==
  ASSUME Inv, StakesAddUp, Solvent, NEW id \in DOMAIN data_requests, NEW outcome \in Outcomes,
         NEW succeeds \in TransferResults, Decide(id, outcome), configs' = configs,
         balance' = BondReturned(data_requests[id], outcome, succeeds)
  PROVE  MoneyKept
<1> DEFINE dr   == data_requests[id]
           bond == dr.request_config.validity_bond
           pt   == ConfigOf(dr).payment_token
           gone == IF outcome = Invalid \/ dr.provider # NoProvider THEN 0 ELSE bond
<1>1. balance' \in [Tokens -> Nat]
  BY BondReturnedType
<1>2. IsActive(dr) /\ bond \in Nat /\ balance \in [Tokens -> Nat]
  BY RequestFacts DEF Decide
<1>3. ASSUME NEW t \in Tokens
      PROVE  /\ balance[t] <= balance'[t] + InToken(t, pt, bond)
             /\ succeeds => balance'[t] + InToken(t, pt, IF outcome = Invalid THEN 0 ELSE bond)
                              <= balance[t]
  BY <1>2, BondReturnedBounds
<1>4. ASSUME NEW t \in Tokens, succeeds
      PROVE  balance'[t] + InToken(t, pt, gone) <= balance[t]
  <2>1. balance'[t] \in Nat /\ balance[t] \in Nat
    BY <1>1, <1>2
  <2>2. balance'[t] + InToken(t, pt, IF outcome = Invalid THEN 0 ELSE bond) <= balance[t]
    BY <1>3, <1>4
  <2>3. /\ gone = 0 \/ gone = (IF outcome = Invalid THEN 0 ELSE bond)
        /\ (IF outcome = Invalid THEN 0 ELSE bond) \in Nat
    BY <1>2
  <2> HIDE DEF dr, pt, bond, gone
  <2> DEFINE returned == IF outcome = Invalid THEN 0 ELSE bond
  <2>4. returned \in Nat
    BY <2>3
  <2>5. InToken(t, pt, gone) <= InToken(t, pt, returned)
    <3> HIDE DEF returned
    <3>1. gone = 0 \/ gone = returned
      BY <2>3 DEF returned
    <3>2. QED
      BY ONLY <3>1, <2>4 DEF InToken
  <2>6. InToken(t, pt, gone) \in Nat /\ InToken(t, pt, returned) \in Nat
    BY ONLY <2>3, <2>4 DEF InToken, returned
  <2>7. balance'[t] + InToken(t, pt, returned) <= balance[t]
    BY <2>2
  <2> HIDE DEF returned
  <2>8. QED
    BY ONLY <2>1, <2>5, <2>6, <2>7
<1>5. \A t \in Tokens : balance[t] <= balance'[t] + InToken(t, pt, bond)
  BY <1>3
<1>6. TransferResults = {TRUE} =>
        \A t \in Tokens : balance'[t] + InToken(t, pt, gone) <= balance[t]
  <2>1. TransferResults = {TRUE} => succeeds
    OBVIOUS
  <2> HIDE DEF gone, pt
  <2>2. QED
    BY <1>4, <2>1
<1>7. QED
  BY ONLY DecideKeepsMoney, <1>1, <1>5, <1>6, Inv, StakesAddUp, Solvent,
          id \in DOMAIN data_requests, outcome \in Outcomes, Decide(id, outcome),
          configs' = configs DEF bond, pt, gone

\* dr_finalize.
LEMMA DrFinalizeKeepsMoney ==
  ASSUME Inv, StakesAddUp, Solvent, NEW id \in DOMAIN data_requests,
         NEW succeeds \in TransferResults, DrFinalize(id, succeeds)
  PROVE  MoneyKept
<1> DEFINE outcome == FinalOutcome(data_requests[id])
<1>1. outcome \in Outcomes
  BY FinalOutcomeIsOutcome
<1>2. /\ Decide(id, outcome)
      /\ configs' = configs
      /\ balance' = BondReturned(data_requests[id], outcome, succeeds)
  BY DEF DrFinalize
<1> HIDE DEF outcome
<1>3. QED
  BY <1>1, <1>2, DecideAndReturnKeepsMoney

\* dr_final_arbitrator_finalize.
LEMMA DrFinalArbitratorFinalizeKeepsMoney ==
  ASSUME Inv, StakesAddUp, Solvent, NEW caller \in Accounts, NEW id \in DOMAIN data_requests,
         NEW outcome \in Outcomes, NEW succeeds \in TransferResults,
         DrFinalArbitratorFinalize(caller, id, outcome, succeeds)
  PROVE  MoneyKept
BY DecideAndReturnKeepsMoney DEF DrFinalArbitratorFinalize

\* dr_finalize_by_provider: nothing is paid.
LEMMA DrFinalizeByProviderKeepsMoney ==
  ASSUME Inv, StakesAddUp, Solvent, NEW caller \in Accounts, NEW id \in DOMAIN data_requests,
         NEW outcome \in Outcomes, DrFinalizeByProvider(caller, id, outcome)
  PROVE  MoneyKept
<1> DEFINE dr   == data_requests[id]
           bond == dr.request_config.validity_bond
           pt   == ConfigOf(dr).payment_token
           gone == IF outcome = Invalid \/ dr.provider # NoProvider THEN 0 ELSE bond
<1>1. /\ Decide(id, outcome)
      /\ configs' = configs
      /\ balance' = balance
      /\ caller = dr.provider
  BY DEF DrFinalizeByProvider
<1>2. bond \in Nat /\ balance \in [Tokens -> Nat]
  BY RequestFacts
<1>3. gone = 0
  BY <1>1, RequestAssumption
<1>4. \A t \in Tokens : /\ balance[t] \in Nat
                        /\ InToken(t, pt, bond) \in Nat
                        /\ InToken(t, pt, gone) = 0
  BY <1>2, <1>3 DEF InToken
<1>5. \A t \in Tokens : balance[t] <= balance'[t] + InToken(t, pt, bond)
  BY <1>1, <1>4
<1>6. TransferResults = {TRUE} =>
        \A t \in Tokens : balance'[t] + InToken(t, pt, gone) <= balance[t]
  BY <1>1, <1>4
<1>7. QED
  BY <1>1, <1>2, <1>5, <1>6, DecideKeepsMoney

\* dr_claim: the two payouts are what is owed less, also when they are in one
\* token, and also when one of them fails.
LEMMA DrClaimKeepsMoney ==
  ASSUME Inv, StakesAddUp, Solvent, NEW account \in Stakers, NEW id \in DOMAIN data_requests,
         NEW stake_succeeds \in TransferResults, NEW payment_succeeds \in TransferResults,
         DrClaim(account, id, stake_succeeds, payment_succeeds)
  PROVE  /\ MoneyKept
         /\ stake_succeeds /\ payment_succeeds =>
              \A t \in Tokens :
                LET dr == data_requests[id]
                IN  balance'[t]
                      + InToken(t, ConfigOf(dr).stake_token, StakePayout(dr, account))
                      + InToken(t, ConfigOf(dr).payment_token, PaymentPayout(dr, account))
                      = balance[t]
<1> DEFINE dr      == data_requests[id]
           e       == Claimed(dr, account)
           c       == ConfigOf(dr)
           st      == c.stake_token
           pt      == c.payment_token
           stake   == StakePayout(dr, account)
           payment == PaymentPayout(dr, account)
           between == Paid(balance, st, stake, stake_succeeds)
<1>1. /\ ~IsActive(dr)
      /\ data_requests' = [data_requests EXCEPT ![id] = e]
      /\ balance' = Paid(between, pt, payment, payment_succeeds)
      /\ configs' = configs
  BY DEF DrClaim
<1>2. /\ dr \in Request /\ Ladder(dr) /\ balance \in [Tokens -> Nat]
      /\ st \in Tokens /\ pt \in Tokens
      /\ stake_succeeds \in BOOLEAN /\ payment_succeeds \in BOOLEAN
  BY RequestFacts, OracleAssumption
<1>3. stake \in Nat /\ payment \in Nat
  BY <1>1, <1>2, PayoutType
<1>4. e \in Request /\ SameTerms(e, dr) /\ ~IsActive(e)
  BY <1>1, <1>2, ClaimedLadder DEF IsActive
<1>5. /\ StakeOwed(e) = StakeOwed(dr) - stake
      /\ PaymentOwed(e) = PaymentOwed(dr) - payment
      /\ StakeLeftBehind(e) = StakeLeftBehind(dr)
      /\ PaymentLeftBehind(e) = PaymentLeftBehind(dr)
  BY <1>1, <1>2, ClaimedOwes
<1>6. balance' \in [Tokens -> Nat]
  BY DrClaimKeepsInv DEF Inv, TypeOK
<1>7. /\ StakeOwed(dr) \in Nat /\ PaymentOwed(dr) \in Nat
      /\ StakeOwed(e) \in Nat /\ PaymentOwed(e) \in Nat
  BY <1>2, <1>4, OwedType
<1> HIDE DEF e, stake, payment
<1>8. between \in [Tokens -> Nat]
  BY <1>2, <1>3, PaidType
<1>9. ASSUME NEW t \in Tokens
      PROVE  /\ OwedOn(t, c, dr)
                  = OwedOn(t, c, e) + InToken(t, st, stake) + InToken(t, pt, payment)
             /\ LeftOn(t, c, e) = LeftOn(t, c, dr)
             /\ LeftOn(t, c, dr) \in Int
             /\ OwedOn(t, c, e) \in Nat
             /\ InToken(t, st, stake) \in Nat /\ InToken(t, pt, payment) \in Nat
             /\ balance[t] \in Nat /\ between[t] \in Nat /\ balance'[t] \in Nat
             /\ OwedOn(t, c, dr) <= balance[t]
  <2>1. OwedOn(t, c, dr)
          = OwedOn(t, c, e) + InToken(t, st, stake) + InToken(t, pt, payment)
    BY <1>3, <1>5, <1>7 DEF OwedOn, InToken
  <2>2. LeftOn(t, c, e) = LeftOn(t, c, dr)
    BY <1>5 DEF LeftOn
  <2>3. OwedOn(t, c, e) \in Nat /\ LeftOn(t, c, dr) \in Int
    BY <1>2, <1>4, OwedOnType
  <2>4. InToken(t, st, stake) \in Nat /\ InToken(t, pt, payment) \in Nat
    BY <1>3 DEF InToken
  <2>5. balance[t] \in Nat /\ between[t] \in Nat /\ balance'[t] \in Nat
    BY <1>2, <1>6, <1>8
  <2>6. OwedOn(t, c, dr) <= balance[t]
    BY CoversRequest
  <2>7. QED
    BY <2>1, <2>2, <2>3, <2>4, <2>5, <2>6
<1>10. \A t \in Tokens :
         /\ balance[t] <= between[t] + InToken(t, st, stake)
         /\ stake_succeeds /\ stake <= balance[st] =>
              between[t] + InToken(t, st, stake) = balance[t]
         /\ between[t] <= balance'[t] + InToken(t, pt, payment)
         /\ payment_succeeds /\ payment <= between[pt] =>
              balance'[t] + InToken(t, pt, payment) = between[t]
  <2>1. \A t \in Tokens :
          /\ balance[t] <= between[t] + InToken(t, st, stake)
          /\ stake_succeeds /\ stake <= balance[st] =>
               between[t] + InToken(t, st, stake) = balance[t]
    BY <1>2, <1>3, PaidBounds
  <2> HIDE DEF between, pt, st
  <2>2. \A t \in Tokens :
          /\ between[t] <= balance'[t] + InToken(t, pt, payment)
          /\ payment_succeeds /\ payment <= between[pt] =>
               balance'[t] + InToken(t, pt, payment) = between[t]
    BY <1>1, <1>2, <1>3, <1>8, PaidBounds
  <2>3. QED
    BY <2>1, <2>2
<1>11. stake <= balance[st] /\ payment <= between[pt]
  <2>1. InToken(st, st, stake) = stake /\ InToken(pt, pt, payment) = payment
    BY DEF InToken
  <2>2. OwedOn(st, c, dr) >= stake /\ OwedOn(st, c, dr) <= balance[st] /\ balance[st] \in Nat
        /\ OwedOn(st, c, dr) \in Nat
    BY <1>2, <1>3, <1>9, <2>1
  <2>3. /\ balance[pt] <= between[pt] + InToken(pt, st, stake)
        /\ OwedOn(pt, c, dr) >= InToken(pt, st, stake) + payment
        /\ OwedOn(pt, c, dr) <= balance[pt]
        /\ OwedOn(pt, c, dr) \in Nat
        /\ balance[pt] \in Nat /\ between[pt] \in Nat /\ InToken(pt, st, stake) \in Nat
    BY <1>2, <1>3, <1>9, <1>10, <2>1
  <2> HIDE DEF dr, c, st, pt, between
  <2>4. QED
    BY <1>3, <2>2, <2>3
<1>12. ASSUME NEW t \in Tokens
       PROVE  OwedOn(t, c, e) + balance[t] <= OwedOn(t, c, dr) + balance'[t]
  <2>1. /\ balance[t] <= between[t] + InToken(t, st, stake)
        /\ between[t] <= balance'[t] + InToken(t, pt, payment)
    BY <1>10
  <2> HIDE DEF dr, c, st, pt, between
  <2>2. QED
    BY <1>9, <2>1
<1>13. ASSUME stake_succeeds, payment_succeeds, NEW t \in Tokens
       PROVE  balance'[t] + InToken(t, st, stake) + InToken(t, pt, payment) = balance[t]
  <2>1. /\ balance[t] = between[t] + InToken(t, st, stake)
        /\ between[t] = balance'[t] + InToken(t, pt, payment)
    BY <1>10, <1>11, <1>13
  <2> HIDE DEF dr, c, st, pt, between
  <2>2. QED
    BY <1>9, <2>1
<1>14. ASSUME stake_succeeds, payment_succeeds, NEW t \in Tokens
       PROVE  balance'[t] + OwedOn(t, c, dr) + LeftOn(t, c, dr)
                <= balance[t] + OwedOn(t, c, e) + LeftOn(t, c, e)
  <2>1. balance'[t] + InToken(t, st, stake) + InToken(t, pt, payment) = balance[t]
    BY <1>13, <1>14
  <2> HIDE DEF dr, c, st, pt, between
  <2>2. QED
    BY <1>9, <2>1
<1>15. \A t \in Tokens : OwedOn(t, c, e) + balance[t] <= OwedOn(t, c, dr) + balance'[t]
  BY <1>12
<1>16. TransferResults = {TRUE} =>
         \A t \in Tokens : balance'[t] + OwedOn(t, c, dr) + LeftOn(t, c, dr)
                             <= balance[t] + OwedOn(t, c, e) + LeftOn(t, c, e)
  BY <1>14
<1>17. MoneyKept
  BY <1>1, <1>4, <1>6, <1>15, <1>16, MoneyReplaced DEF MoneyKept
<1>18. stake_succeeds /\ payment_succeeds =>
         \A t \in Tokens :
           balance'[t] + InToken(t, st, stake) + InToken(t, pt, payment) = balance[t]
  BY <1>13
<1>19. QED
  BY <1>17, <1>18 DEF stake, payment

\* Governance and the clock: nothing is owed or paid that was not before.
LEMMA OthersKeepMoney ==
  ASSUME Inv, StakesAddUp, Solvent, UNCHANGED << data_requests, balance >>,
         \A i \in DOMAIN configs : configs'[i] = configs[i]
  PROVE  MoneyKept
<1>1. /\ AreRequests(data_requests)
      /\ \A id \in DOMAIN data_requests :
           configs'[data_requests[id].global_config_id]
             = configs[data_requests[id].global_config_id]
  BY DEF Inv, TypeOK, AreRequests
<1>2. ASSUME NEW t \in Tokens
      PROVE  Owed(t)' = Owed(t) /\ LeftBehind(t)' = LeftBehind(t)
  <2>1. /\ OwedOfAll(configs', data_requests, t) = OwedOfAll(configs, data_requests, t)
        /\ LeftOfAll(configs', data_requests, t) = LeftOfAll(configs, data_requests, t)
    BY ONLY <1>1, SumsSame
  <2>2. QED
    BY <2>1, SumsOfRequests
<1>3. StakesAddUp'
  BY DEF StakesAddUp
<1>4. Solvent'
  BY <1>2 DEF Solvent
<1>5. NothingElseStranded => NothingElseStranded'
  BY <1>2 DEF NothingElseStranded
<1>6. QED
  BY <1>3, <1>4, <1>5 DEF MoneyKept

\* set_config appends, and the other calls of governance leave the list alone.
LEMMA GovernanceKeepsMoney ==
  ASSUME Inv, StakesAddUp, Solvent, GovernanceNext
  PROVE  MoneyKept
<1>1. configs \in Seq(OracleConfig)
  BY DEF Inv, TypeOK
<1>2. CASE \E caller \in Accounts, config \in Configs : SetConfig(caller, config)
  <2>1. PICK caller \in Accounts, config \in Configs : SetConfig(caller, config)
    BY <1>2
  <2>2. \A i \in DOMAIN configs : configs'[i] = configs[i]
    BY <1>1, <2>1 DEF SetConfig, WithConfig
  <2>3. QED
    BY <2>1, <2>2, OthersKeepMoney DEF SetConfig
<1>3. CASE UNCHANGED << configs, data_requests, balance >>
  BY <1>3, OthersKeepMoney
<1>4. QED
  BY <1>2, <1>3 DEF GovernanceNext, TogglePause, AddToWhitelist, RemoveFromWhitelist

\* A contract just deployed owes nothing and holds nothing.
LEMMA InitMoney ==
  ASSUME Init
  PROVE  StakesAddUp /\ Solvent /\ NothingElseStranded
<1>1. DOMAIN data_requests = {} /\ \A t \in Tokens : balance[t] = 0
  BY DEF Init
<1>2. StakesAddUp
  BY <1>1 DEF StakesAddUp
<1>3. ASSUME NEW t \in Tokens
      PROVE  Owed(t) = 0 /\ LeftBehind(t) = 0
  BY <1>1, SumsOfRequests, TotalEmpty DEF OwedOfAll, LeftOfAll
<1>4. QED
  BY <1>1, <1>2, <1>3 DEF Solvent, NothingElseStranded

\* Every call keeps the oracle solvent.
LEMMA NextMoney ==
  ASSUME Inv, StakesAddUp, Solvent, [Next]_vars
  PROVE  MoneyKept
<1>1. CASE UNCHANGED vars
  BY <1>1, OthersKeepMoney DEF vars
<1>2. CASE \E token \in Tokens, sender \in Requesters, amount \in Payments, payload \in Payloads :
             DrNew(token, sender, amount, payload)
  BY <1>2, DrNewKeepsMoney
<1>3. CASE \E id \in DOMAIN data_requests : RequestNext(id)
  BY <1>3, DrStakeKeepsMoney, DrUnstakeKeepsMoney, DrFinalizeKeepsMoney,
     DrFinalizeByProviderKeepsMoney, DrFinalArbitratorFinalizeKeepsMoney, DrClaimKeepsMoney
     DEF RequestNext
<1>4. CASE GovernanceNext
  BY <1>4, GovernanceKeepsMoney
<1>5. CASE Tick
  BY <1>5, OthersKeepMoney DEF Tick
<1>6. QED
  BY <1>1, <1>2, <1>3, <1>4, <1>5 DEF Next


---------------------------------------------------------------------------
(***************************************************************************)
(* Theorems                                                                *)
(***************************************************************************)

\* A contract just deployed has no request, so nothing to go wrong.
LEMMA InitInv ==
  ASSUME Init
  PROVE  Inv
<1>1. data_requests = << >> /\ answers = << >>
  BY DEF Init
<1>2. /\ data_requests \in Seq(Request)
      /\ answers \in Seq(Seq(Outcomes))
      /\ DOMAIN data_requests = {}
      /\ Len(answers) = Len(data_requests)
  BY <1>1
<1>3. PICK c \in Configs : configs = << c >>
  BY DEF Init
<1>4. configs \in Seq(OracleConfig) /\ configs # << >>
  BY <1>3, OracleAssumption
<1>5. whitelist = NoWhitelist \/ IsWhitelist(whitelist)
  BY OracleAssumption DEF Init
<1>6. balance \in [Tokens -> Nat] /\ paused \in BOOLEAN /\ now \in Nat
  BY DEF Init
<1>7. QED
  BY <1>2, <1>4, <1>5, <1>6 DEF Inv, TypeOK, DisputeLadder, AnsweredOnce

\* Every call keeps the invariant and the terms of the requests there are.
LEMMA NextInv ==
  ASSUME Inv, [Next]_vars
  PROVE  Inv' /\ [TermsKept]_vars
<1>1. CASE UNCHANGED vars
  BY <1>1 DEF vars, Inv, TypeOK, DisputeLadder, AnsweredOnce
<1>2. CASE \E token \in Tokens, sender \in Requesters, amount \in Payments, payload \in Payloads :
             DrNew(token, sender, amount, payload)
  BY <1>2, DrNewKeepsInv
<1>3. CASE \E id \in DOMAIN data_requests : RequestNext(id)
  BY <1>3, DrStakeKeepsInv, DrUnstakeKeepsInv, DrFinalizeKeepsInv, DrFinalizeByProviderKeepsInv,
     DrFinalArbitratorFinalizeKeepsInv, DrClaimKeepsInv DEF RequestNext
<1>4. CASE GovernanceNext
  BY <1>4, SetConfigKeepsInv, TogglePauseKeepsInv, AddToWhitelistKeepsInv,
     RemoveFromWhitelistKeepsInv DEF GovernanceNext
<1>5. CASE Tick
  BY <1>5, TickKeepsInv
<1>6. QED
  BY <1>1, <1>2, <1>3, <1>4, <1>5 DEF Next

(***************************************************************************)
(* The inductive invariant holds in every behaviour.                       *)
(***************************************************************************)
THEOREM Invariance == Spec => []Inv
<1>1. Init => Inv
  BY InitInv
<1>2. Inv /\ [Next]_vars => Inv'
  BY NextInv
<1>3. QED
  BY <1>1, <1>2, PTL DEF Spec

(***************************************************************************)
(* Every variable keeps its type; a balance, above all, never goes below 0.*)
(***************************************************************************)
THEOREM TypeCorrect == Spec => []TypeOK
<1>1. Inv => TypeOK
  BY DEF Inv
<1>2. QED
  BY <1>1, Invariance, PTL

(***************************************************************************)
(* The windows of every request form a ladder: other outcome, double bond, *)
(* only the top one open, the arbitrator exactly above a bonded top.       *)
(***************************************************************************)
THEOREM LadderInvariant == Spec => []DisputeLadder
<1>1. Inv => DisputeLadder
  BY DEF Inv
<1>2. QED
  BY <1>1, Invariance, PTL

(***************************************************************************)
(* A requester is told one verdict, the one on record.                     *)
(***************************************************************************)
THEOREM OneAnswer == Spec => []AnsweredOnce
<1>1. Inv => AnsweredOnce
  BY DEF Inv
<1>2. QED
  BY <1>1, Invariance, PTL

(***************************************************************************)
(* No call, of governance or anybody, changes the terms of a request.      *)
(***************************************************************************)
THEOREM TermsNeverChange == Spec => TermsFixed
<1>1. Inv /\ [Next]_vars => [TermsKept]_vars
  BY NextInv
<1>2. QED
  BY <1>1, Invariance, PTL DEF Spec, TermsFixed

(***************************************************************************)
(* While a request is active, the stakes recorded for its outcomes are the *)
(* sums of what its stakers have.                                          *)
(***************************************************************************)
THEOREM StakesAlwaysAddUp == Spec => []StakesAddUp
<1>1. Init => StakesAddUp /\ Solvent
  BY InitMoney
<1>2. Inv /\ StakesAddUp /\ Solvent /\ [Next]_vars => StakesAddUp' /\ Solvent'
  BY NextMoney DEF MoneyKept
<1>3. QED
  BY <1>1, <1>2, Invariance, PTL DEF Spec

(***************************************************************************)
(* The oracle can pay, in every token and at any time, what all requests   *)
(* together still owe, whichever payouts fail.                             *)
(***************************************************************************)
THEOREM AlwaysSolvent == Spec => []Solvent
<1>1. Init => StakesAddUp /\ Solvent
  BY InitMoney
<1>2. Inv /\ StakesAddUp /\ Solvent /\ [Next]_vars => StakesAddUp' /\ Solvent'
  BY NextMoney DEF MoneyKept
<1>3. QED
  BY <1>1, <1>2, Invariance, PTL DEF Spec

(***************************************************************************)
(* Where no payout fails, what the oracle holds beyond what it owes is the *)
(* listed remainders and nothing else.                                     *)
(***************************************************************************)
THEOREM NothingStranded ==
  ASSUME TransferResults = {TRUE}
  PROVE  Spec => []NothingElseStranded
<1>1. Init => NothingElseStranded
  BY InitMoney
<1>2. /\ Inv /\ StakesAddUp /\ Solvent /\ NothingElseStranded /\ [Next]_vars
      => NothingElseStranded'
  BY NextMoney DEF MoneyKept
<1>3. QED
  BY <1>1, <1>2, Invariance, StakesAlwaysAddUp, AlwaysSolvent, PTL DEF Spec
=================================================================================
