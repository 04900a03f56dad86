--------------------------- MODULE OracleStorageProofs ---------------------------
(***************************************************************************)
(* Charging for storage changes nothing else: the oracle whose handlers    *)
(* settle for their storage implements the oracle without, for any sizes of*)
(* entries and any deposits, and so keeps all that is proved of it.  And   *)
(* the entries it is charged for and refunded are those of its stakes; and *)
(* the NEAR it holds is what its bytes and accounts need.                  *)
(***************************************************************************)
EXTENDS OracleStorage, OracleProofs

\* A charged handler does to the requests what the handler does.
LEMMA RequestStep ==
  ASSUME NEW id \in DOMAIN data_requests, RequestSettledNext(id)
  PROVE  RequestNext(id)
BY DEF RequestSettledNext, RequestNext, StakeCharged, UnstakeSettled, FinalizeUnsettled,
       ProviderFinalizeSettled, ArbitratorFinalizeSettled, ClaimSettled

\* Every step is one of the oracle, or leaves its state as it is.
LEMMA StorageStep ==
  ASSUME [StorageNext]_allVars
  PROVE  [Next]_vars
<1>1. CASE UNCHANGED allVars
  BY <1>1 DEF allVars
<1>2. CASE \E token \in Tokens, sender \in Requesters, amount \in Payments, payload \in Payloads :
             NewRequestCharged(token, sender, amount, payload)
  BY <1>2 DEF NewRequestCharged, Next
<1>3. CASE \E id \in DOMAIN data_requests : RequestSettledNext(id)
  BY <1>3, RequestStep DEF Next
<1>4. CASE \E account \in Stakers \union Requesters :
             \/ \E amount \in Deposits : StorageDeposit(account, amount)
             \/ \E amount \in Withdrawals : StorageWithdraw(account, amount)
  BY <1>4 DEF StorageDeposit, StorageWithdraw
<1>5. CASE GovernanceSettled
  BY <1>5 DEF GovernanceSettled, Next
<1>6. CASE Tick /\ UNCHANGED storageVars
  BY <1>6 DEF Next
<1>7. QED
  BY <1>1, <1>2, <1>3, <1>4, <1>5, <1>6 DEF StorageNext

(***************************************************************************)
(* The oracle with its storage accounts implements the oracle.             *)
(***************************************************************************)
THEOREM StorageImplementsOracle == StorageSpec => Spec
<1>1. StorageInit => Init
  BY DEF StorageInit
<1>2. [StorageNext]_allVars => [Next]_vars
  BY StorageStep
<1>3. QED
  BY <1>1, <1>2, PTL DEF StorageSpec, Spec

---------------------------------------------------------------------------
(***************************************************************************)
(* Entries of windows                                                      *)
(***************************************************************************)

\* v counts no stake that w does not, but for that of s on o.
OnlyMore(v, w, s, o) ==
  \A u \in Stakers, q \in Outcomes :
    v.user_to_outcome_to_stake[u][q] > 0 =>
      w.user_to_outcome_to_stake[u][q] > 0 \/ (u = s /\ q = o)

\* The entries held, and those of s and o in window r of a request.
WithKeys(held, id, r, s, o) ==
  [ outcomes |-> held.outcomes \union {<< id, r, o >>},
    users    |-> held.users \union {<< id, r, s >>},
    stakes   |-> held.stakes \union {<< id, r, s, o >>} ]

\* The windows of a request have their entries.
WindowsHaveKeys(held, id, windows) ==
  \A r \in DOMAIN windows : HasKeys(held, id, r, windows[r])

\* No entry of another request is lost.
OthersKeepKeys(held, more, id) ==
  \A i, r, w : i # id /\ HasKeys(held, i, r, w) => HasKeys(more, i, r, w)

\* A new window has no stake, and needs no entry.
LEMMA NewWindowKeys ==
  ASSUME NEW prev_bond, NEW period, NEW start, NEW held, NEW id, NEW r
  PROVE  HasKeys(held, id, r, NewWindow(prev_bond, period, start))
<1> DEFINE w == NewWindow(prev_bond, period, start)
<1>1. w.user_to_outcome_to_stake = [u \in Stakers |-> [o \in Outcomes |-> 0]]
  BY DEF NewWindow, EmptyWindow
<1> HIDE DEF w
<1>2. \A u \in Stakers, o \in Outcomes : w.user_to_outcome_to_stake[u][o] = 0
  BY <1>1
<1>3. HasKeys(held, id, r, w)
  BY <1>2 DEF HasKeys
<1>4. QED
  BY <1>3 DEF w

\* A map of stakes that changes for s on o.
LEMMA OneStakeChanged ==
  ASSUME NEW users \in [Stakers -> [Outcomes -> Nat]], NEW s \in Stakers, NEW o \in Outcomes,
         NEW n, NEW u \in Stakers, NEW q \in Outcomes, u # s \/ q # o
  PROVE  [users EXCEPT ![s][o] = n][u][q] = users[u][q]
OBVIOUS

\* stake changes one stake.
LEMMA AddStakeOnlyMore ==
  ASSUME NEW w \in Window, NEW s \in Stakers, NEW o \in Outcomes, NEW amount
  PROVE  OnlyMore(AddStake(w, s, o, amount), w, s, o)
<1> DEFINE users == w.user_to_outcome_to_stake
           n     == users[s][o] + Taken(w, o, amount)
           v     == AddStake(w, s, o, amount)
<1>1. v.user_to_outcome_to_stake = [users EXCEPT ![s][o] = n]
  BY DEF AddStake, Window
<1>2. users \in [Stakers -> [Outcomes -> Nat]]
  BY DEF Window
<1> HIDE DEF users, n, v
<1>3. \A u \in Stakers, q \in Outcomes :
        u # s \/ q # o => v.user_to_outcome_to_stake[u][q] = users[u][q]
  BY <1>1, <1>2, OneStakeChanged
<1>4. OnlyMore(v, w, s, o)
  BY <1>3 DEF OnlyMore, users
<1>5. QED
  BY <1>4 DEF v

\* So does unstake.
LEMMA RemoveStakeOnlyMore ==
  ASSUME NEW w \in Window, NEW s \in Stakers, NEW o \in Outcomes, NEW amount
  PROVE  OnlyMore(RemoveStake(w, s, o, amount), w, s, o)
<1> DEFINE users == w.user_to_outcome_to_stake
           n     == users[s][o] - amount
           v     == RemoveStake(w, s, o, amount)
<1>1. v.user_to_outcome_to_stake = [users EXCEPT ![s][o] = n]
  BY DEF RemoveStake, Window
<1>2. users \in [Stakers -> [Outcomes -> Nat]]
  BY DEF Window
<1> HIDE DEF users, n, v
<1>3. \A u \in Stakers, q \in Outcomes :
        u # s \/ q # o => v.user_to_outcome_to_stake[u][q] = users[u][q]
  BY <1>1, <1>2, OneStakeChanged
<1>4. OnlyMore(v, w, s, o)
  BY <1>3 DEF OnlyMore, users
<1>5. QED
  BY <1>4 DEF v

\* The entries that a stake needs are those that stake and unstake write.
LEMMA KeysCoverMore ==
  ASSUME NEW held, NEW id, NEW r, NEW s \in Stakers, NEW o \in Outcomes, NEW v, NEW w,
         HasKeys(held, id, r, w), OnlyMore(v, w, s, o)
  PROVE  HasKeys(WithKeys(held, id, r, s, o), id, r, v)
BY DEF HasKeys, OnlyMore, WithKeys

\* Writing entries loses none.
LEMMA WithKeysKeeps ==
  ASSUME NEW held, NEW id, NEW r, NEW s, NEW o
  PROVE  \A i, t, w : HasKeys(held, i, t, w) => HasKeys(WithKeys(held, id, r, s, o), i, t, w)
BY DEF HasKeys, WithKeys

---------------------------------------------------------------------------
(***************************************************************************)
(* Entries of requests                                                     *)
(***************************************************************************)

\* The windows of a request after a stake have their entries: the window staked
\* in those that dr_stake writes, a window it opens needs none.
LEMMA StakedKeys ==
  ASSUME NEW dr \in Request, NEW s \in Stakers, NEW o \in Outcomes, NEW amount \in Nat,
         NEW t \in Nat, Ladder(dr), ~dr.final_arbitrator_triggered, CanStakeOnOutcome(dr, o),
         NEW held, NEW id, WindowsHaveKeys(held, id, dr.resolution_windows)
  PROVE  WindowsHaveKeys(WithKeys(held, id, StakedRound(dr), s, o), id,
                         Staked(dr, s, o, amount, t).resolution_windows)
<1> DEFINE w0      == StakingWindow(dr, t)
           w       == StakedWindow(dr, s, o, amount, t)
           windows == WithStakedWindow(dr, w)
           n       == StakedRound(dr)
           more    == WithKeys(held, id, n, s, o)
           next    == NextWindow(dr, w, Len(windows), t)
           e       == Staked(dr, s, o, amount, t)
<1>1. w0 \in Window
  BY StakingWindowOpen
<1>2. OnlyMore(w, w0, s, o)
  BY <1>1, AddStakeOnlyMore DEF StakedWindow
<1>3. /\ windows \in Seq(Window)
      /\ Len(windows) = n
      /\ n \in Nat /\ n > 0
      /\ windows[n] = w
      /\ \A r \in 1 .. n : r < n => windows[r] = dr.resolution_windows[r]
  <2>1. WindowsAfterStake(dr, w, windows, o, t)
    BY StakedWindows
  <2> HIDE DEF w, windows
  <2>2. QED
    BY <2>1 DEF WindowsAfterStake, StakedRound
<1>4. HasKeys(held, id, n, w0)
  <2>1. CASE dr.resolution_windows = << >>
    BY <2>1, NewWindowKeys DEF StakingWindow
  <2>2. CASE dr.resolution_windows # << >>
    BY <2>2, RequestFields DEF StakingWindow, LastWindow, StakedRound, WindowsHaveKeys
  <2>3. QED
    BY <2>1, <2>2
<1>5. HasKeys(more, id, n, w)
  BY <1>2, <1>4, KeysCoverMore
<1>6. \A r \in 1 .. n : r < n => HasKeys(more, id, r, windows[r])
  <2> SUFFICES ASSUME NEW r \in 1 .. n, r < n
               PROVE  HasKeys(more, id, r, windows[r])
    OBVIOUS
  <2>1. n > 1
    BY <1>3
  <2>2. dr.resolution_windows # << >> /\ n = Rounds(dr)
    BY <2>1 DEF StakedRound
  <2>3. r \in DOMAIN dr.resolution_windows
    BY <2>2, RequestFields
  <2>4. HasKeys(held, id, r, dr.resolution_windows[r])
    BY <2>3 DEF WindowsHaveKeys
  <2>5. HasKeys(more, id, r, dr.resolution_windows[r])
    BY <2>4, WithKeysKeeps
  <2>6. QED
    BY <1>3, <2>5
<1>7. HasKeys(more, id, n + 1, next)
  BY NewWindowKeys DEF NextWindow
<1>8. e.resolution_windows \in {windows, Append(windows, next)}
  BY DEF Staked, Request
<1> HIDE DEF w0, w, windows, n, more, next, e
<1>9. WindowsHaveKeys(more, id, windows)
  <2>1. DOMAIN windows = 1 .. n
    BY <1>3
  <2>2. \A r \in 1 .. n : r < n \/ r = n
    BY <1>3
  <2>3. QED
    BY <1>3, <1>5, <1>6, <2>1, <2>2 DEF WindowsHaveKeys
<1>10. WindowsHaveKeys(more, id, Append(windows, next))
  <2>1. /\ DOMAIN Append(windows, next) = 1 .. n + 1
        /\ Append(windows, next)[n + 1] = next
        /\ \A r \in 1 .. n : Append(windows, next)[r] = windows[r]
        /\ DOMAIN windows = 1 .. n
    BY <1>3
  <2>2. \A r \in 1 .. n + 1 : r \in 1 .. n \/ r = n + 1
    BY <1>3
  <2>3. QED
    BY <1>7, <1>9, <2>1, <2>2 DEF WindowsHaveKeys
<1>11. QED
  BY <1>8, <1>9, <1>10 DEF more, n, e

\* So have they after a withdrawal.
LEMMA UnstakedKeys ==
  ASSUME NEW dr \in Request, NEW s \in Stakers, NEW round \in DOMAIN dr.resolution_windows,
         NEW o \in Outcomes, NEW amount,
         NEW held, NEW id, WindowsHaveKeys(held, id, dr.resolution_windows)
  PROVE  WindowsHaveKeys(WithKeys(held, id, round, s, o), id,
                         Unstaked(dr, s, round, o, amount).resolution_windows)
<1> DEFINE w       == dr.resolution_windows[round]
           v       == RemoveStake(w, s, o, amount)
           more    == WithKeys(held, id, round, s, o)
           windows == Unstaked(dr, s, round, o, amount).resolution_windows
<1>1. w \in Window
  BY RequestFields
<1>2. windows = [dr.resolution_windows EXCEPT ![round] = v]
  BY DEF Unstaked, Request
<1>3. OnlyMore(v, w, s, o)
  BY <1>1, RemoveStakeOnlyMore
<1>4. HasKeys(held, id, round, w)
  BY DEF WindowsHaveKeys
<1>5. HasKeys(more, id, round, v)
  BY <1>3, <1>4, KeysCoverMore
<1> HIDE DEF v, w, windows
<1>6. \A r \in DOMAIN dr.resolution_windows : HasKeys(more, id, r, dr.resolution_windows[r])
  BY WithKeysKeeps DEF WindowsHaveKeys
<1>7. /\ DOMAIN windows = DOMAIN dr.resolution_windows
      /\ \A r \in DOMAIN windows : windows[r] = IF r = round THEN v ELSE dr.resolution_windows[r]
  BY <1>2
<1>8. WindowsHaveKeys(more, id, windows)
  BY <1>5, <1>6, <1>7 DEF WindowsHaveKeys
<1>9. QED
  BY <1>8 DEF windows, more

\* What a claim frees belongs to stakes that it takes off the books.
LEMMA ClaimedKeys ==
  ASSUME NEW dr \in Request, NEW account \in Stakers, ~IsActive(dr), NEW held, NEW more, NEW id,
         WindowsHaveKeys(held, id, dr.resolution_windows),
         more = [held EXCEPT !.stakes = @ \ {<< id, r, account, dr.finalized_outcome >> :
                                               r \in CorrectRounds(dr)}],
         NEW outcomes, NEW users, NEW stakes,
         held = [outcomes |-> outcomes, users |-> users, stakes |-> stakes]
  PROVE  /\ WindowsHaveKeys(more, id, Claimed(dr, account).resolution_windows)
         /\ OthersKeepKeys(held, more, id)
<1> DEFINE o       == dr.finalized_outcome
           paid    == {<< id, r, account, o >> : r \in CorrectRounds(dr)}
           windows == Claimed(dr, account).resolution_windows
<1>1. /\ more.outcomes = held.outcomes
      /\ more.users = held.users
      /\ more.stakes = held.stakes \ paid
  OBVIOUS
<1>2. o \in Outcomes
  BY DEF Request, IsActive
<1>3. windows = [r \in DOMAIN dr.resolution_windows |->
                   TakeClaimedStake(dr.resolution_windows[r], account, o)]
  BY DEF Claimed, Request
<1> HIDE DEF windows, paid
<1>4. ASSUME NEW r \in DOMAIN dr.resolution_windows
      PROVE  HasKeys(more, id, r, windows[r])
  <2> DEFINE w == dr.resolution_windows[r]
             v == windows[r]
  <2>1. HasKeys(held, id, r, w) /\ v = TakeClaimedStake(w, account, o)
    BY <1>3 DEF WindowsHaveKeys
  <2>2. w \in Window
    BY RequestFields
  <2>3. CASE IsCorrect(w, o)
    <3>1. v = [w EXCEPT !.user_to_outcome_to_stake[account][o] = 0]
      BY <2>1, <2>3 DEF TakeClaimedStake
    <3> DEFINE stakes_before == w.user_to_outcome_to_stake
    <3>2. /\ stakes_before \in [Stakers -> [Outcomes -> Nat]]
          /\ v.user_to_outcome_to_stake = [stakes_before EXCEPT ![account][o] = 0]
      BY <2>2, <3>1 DEF Window
    <3> HIDE DEF w, v, stakes_before
    <3>3. v.user_to_outcome_to_stake[account][o] = 0
      BY <1>2, <3>2
    <3>4. \A u \in Stakers, q \in Outcomes :
            u # account \/ q # o => v.user_to_outcome_to_stake[u][q] = stakes_before[u][q]
      BY <1>2, <3>2, OneStakeChanged
    <3>5. \A u \in Stakers, q \in Outcomes :
            u # account \/ q # o => << id, r, u, q >> \notin paid
      BY DEF paid
    <3>6. HasKeys(more, id, r, v)
      BY <1>1, <2>1, <3>3, <3>4, <3>5 DEF HasKeys, stakes_before
    <3>7. QED
      BY <3>6 DEF v
  <2>4. CASE ~IsCorrect(w, o)
    <3>1. v = w
      BY <2>1, <2>4 DEF TakeClaimedStake
    <3>2. \A u, q : << id, r, u, q >> \notin paid
      BY <2>4 DEF paid, CorrectRounds
    <3>3. QED
      BY <1>1, <2>1, <3>1, <3>2 DEF HasKeys
  <2>5. QED
    BY <2>3, <2>4
<1>5. WindowsHaveKeys(more, id, windows)
  BY <1>3, <1>4 DEF WindowsHaveKeys
<1>6. OthersKeepKeys(held, more, id)
  <2>1. \A i, r, u, q : i # id => << i, r, u, q >> \notin paid
    BY DEF paid
  <2>2. QED
    BY <1>1, <2>1 DEF OthersKeepKeys, HasKeys
<1>7. QED
  BY <1>5, <1>6 DEF windows

---------------------------------------------------------------------------
(***************************************************************************)
(* Steps                                                                   *)
(***************************************************************************)

\* keys holds the entries of three maps.
ThreeMaps ==
  keys = [outcomes |-> keys.outcomes, users |-> keys.users, stakes |-> keys.stakes]

StorageInv == Inv /\ KeysMatchStakes /\ ThreeMaps

\* What the handlers write keeps what there was.
LEMMA KeysWrittenFacts ==
  ASSUME NEW id, NEW round, NEW user, NEW outcome, KeysWritten(id, round, user, outcome)
  PROVE  /\ keys' = WithKeys(keys, id, round, user, outcome)
         /\ OthersKeepKeys(keys, keys', id)
         /\ ThreeMaps'
<1>1. keys' = WithKeys(keys, id, round, user, outcome)
  BY DEF KeysWritten, WithKeys
<1>2. OthersKeepKeys(keys, keys', id)
  BY <1>1, WithKeysKeeps DEF OthersKeepKeys
<1>3. ThreeMaps'
  BY <1>1 DEF ThreeMaps, WithKeys
<1>4. QED
  BY <1>1, <1>2, <1>3

\* One request changes, and its windows have their entries.
LEMMA KeysReplaced ==
  ASSUME StorageInv, NEW id \in DOMAIN data_requests, NEW e,
         data_requests' = [data_requests EXCEPT ![id] = e],
         WindowsHaveKeys(keys', id, e.resolution_windows),
         OthersKeepKeys(keys, keys', id)
  PROVE  KeysMatchStakes'
<1>1. data_requests \in Seq(Request)
  BY DEF StorageInv, Inv, TypeOK
<1>2. /\ DOMAIN data_requests' = DOMAIN data_requests
      /\ data_requests'[id] = e
      /\ \A i \in DOMAIN data_requests : i # id => data_requests'[i] = data_requests[i]
  BY <1>1
<1>3. SUFFICES ASSUME NEW i \in DOMAIN data_requests
               PROVE  WindowsHaveKeys(keys', i, data_requests'[i].resolution_windows)
  BY <1>2 DEF KeysMatchStakes, WindowsHaveKeys
<1>4. CASE i = id
  BY <1>2, <1>4
<1>5. CASE i # id
  BY <1>2, <1>5 DEF StorageInv, KeysMatchStakes, WindowsHaveKeys, OthersKeepKeys
<1>6. QED
  BY <1>4, <1>5

\* The windows of a request have their entries.
LEMMA RequestKeys ==
  ASSUME StorageInv, NEW id \in DOMAIN data_requests
  PROVE  WindowsHaveKeys(keys, id, data_requests[id].resolution_windows)
BY DEF StorageInv, KeysMatchStakes, WindowsHaveKeys

\* A step that changes neither entries nor windows.
LEMMA SameWindowsKeys ==
  ASSUME StorageInv, UNCHANGED keys, DOMAIN data_requests' = DOMAIN data_requests,
         \A id \in DOMAIN data_requests :
           data_requests'[id].resolution_windows = data_requests[id].resolution_windows
  PROVE  KeysMatchStakes' /\ ThreeMaps'
BY DEF StorageInv, KeysMatchStakes, ThreeMaps

\* A new request has no window.
LEMMA NewRequestKeepsKeys ==
  ASSUME StorageInv, NEW token \in Tokens, NEW sender \in Requesters, NEW amount \in Payments,
         NEW payload \in Payloads, NewRequestCharged(token, sender, amount, payload)
  PROVE  KeysMatchStakes' /\ ThreeMaps'
<1> DEFINE dr == NewRequest(sender, StakeMultiplier(sender), Len(configs), CurrentConfig,
                            amount - CurrentConfig.validity_bond, payload)
<1>1. /\ data_requests' = Append(data_requests, dr)
      /\ UNCHANGED keys
  BY DEF NewRequestCharged, DrNew
<1>2. dr.resolution_windows = << >>
  BY DEF NewRequest
<1> HIDE DEF dr
<1>3. data_requests \in Seq(Request)
  BY DEF StorageInv, Inv, TypeOK
<1>4. /\ DOMAIN data_requests' = DOMAIN data_requests \union {Len(data_requests) + 1}
      /\ data_requests'[Len(data_requests) + 1] = dr
      /\ \A id \in DOMAIN data_requests : data_requests'[id] = data_requests[id]
  BY <1>1, <1>3
<1>5. KeysMatchStakes'
  BY <1>1, <1>2, <1>4 DEF StorageInv, KeysMatchStakes
<1>6. QED
  BY <1>1, <1>5 DEF StorageInv, ThreeMaps

\* dr_stake writes the entries of the stake.
LEMMA StakeKeepsKeys ==
  ASSUME StorageInv, NEW token \in Tokens, NEW sender \in Stakers, NEW amount \in StakeAmounts,
         NEW id \in DOMAIN data_requests, NEW outcome \in Outcomes,
         StakeCharged(token, sender, amount, id, outcome)
  PROVE  KeysMatchStakes' /\ ThreeMaps'
<1> DEFINE dr == data_requests[id]
           e  == Staked(dr, sender, outcome, amount, now)
<1>1. amount \in Nat
  BY OracleAssumption
<1>2. /\ ~dr.final_arbitrator_triggered
      /\ CanStakeOnOutcome(dr, outcome)
      /\ data_requests' = [data_requests EXCEPT ![id] = e]
  BY DEF StakeCharged, DrStake
<1>3. dr \in Request /\ Ladder(dr) /\ now \in Nat
  BY RequestFacts DEF StorageInv
<1>4. WindowsHaveKeys(keys, id, dr.resolution_windows)
  BY RequestKeys
<1>5. WindowsHaveKeys(WithKeys(keys, id, StakedRound(dr), sender, outcome), id,
                      e.resolution_windows)
  BY <1>1, <1>2, <1>3, <1>4, StakedKeys
<1>6. /\ keys' = WithKeys(keys, id, StakedRound(dr), sender, outcome)
      /\ OthersKeepKeys(keys, keys', id)
      /\ ThreeMaps'
  BY KeysWrittenFacts DEF StakeCharged
<1> HIDE DEF e
<1>7. QED
  BY <1>2, <1>5, <1>6, KeysReplaced

\* dr_unstake writes the entries of what it reduces.
LEMMA UnstakeKeepsKeys ==
  ASSUME StorageInv, NEW sender \in Stakers, NEW id \in DOMAIN data_requests,
         NEW round \in DOMAIN data_requests[id].resolution_windows,
         NEW outcome \in Outcomes, NEW amount \in StakeAmounts, NEW succeeds \in TransferResults,
         UnstakeSettled(sender, id, round, outcome, amount, succeeds)
  PROVE  KeysMatchStakes' /\ ThreeMaps'
<1> DEFINE dr == data_requests[id]
           e  == Unstaked(dr, sender, round, outcome, amount)
<1>1. data_requests' = [data_requests EXCEPT ![id] = e]
  BY DEF UnstakeSettled, DrUnstake
<1>2. dr \in Request
  BY RequestFacts DEF StorageInv
<1>3. WindowsHaveKeys(WithKeys(keys, id, round, sender, outcome), id, e.resolution_windows)
  BY <1>2, RequestKeys, UnstakedKeys
<1>4. /\ keys' = WithKeys(keys, id, round, sender, outcome)
      /\ OthersKeepKeys(keys, keys', id)
      /\ ThreeMaps'
  BY KeysWrittenFacts DEF UnstakeSettled
<1> HIDE DEF e
<1>5. QED
  BY <1>1, <1>3, <1>4, KeysReplaced

\* dr_claim removes the entries of what it pays.
LEMMA ClaimKeepsKeys ==
  ASSUME StorageInv, NEW account \in Stakers, NEW id \in DOMAIN data_requests,
         NEW stake_succeeds \in TransferResults, NEW payment_succeeds \in TransferResults,
         ClaimSettled(account, id, stake_succeeds, payment_succeeds)
  PROVE  KeysMatchStakes' /\ ThreeMaps'
<1> DEFINE dr == data_requests[id]
           e  == Claimed(dr, account)
<1>1. /\ ~IsActive(dr)
      /\ data_requests' = [data_requests EXCEPT ![id] = e]
  BY DEF ClaimSettled, DrClaim
<1>2. keys' = [keys EXCEPT !.stakes = @ \ {<< id, r, account, dr.finalized_outcome >> :
                                              r \in CorrectRounds(dr)}]
  BY DEF ClaimSettled, PaidStakesOf
<1>3. dr \in Request
  BY RequestFacts DEF StorageInv
<1>4. keys = [outcomes |-> keys.outcomes, users |-> keys.users, stakes |-> keys.stakes]
  BY DEF StorageInv, ThreeMaps
<1>5. /\ WindowsHaveKeys(keys', id, e.resolution_windows)
      /\ OthersKeepKeys(keys, keys', id)
  BY <1>1, <1>2, <1>3, <1>4, RequestKeys, ClaimedKeys
<1>6. ThreeMaps'
  BY <1>2, <1>4 DEF ThreeMaps
<1> HIDE DEF e
<1>7. QED
  BY <1>1, <1>5, <1>6, KeysReplaced

\* Finalising keeps windows and entries.
LEMMA FinalizeKeepsKeys ==
  ASSUME StorageInv, NEW id \in DOMAIN data_requests, NEW outcome, Decide(id, outcome),
         UNCHANGED keys
  PROVE  KeysMatchStakes' /\ ThreeMaps'
<1>1. data_requests \in Seq(Request) /\ data_requests[id] \in Request
  BY RequestFacts DEF StorageInv, Inv, TypeOK
<1>2. data_requests' = [data_requests EXCEPT ![id] = Finalized(data_requests[id], outcome)]
  BY DEF Decide
<1>3. Finalized(data_requests[id], outcome).resolution_windows
        = data_requests[id].resolution_windows
  BY <1>1 DEF Finalized, Request
<1>4. /\ DOMAIN data_requests' = DOMAIN data_requests
      /\ \A i \in DOMAIN data_requests :
           data_requests'[i].resolution_windows = data_requests[i].resolution_windows
  BY <1>1, <1>2, <1>3
<1>5. QED
  BY <1>4, SameWindowsKeys

\* A handler of a request that is settled keeps the entries in line.
LEMMA RequestKeepsKeys ==
  ASSUME StorageInv, NEW id \in DOMAIN data_requests, RequestSettledNext(id)
  PROVE  KeysMatchStakes' /\ ThreeMaps'
<1>1. CASE \E token \in Tokens, sender \in Stakers, amount \in StakeAmounts, outcome \in Outcomes :
             StakeCharged(token, sender, amount, id, outcome)
  BY <1>1, StakeKeepsKeys
<1>2. CASE \E sender \in Stakers, round \in DOMAIN data_requests[id].resolution_windows,
              outcome \in Outcomes, amount \in StakeAmounts, succeeds \in TransferResults :
             UnstakeSettled(sender, id, round, outcome, amount, succeeds)
  BY <1>2, UnstakeKeepsKeys
<1>3. CASE \E succeeds \in TransferResults : FinalizeUnsettled(id, succeeds)
  BY <1>3, FinalizeKeepsKeys DEF FinalizeUnsettled, DrFinalize, storageVars
<1>4. CASE \E caller \in Accounts, outcome \in Outcomes :
             ProviderFinalizeSettled(caller, id, outcome)
  BY <1>4, FinalizeKeepsKeys DEF ProviderFinalizeSettled, DrFinalizeByProvider
<1>5. CASE \E caller \in Accounts, outcome \in Outcomes, succeeds \in TransferResults :
             ArbitratorFinalizeSettled(caller, id, outcome, succeeds)
  BY <1>5, FinalizeKeepsKeys DEF ArbitratorFinalizeSettled, DrFinalArbitratorFinalize
<1>6. CASE \E account \in Stakers, stake_succeeds, payment_succeeds \in TransferResults :
             ClaimSettled(account, id, stake_succeeds, payment_succeeds)
  BY <1>6, ClaimKeepsKeys
<1>7. QED
  BY <1>1, <1>2, <1>3, <1>4, <1>5, <1>6 DEF RequestSettledNext

\* Every step keeps the entries in line with the stakes.
LEMMA StorageNextInv ==
  ASSUME StorageInv, [StorageNext]_allVars
  PROVE  StorageInv'
<1>1. Inv'
  BY StorageStep, NextInv DEF StorageInv
<1>2. KeysMatchStakes' /\ ThreeMaps'
  <2>1. CASE UNCHANGED << data_requests, keys >>
    BY <2>1 DEF StorageInv, KeysMatchStakes, ThreeMaps
  <2>2. CASE UNCHANGED allVars
    BY <2>1, <2>2 DEF allVars, vars, storageVars
  <2>3. CASE \E token \in Tokens, sender \in Requesters, amount \in Payments,
                payload \in Payloads : NewRequestCharged(token, sender, amount, payload)
    BY <2>3, NewRequestKeepsKeys
  <2>4. CASE \E id \in DOMAIN data_requests : RequestSettledNext(id)
    BY <2>4, RequestKeepsKeys
  <2>5. CASE \E account \in Stakers \union Requesters :
               \/ \E amount \in Deposits : StorageDeposit(account, amount)
               \/ \E amount \in Withdrawals : StorageWithdraw(account, amount)
    BY <2>1, <2>5 DEF StorageDeposit, StorageWithdraw, vars
  <2>6. CASE GovernanceSettled
    BY <2>1, <2>6 DEF GovernanceSettled, GovernanceNext, SetConfig, TogglePause, AddToWhitelist,
                      RemoveFromWhitelist
  <2>7. CASE Tick /\ UNCHANGED storageVars
    BY <2>1, <2>7 DEF Tick, storageVars
  <2>8. QED
    BY <2>2, <2>3, <2>4, <2>5, <2>6, <2>7 DEF StorageNext
<1>3. QED
  BY <1>1, <1>2 DEF StorageInv

\* It holds at the start.
LEMMA StorageStartInv == StorageInit => StorageInv
<1> SUFFICES ASSUME StorageInit
             PROVE  StorageInv
  OBVIOUS
<1>1. Inv
  BY InitInv DEF StorageInit
<1>2. data_requests = << >> /\ keys = [outcomes |-> {}, users |-> {}, stakes |-> {}]
  BY DEF StorageInit, Init
<1>3. QED
  BY <1>1, <1>2 DEF StorageInv, KeysMatchStakes, ThreeMaps

(***************************************************************************)
(* Every stake the contract counts has its entries in the LookupMaps, and  *)
(* no claim frees those of a stake that is not paid.                       *)
(***************************************************************************)
THEOREM KeysAlwaysMatch == StorageSpec => []KeysMatchStakes
<1>1. StorageInit => StorageInv
  BY StorageStartInv
<1>2. StorageInv /\ [StorageNext]_allVars => StorageInv'
  BY StorageNextInv
<1>3. StorageInv => KeysMatchStakes
  BY DEF StorageInv
<1>4. QED
  BY <1>1, <1>2, <1>3, PTL DEF StorageSpec

(***************************************************************************)
(* What is proved of the oracle holds of it with its storage accounts: the *)
(* ladder of every request, and the one answer to its requester.           *)
(***************************************************************************)
THEOREM StorageKeepsLadder == StorageSpec => [](DisputeLadder /\ AnsweredOnce)
<1>1. Inv => DisputeLadder /\ AnsweredOnce
  BY DEF Inv
<1>2. QED
  BY <1>1, StorageImplementsOracle, Invariance, PTL

---------------------------------------------------------------------------
(***************************************************************************)
(* The sums that storage is counted by                                     *)
(***************************************************************************)

WindowTable(ws)  == [r \in DOMAIN ws |-> WindowBytes(ws[r])]
WindowsBytes(ws) == Total(WindowTable(ws), DOMAIN ws)

\* A request without its windows.
HeadBytes(dr) == IF IsActive(dr) THEN Bytes.request ELSE Bytes.final[dr.finalized_outcome]

BytesTable(drs) == [id \in DOMAIN drs |-> RequestBytes(drs[id])]
BytesOfAll(drs) == Total(BytesTable(drs), DOMAIN drs)

\* What finalising a request made it larger, and smaller.
Extra(dr) == IF IsActive(dr) THEN 0 ELSE Overrun(Bytes.final[dr.finalized_outcome])
Saved(dr) == IF IsActive(dr) THEN 0 ELSE Trimmed(Bytes.final[dr.finalized_outcome])

ExtraTable(drs) == [id \in DOMAIN drs |-> Extra(drs[id])]
ExtraOfAll(drs) == Total(ExtraTable(drs), DOMAIN drs)
SavedTable(drs) == [id \in DOMAIN drs |-> Saved(drs[id])]
SavedOfAll(drs) == Total(SavedTable(drs), DOMAIN drs)

ListBytes(wl) == IF wl = NoWhitelist THEN 0 ELSE Bytes.requester * Cardinality(DOMAIN wl)

UsageOf(cs, wl, drs, ks) ==
  Bytes.config * Len(cs) + ListBytes(wl) + BytesOfAll(drs)
    + Bytes.outcome * Cardinality(ks.outcomes)
    + Bytes.user * Cardinality(ks.users)
    + Bytes.stake * Cardinality(ks.stakes)

AvailableTable(accs) == [a \in DOMAIN accs |-> accs[a].available]
AvailableOf(accs)    == Total(AvailableTable(accs), DOMAIN accs)

\* The sums of a state, before and after a step.
LEMMA UsageInState ==
  /\ Usage = UsageOf(configs, whitelist, data_requests, keys)
  /\ Usage' = UsageOf(configs', whitelist', data_requests', keys')
<1>1. Usage = UsageOf(configs, whitelist, data_requests, keys)
  BY DEF Usage, UsageOf, WhitelistBytes, ListBytes, BytesOfAll, BytesTable,
         Total, MapThenSumSet, MapThenFoldSet
<1>2. Usage' = UsageOf(configs', whitelist', data_requests', keys')
  BY DEF Usage, UsageOf, WhitelistBytes, ListBytes, BytesOfAll, BytesTable,
         Total, MapThenSumSet, MapThenFoldSet
<1>3. QED
  BY <1>1, <1>2

\* So is what is needed.
LEMMA NeededInState ==
  /\ Needed = Usage + AvailableOf(accounts)
  /\ Needed' = Usage' + AvailableOf(accounts')
<1>1. Needed = Usage + AvailableOf(accounts)
  BY DEF Needed, AvailableOf, AvailableTable, Total, MapThenSumSet, MapThenFoldSet
<1>2. Needed' = Usage' + AvailableOf(accounts')
  BY DEF Needed, AvailableOf, AvailableTable, Total, MapThenSumSet, MapThenFoldSet
<1>3. QED
  BY <1>1, <1>2

\* The bytes of a window.
LEMMA WindowBytesType ==
  ASSUME NEW w
  PROVE  WindowBytes(w) \in Nat
BY OracleStorageAssumption DEF WindowBytes

\* A list of windows.
AreWindows(ws) == ws \in Seq(Window)

\* The bytes of a list of windows.
LEMMA WindowsBytesType ==
  ASSUME NEW ws, AreWindows(ws)
  PROVE  /\ IsFiniteSet(DOMAIN ws)
         /\ \A r \in DOMAIN ws : WindowTable(ws)[r] \in Nat
         /\ WindowsBytes(ws) \in Nat
<1> DEFINE D == DOMAIN ws
           f == WindowTable(ws)
<1>1. D = 1 .. Len(ws) /\ Len(ws) \in Nat
  BY DEF AreWindows
<1>2. IsFiniteSet(D)
  <2>1. IsFiniteSet(1 .. Len(ws))
    BY <1>1, FS_Interval
  <2>2. QED
    BY <1>1, <2>1
<1>3. \A r \in D : f[r] \in Nat
  BY WindowBytesType DEF WindowTable
<1> HIDE DEF D, f
<1>4. Total(f, D) \in Nat
  BY <1>2, <1>3, TotalNat
<1>5. QED
  BY <1>2, <1>3, <1>4 DEF WindowsBytes, D, f

\* Windows that are added, or bonded, take more bytes.
LEMMA WindowsBytesGrow ==
  ASSUME NEW ws, AreWindows(ws), NEW vs, AreWindows(vs), DOMAIN ws \subseteq DOMAIN vs,
         \A r \in DOMAIN ws : IsBonded(ws[r]) => IsBonded(vs[r])
  PROVE  WindowsBytes(ws) <= WindowsBytes(vs)
<1> DEFINE D == DOMAIN ws
           E == DOMAIN vs
           f == WindowTable(ws)
           g == WindowTable(vs)
<1>1. /\ IsFiniteSet(D) /\ IsFiniteSet(E)
      /\ \A r \in D : f[r] \in Nat
      /\ \A r \in E : g[r] \in Nat
  BY WindowsBytesType
<1>2. D \in SUBSET E
  OBVIOUS
<1>3. \A r \in D : f[r] <= g[r]
  BY OracleStorageAssumption DEF WindowTable, WindowBytes
<1>4. WindowsBytes(ws) = Total(f, D) /\ WindowsBytes(vs) = Total(g, E)
  BY DEF WindowsBytes
<1> HIDE DEF D, E, f, g
<1>5. Summable(f, D) /\ Summable(g, E) /\ Summable(g, D)
  BY <1>1, <1>2 DEF Summable
<1>6. Total(f, D) <= Total(g, D)
  BY <1>3, <1>5, TotalAtMost
<1>7. /\ Total(g, E) = Total(g, D) + Total(g, E \ D)
      /\ Total(g, D) \in Int
  BY <1>2, <1>5, TotalSplit
<1>8. Total(g, E \ D) \in Nat /\ Total(f, D) \in Int
  <2>1. IsFiniteSet(E \ D) /\ \A r \in E \ D : g[r] \in Nat
    BY <1>1, FS_Subset, E \ D \in SUBSET E
  <2>2. QED
    BY <1>5, <2>1, TotalNat, TotalInt
<1>9. QED
  BY <1>4, <1>6, <1>7, <1>8

\* The bytes of a request, and what finalising it has made it larger or smaller.
LEMMA RequestBytesAre ==
  ASSUME NEW dr \in Request
  PROVE  /\ RequestBytes(dr) = HeadBytes(dr) + WindowsBytes(dr.resolution_windows)
         /\ AreWindows(dr.resolution_windows)
         /\ HeadBytes(dr) \in Nat
         /\ WindowsBytes(dr.resolution_windows) \in Nat
         /\ RequestBytes(dr) \in Nat
         /\ Extra(dr) \in Nat
         /\ Saved(dr) \in Nat
         /\ Extra(dr) <= RequestBytes(dr)
<1>1. RequestBytes(dr) = HeadBytes(dr) + WindowsBytes(dr.resolution_windows)
  BY DEF RequestBytes, HeadBytes, WindowsBytes, WindowTable, Total, MapThenSumSet, MapThenFoldSet
<1>2. AreWindows(dr.resolution_windows)
  BY DEF AreWindows, Request
<1>3. WindowsBytes(dr.resolution_windows) \in Nat
  BY <1>2, WindowsBytesType
<1>4. ~IsActive(dr) => Bytes.final[dr.finalized_outcome] \in Nat
  BY OracleStorageAssumption DEF Request, IsActive
<1>5. Bytes.request \in Nat
  BY OracleStorageAssumption
<1>6. /\ HeadBytes(dr) \in Nat /\ Extra(dr) \in Nat /\ Saved(dr) \in Nat
      /\ Extra(dr) <= HeadBytes(dr)
  BY <1>4, <1>5 DEF HeadBytes, Extra, Saved, Overrun, Trimmed
<1>7. QED
  BY <1>1, <1>2, <1>3, <1>6

\* The sums over all requests.
LEMMA StoredSumsType ==
  ASSUME NEW drs, AreRequests(drs)
  PROVE  /\ Summable(BytesTable(drs), DOMAIN drs)
         /\ Summable(ExtraTable(drs), DOMAIN drs)
         /\ Summable(SavedTable(drs), DOMAIN drs)
         /\ BytesOfAll(drs) \in Nat
         /\ ExtraOfAll(drs) \in Nat
         /\ SavedOfAll(drs) \in Nat
         /\ ExtraOfAll(drs) <= BytesOfAll(drs)
<1> DEFINE D == DOMAIN drs
           f == BytesTable(drs)
           g == ExtraTable(drs)
           h == SavedTable(drs)
<1>1. D = 1 .. Len(drs) /\ Len(drs) \in Nat /\ \A id \in D : drs[id] \in Request
  BY DEF AreRequests
<1>2. IsFiniteSet(D)
  <2>1. IsFiniteSet(1 .. Len(drs))
    BY <1>1, FS_Interval
  <2>2. QED
    BY <1>1, <2>1
<1>3. \A id \in D : f[id] \in Nat /\ g[id] \in Nat /\ h[id] \in Nat /\ g[id] <= f[id]
  BY <1>1, RequestBytesAre DEF BytesTable, ExtraTable, SavedTable
<1> HIDE DEF D, f, g, h
<1>4. Summable(f, D) /\ Summable(g, D) /\ Summable(h, D)
  BY <1>2, <1>3 DEF Summable
<1>5. /\ \A id \in D : f[id] \in Nat
      /\ \A id \in D : g[id] \in Nat
      /\ \A id \in D : h[id] \in Nat
      /\ \A id \in D : g[id] <= f[id]
  BY <1>3
<1>6. Total(f, D) \in Nat
  BY ONLY <1>2, <1>5, TotalNat
<1>7. Total(g, D) \in Nat
  BY ONLY <1>2, <1>5, TotalNat
<1>8. Total(h, D) \in Nat
  BY ONLY <1>2, <1>5, TotalNat
<1>9. Total(g, D) <= Total(f, D)
  BY ONLY <1>4, <1>5, TotalAtMost
<1>10. QED
  BY <1>4, <1>6, <1>7, <1>8, <1>9 DEF BytesOfAll, ExtraOfAll, SavedOfAll, D, f, g, h

\* One request takes the place of another.
LEMMA StoredSumsReplaced ==
  ASSUME NEW drs, AreRequests(drs), NEW id \in DOMAIN drs, NEW e \in Request
  PROVE  LET after == [drs EXCEPT ![id] = e]
         IN  /\ BytesOfAll(after) = BytesOfAll(drs) + RequestBytes(e) - RequestBytes(drs[id])
             /\ ExtraOfAll(after) = ExtraOfAll(drs) + Extra(e) - Extra(drs[id])
             /\ SavedOfAll(after) = SavedOfAll(drs) + Saved(e) - Saved(drs[id])
<1> DEFINE D      == DOMAIN drs
           after  == [drs EXCEPT ![id] = e]
           f1     == BytesTable(drs)
           f2     == BytesTable(after)
           g1     == ExtraTable(drs)
           g2     == ExtraTable(after)
           h1     == SavedTable(drs)
           h2     == SavedTable(after)
<1>1. DOMAIN after = D /\ after[id] = e /\ \A i \in D \ {id} : after[i] = drs[i]
  BY DEF AreRequests
<1>2. Summable(f1, D) /\ Summable(g1, D) /\ Summable(h1, D)
  BY StoredSumsType
<1>3. /\ f1[id] = RequestBytes(drs[id]) /\ f2[id] = RequestBytes(e)
      /\ g1[id] = Extra(drs[id]) /\ g2[id] = Extra(e)
      /\ h1[id] = Saved(drs[id]) /\ h2[id] = Saved(e)
  BY <1>1 DEF BytesTable, ExtraTable, SavedTable
<1>4. /\ \A i \in D \ {id} : f2[i] = f1[i]
      /\ \A i \in D \ {id} : g2[i] = g1[i]
      /\ \A i \in D \ {id} : h2[i] = h1[i]
  BY <1>1 DEF BytesTable, ExtraTable, SavedTable
<1>5. f2[id] \in Int /\ g2[id] \in Int /\ h2[id] \in Int /\ id \in D
  BY <1>3, RequestBytesAre
<1>6. /\ BytesOfAll(drs) = Total(f1, D) /\ BytesOfAll(after) = Total(f2, D)
      /\ ExtraOfAll(drs) = Total(g1, D) /\ ExtraOfAll(after) = Total(g2, D)
      /\ SavedOfAll(drs) = Total(h1, D) /\ SavedOfAll(after) = Total(h2, D)
  BY <1>1 DEF BytesOfAll, ExtraOfAll, SavedOfAll
<1> HIDE DEF D, f1, f2, g1, g2, h1, h2, after
<1>7. Total(f2, D) = Total(f1, D) + f2[id] - f1[id]
  BY ONLY <1>2, <1>4, <1>5, TotalChanged
<1>8. Total(g2, D) = Total(g1, D) + g2[id] - g1[id]
  BY ONLY <1>2, <1>4, <1>5, TotalChanged
<1>9. Total(h2, D) = Total(h1, D) + h2[id] - h1[id]
  BY ONLY <1>2, <1>4, <1>5, TotalChanged
<1>10. QED
  BY <1>3, <1>6, <1>7, <1>8, <1>9 DEF after

\* One request more.
LEMMA StoredSumsAppended ==
  ASSUME NEW drs, AreRequests(drs), NEW e \in Request
  PROVE  /\ BytesOfAll(Append(drs, e)) = BytesOfAll(drs) + RequestBytes(e)
         /\ ExtraOfAll(Append(drs, e)) = ExtraOfAll(drs) + Extra(e)
         /\ SavedOfAll(Append(drs, e)) = SavedOfAll(drs) + Saved(e)
<1> DEFINE D      == DOMAIN drs
           after  == Append(drs, e)
           last   == Len(drs) + 1
           f1     == BytesTable(drs)
           f2     == BytesTable(after)
           g1     == ExtraTable(drs)
           g2     == ExtraTable(after)
           h1     == SavedTable(drs)
           h2     == SavedTable(after)
<1>1. /\ DOMAIN after = D \union {last}
      /\ last \notin D
      /\ after[last] = e
      /\ \A i \in D : after[i] = drs[i]
  BY DEF AreRequests
<1>2. Summable(f1, D) /\ Summable(g1, D) /\ Summable(h1, D)
  BY StoredSumsType
<1>3. f2[last] = RequestBytes(e) /\ g2[last] = Extra(e) /\ h2[last] = Saved(e)
  BY <1>1 DEF BytesTable, ExtraTable, SavedTable
<1>4. /\ \A i \in D : f2[i] = f1[i]
      /\ \A i \in D : g2[i] = g1[i]
      /\ \A i \in D : h2[i] = h1[i]
  BY <1>1 DEF BytesTable, ExtraTable, SavedTable
<1>5. f2[last] \in Int /\ g2[last] \in Int /\ h2[last] \in Int /\ last \notin D
  BY <1>1, <1>3, RequestBytesAre
<1>6. /\ BytesOfAll(drs) = Total(f1, D) /\ BytesOfAll(after) = Total(f2, D \union {last})
      /\ ExtraOfAll(drs) = Total(g1, D) /\ ExtraOfAll(after) = Total(g2, D \union {last})
      /\ SavedOfAll(drs) = Total(h1, D) /\ SavedOfAll(after) = Total(h2, D \union {last})
  BY <1>1 DEF BytesOfAll, ExtraOfAll, SavedOfAll
<1> HIDE DEF D, f1, f2, g1, g2, h1, h2, last, after
<1>7. Total(f2, D \union {last}) = Total(f1, D) + f2[last]
  <2>1. Summable(f1, D)
    BY <1>2
  <2>2. last \notin D /\ f2[last] \in Int /\ \A i \in D : f2[i] = f1[i]
    BY <1>4, <1>5
  <2>3. QED
    BY ONLY <2>1, <2>2, TotalAdded
<1>8. Total(g2, D \union {last}) = Total(g1, D) + g2[last]
  <2>1. Summable(g1, D)
    BY <1>2
  <2>2. last \notin D /\ g2[last] \in Int /\ \A i \in D : g2[i] = g1[i]
    BY <1>4, <1>5
  <2>3. QED
    BY ONLY <2>1, <2>2, TotalAdded
<1>9. Total(h2, D \union {last}) = Total(h1, D) + h2[last]
  <2>1. Summable(h1, D)
    BY <1>2
  <2>2. last \notin D /\ h2[last] \in Int /\ \A i \in D : h2[i] = h1[i]
    BY <1>4, <1>5
  <2>3. QED
    BY ONLY <2>1, <2>2, TotalAdded
<1>10. QED
  BY <1>3, <1>6, <1>7, <1>8, <1>9 DEF after

FinalsOf(drs)     == {id \in DOMAIN drs : ~IsActive(drs[id])}
OverrunTable(drs) == [id \in DOMAIN drs |-> Overrun(Bytes.final[drs[id].finalized_outcome])]
TrimmedTable(drs) == [id \in DOMAIN drs |-> Trimmed(Bytes.final[drs[id].finalized_outcome])]

\* The sums over the final requests only, before and after a step.
LEMMA FinalsInState ==
  /\ AreRequests(data_requests) =>
       /\ SumOverFinal(Overrun) = ExtraOfAll(data_requests)
       /\ SumOverFinal(Trimmed) = SavedOfAll(data_requests)
  /\ AreRequests(data_requests') =>
       /\ SumOverFinal(Overrun)' = ExtraOfAll(data_requests')
       /\ SumOverFinal(Trimmed)' = SavedOfAll(data_requests')
<1>1. ASSUME NEW drs, AreRequests(drs)
      PROVE  /\ Total(OverrunTable(drs), FinalsOf(drs)) = ExtraOfAll(drs)
             /\ Total(TrimmedTable(drs), FinalsOf(drs)) = SavedOfAll(drs)
  <2> DEFINE D == DOMAIN drs
             R == FinalsOf(drs)
             o == OverrunTable(drs)
             t == TrimmedTable(drs)
             f == ExtraTable(drs)
             g == SavedTable(drs)
  <2>1. R \in SUBSET D /\ IsFiniteSet(D)
    BY <1>1, StoredSumsType DEF Summable, FinalsOf
  <2>2. \A id \in D : drs[id] \in Request
    BY <1>1 DEF AreRequests
  <2>3. /\ \A id \in R : f[id] \in Int /\ o[id] \in Int /\ o[id] = f[id]
        /\ \A id \in R : g[id] \in Int /\ t[id] \in Int /\ t[id] = g[id]
    BY <2>2, RequestBytesAre DEF ExtraTable, SavedTable, Extra, Saved, FinalsOf, OverrunTable, TrimmedTable
  <2>4. /\ \A id \in D \ R : f[id] = 0
        /\ \A id \in D \ R : g[id] = 0
    BY DEF ExtraTable, SavedTable, Extra, Saved, FinalsOf, OverrunTable, TrimmedTable
  <2>5. ExtraOfAll(drs) = Total(f, D) /\ SavedOfAll(drs) = Total(g, D)
    BY DEF ExtraOfAll, SavedOfAll
  <2> HIDE DEF D, R, o, t, f, g
  <2>6. Total(f, D) = Total(o, R)
    <3>1. \A id \in R : o[id] \in Int /\ f[id] = o[id]
      BY <2>3
    <3>2. QED
      BY ONLY <2>1, <2>4, <3>1, TotalPart
  <2>7. Total(g, D) = Total(t, R)
    <3>1. \A id \in R : t[id] \in Int /\ g[id] = t[id]
      BY <2>3
    <3>2. QED
      BY ONLY <2>1, <2>4, <3>1, TotalPart
  <2>8. QED
    BY <2>5, <2>6, <2>7 DEF R, o, t
<1>2. /\ SumOverFinal(Overrun) = Total(OverrunTable(data_requests), FinalsOf(data_requests))
      /\ SumOverFinal(Trimmed) = Total(TrimmedTable(data_requests), FinalsOf(data_requests))
  <2>1. SumOverFinal(Overrun) = Total(OverrunTable(data_requests), FinalsOf(data_requests))
    BY DEF SumOverFinal, FinalsOf, OverrunTable, Total, MapThenSumSet, MapThenFoldSet
  <2>2. SumOverFinal(Trimmed) = Total(TrimmedTable(data_requests), FinalsOf(data_requests))
    BY DEF SumOverFinal, FinalsOf, TrimmedTable, Total, MapThenSumSet, MapThenFoldSet
  <2>3. QED
    BY <2>1, <2>2
<1>3. /\ SumOverFinal(Overrun)' = Total(OverrunTable(data_requests'), FinalsOf(data_requests'))
      /\ SumOverFinal(Trimmed)' = Total(TrimmedTable(data_requests'), FinalsOf(data_requests'))
  <2>1. SumOverFinal(Overrun)' = Total(OverrunTable(data_requests'), FinalsOf(data_requests'))
    BY DEF SumOverFinal, FinalsOf, OverrunTable, Total, MapThenSumSet, MapThenFoldSet
  <2>2. SumOverFinal(Trimmed)' = Total(TrimmedTable(data_requests'), FinalsOf(data_requests'))
    BY DEF SumOverFinal, FinalsOf, TrimmedTable, Total, MapThenSumSet, MapThenFoldSet
  <2>3. QED
    BY <2>1, <2>2
<1>4. QED
  BY <1>1, <1>2, <1>3

---------------------------------------------------------------------------
(***************************************************************************)
(* Keys, lists and storage accounts                                        *)
(***************************************************************************)

\* The entries of the three maps: finitely many, of requests and their rounds.
KeysRight(ks) ==
  /\ IsFiniteSet(ks.outcomes) /\ ks.outcomes \subseteq Nat \X Nat \X Outcomes
  /\ IsFiniteSet(ks.users)    /\ ks.users \subseteq Nat \X Nat \X Stakers
  /\ IsFiniteSet(ks.stakes)   /\ ks.stakes \subseteq Nat \X Nat \X Stakers \X Outcomes

AccountsRight(accs) ==
  /\ \E S \in SUBSET (Stakers \union Requesters) : accs \in [S -> [total : Nat, available : Nat]]
  /\ \A a \in DOMAIN accs : accs[a].available <= accs[a].total

\* A whitelist has a size.
LEMMA ListBytesType ==
  ASSUME NEW wl, wl = NoWhitelist \/ IsWhitelist(wl)
  PROVE  ListBytes(wl) \in Nat
<1>1. CASE wl = NoWhitelist
  BY <1>1 DEF ListBytes
<1>2. CASE wl # NoWhitelist
  <2>1. DOMAIN wl \in SUBSET Requesters
    BY <1>2 DEF IsWhitelist
  <2>2. IsFiniteSet(DOMAIN wl)
    BY <2>1, OracleStorageAssumption, FS_Subset
  <2>3. Cardinality(DOMAIN wl) \in Nat
    BY <2>2, FS_CardinalityType
  <2>4. QED
    BY <1>2, <2>3, OracleStorageAssumption DEF ListBytes
<1>3. QED
  BY <1>1, <1>2

\* The parts of what is stored.
LEMMA UsageParts ==
  ASSUME NEW cs, cs \in Seq(OracleConfig), NEW wl, wl = NoWhitelist \/ IsWhitelist(wl),
         NEW ks, KeysRight(ks)
  PROVE  /\ Bytes.config * Len(cs) + ListBytes(wl) \in Nat
         /\ Bytes.outcome * Cardinality(ks.outcomes) \in Nat
         /\ Bytes.user * Cardinality(ks.users) \in Nat
         /\ Bytes.stake * Cardinality(ks.stakes) \in Nat
<1>1. Bytes.config * Len(cs) \in Nat
  BY OracleStorageAssumption
<1>2. ListBytes(wl) \in Nat
  BY ListBytesType
<1>3. /\ Cardinality(ks.outcomes) \in Nat
      /\ Cardinality(ks.users) \in Nat
      /\ Cardinality(ks.stakes) \in Nat
  BY FS_CardinalityType DEF KeysRight
<1>4. /\ Bytes.outcome * Cardinality(ks.outcomes) \in Nat
      /\ Bytes.user * Cardinality(ks.users) \in Nat
      /\ Bytes.stake * Cardinality(ks.stakes) \in Nat
  BY <1>3, OracleStorageAssumption
<1>5. QED
  BY <1>1, <1>2, <1>4

\* What is stored is a number of bytes, more than finalising added to it.
LEMMA UsageType ==
  ASSUME NEW cs, cs \in Seq(OracleConfig), NEW wl, wl = NoWhitelist \/ IsWhitelist(wl),
         NEW drs, AreRequests(drs), NEW ks, KeysRight(ks)
  PROVE  /\ UsageOf(cs, wl, drs, ks) \in Nat
         /\ ExtraOfAll(drs) <= UsageOf(cs, wl, drs, ks)
<1>1. /\ Bytes.config * Len(cs) + ListBytes(wl) \in Nat
      /\ Bytes.outcome * Cardinality(ks.outcomes) \in Nat
      /\ Bytes.user * Cardinality(ks.users) \in Nat
      /\ Bytes.stake * Cardinality(ks.stakes) \in Nat
  BY UsageParts
<1>2. BytesOfAll(drs) \in Nat /\ ExtraOfAll(drs) \in Nat /\ ExtraOfAll(drs) <= BytesOfAll(drs)
  BY StoredSumsType
<1>3. QED
  BY <1>1, <1>2 DEF UsageOf

\* A set of entries with one more is not cheaper.
LEMMA OneEntryMore ==
  ASSUME NEW S, IsFiniteSet(S), NEW x, NEW c \in Nat
  PROVE  /\ IsFiniteSet(S \union {x})
         /\ c * Cardinality(S) \in Nat
         /\ c * Cardinality(S \union {x}) \in Nat
         /\ c * Cardinality(S) <= c * Cardinality(S \union {x})
<1> DEFINE n == Cardinality(S)
           m == Cardinality(S \union {x})
<1>1. IsFiniteSet(S \union {x}) /\ n \in Nat /\ (m = n \/ m = n + 1)
  BY FS_AddElement, FS_CardinalityType
<1> HIDE DEF n, m
<1>2. c * n \in Nat /\ c * m \in Nat
  BY <1>1
<1>3. c * n <= c * m
  <2>1. CASE m = n
    BY <1>2, <2>1
  <2>2. CASE m = n + 1
    <3>1. c * m = c * n + c
      BY <1>1, <2>2
    <3>2. QED
      BY <1>2, <3>1
  <2>3. QED
    BY <1>1, <2>1, <2>2
<1>4. QED
  BY <1>1, <1>2, <1>3 DEF n, m

\* What stake and unstake write.
LEMMA WithKeysGrow ==
  ASSUME NEW ks, KeysRight(ks), NEW id \in Nat, NEW r \in Nat, NEW s \in Stakers,
         NEW o \in Outcomes
  PROVE  LET more == WithKeys(ks, id, r, s, o)
         IN  /\ KeysRight(more)
             /\ Bytes.outcome * Cardinality(ks.outcomes)
                  <= Bytes.outcome * Cardinality(more.outcomes)
             /\ Bytes.user * Cardinality(ks.users) <= Bytes.user * Cardinality(more.users)
             /\ Bytes.stake * Cardinality(ks.stakes) <= Bytes.stake * Cardinality(more.stakes)
<1> DEFINE more == WithKeys(ks, id, r, s, o)
           x == << id, r, o >>
           y == << id, r, s >>
           z == << id, r, s, o >>
<1>1. /\ more.outcomes = ks.outcomes \union {x}
      /\ more.users = ks.users \union {y}
      /\ more.stakes = ks.stakes \union {z}
  BY DEF WithKeys
<1>2. x \in Nat \X Nat \X Outcomes /\ y \in Nat \X Nat \X Stakers
      /\ z \in Nat \X Nat \X Stakers \X Outcomes
  OBVIOUS
<1>3. Bytes.outcome \in Nat /\ Bytes.user \in Nat /\ Bytes.stake \in Nat
  BY OracleStorageAssumption
<1> HIDE DEF more, x, y, z
<1>4. IsFiniteSet(ks.outcomes) /\ IsFiniteSet(ks.users) /\ IsFiniteSet(ks.stakes)
  BY DEF KeysRight
<1>5. /\ IsFiniteSet(more.outcomes)
      /\ Bytes.outcome * Cardinality(ks.outcomes) <= Bytes.outcome * Cardinality(more.outcomes)
  <2> DEFINE c == Bytes.outcome
             S == ks.outcomes
  <2>1. c \in Nat /\ IsFiniteSet(S) /\ more.outcomes = S \union {x}
    BY <1>1, <1>3, <1>4
  <2> HIDE DEF c, S
  <2>2. /\ IsFiniteSet(S \union {x})
        /\ c * Cardinality(S) \in Nat
        /\ c * Cardinality(S \union {x}) \in Nat
        /\ c * Cardinality(S) <= c * Cardinality(S \union {x})
    BY ONLY <2>1, OneEntryMore
  <2>3. QED
    BY <2>1, <2>2 DEF c, S
<1>6. /\ IsFiniteSet(more.users)
      /\ Bytes.user * Cardinality(ks.users) <= Bytes.user * Cardinality(more.users)
  <2> DEFINE c == Bytes.user
             S == ks.users
  <2>1. c \in Nat /\ IsFiniteSet(S) /\ more.users = S \union {y}
    BY <1>1, <1>3, <1>4
  <2> HIDE DEF c, S
  <2>2. /\ IsFiniteSet(S \union {y})
        /\ c * Cardinality(S) \in Nat
        /\ c * Cardinality(S \union {y}) \in Nat
        /\ c * Cardinality(S) <= c * Cardinality(S \union {y})
    BY ONLY <2>1, OneEntryMore
  <2>3. QED
    BY <2>1, <2>2 DEF c, S
<1>7. /\ IsFiniteSet(more.stakes)
      /\ Bytes.stake * Cardinality(ks.stakes) <= Bytes.stake * Cardinality(more.stakes)
  <2> DEFINE c == Bytes.stake
             S == ks.stakes
  <2>1. c \in Nat /\ IsFiniteSet(S) /\ more.stakes = S \union {z}
    BY <1>1, <1>3, <1>4
  <2> HIDE DEF c, S
  <2>2. /\ IsFiniteSet(S \union {z})
        /\ c * Cardinality(S) \in Nat
        /\ c * Cardinality(S \union {z}) \in Nat
        /\ c * Cardinality(S) <= c * Cardinality(S \union {z})
    BY ONLY <2>1, OneEntryMore
  <2>3. QED
    BY <2>1, <2>2 DEF c, S
<1>8. KeysRight(more)
  BY <1>1, <1>2, <1>5, <1>6, <1>7 DEF KeysRight
<1>9. QED
  BY <1>5, <1>6, <1>7, <1>8 DEF more

\* What is available to all accounts together.
LEMMA AvailableType ==
  ASSUME NEW accs, AccountsRight(accs)
  PROVE  /\ IsFiniteSet(DOMAIN accs)
         /\ DOMAIN accs \in SUBSET (Stakers \union Requesters)
         /\ \A a \in DOMAIN accs : /\ AvailableTable(accs)[a] \in Nat
                                   /\ accs[a] \in [total : Nat, available : Nat]
         /\ AvailableOf(accs) \in Nat
<1> DEFINE D == DOMAIN accs
           f == AvailableTable(accs)
<1>1. PICK S \in SUBSET (Stakers \union Requesters) : accs \in [S -> [total : Nat, available : Nat]]
  BY DEF AccountsRight
<1>2. D = S /\ \A a \in D : accs[a] \in [total : Nat, available : Nat]
  BY <1>1
<1>3. IsFiniteSet(D)
  <2>1. IsFiniteSet(Stakers \union Requesters)
    BY FiniteAssumption, OracleStorageAssumption, FS_Union
  <2>2. QED
    BY <1>2, <2>1, FS_Subset
<1>4. \A a \in D : f[a] \in Nat
  BY <1>2 DEF AvailableTable
<1>5. D \in SUBSET (Stakers \union Requesters)
  BY <1>2
<1> HIDE DEF D, f
<1>6. Total(f, D) \in Nat
  BY <1>3, <1>4, TotalNat
<1>7. QED
  BY <1>2, <1>3, <1>4, <1>5, <1>6 DEF AvailableOf, D, f

\* An account's record, which need not be there yet.
LEMMA StorageAccountType ==
  ASSUME AccountsRight(accounts), NEW a
  PROVE  /\ StorageAccount(a) \in [total : Nat, available : Nat]
         /\ StorageAccount(a).available \in Nat
         /\ StorageAccount(a).total \in Nat
         /\ StorageAccount(a).available <= StorageAccount(a).total
<1>1. CASE a \in DOMAIN accounts
  BY <1>1, AvailableType DEF StorageAccount, AccountsRight
<1>2. CASE a \notin DOMAIN accounts
  BY <1>2 DEF StorageAccount, NoAccount
<1>3. QED
  BY <1>1, <1>2

\* One account's record is written.
LEMMA AccountWritten ==
  ASSUME AccountsRight(accounts), NEW a \in Stakers \union Requesters,
         NEW account \in [total : Nat, available : Nat], account.available <= account.total,
         accounts' = WithAccount(a, account)
  PROVE  /\ AccountsRight(accounts')
         /\ AvailableOf(accounts')
              = AvailableOf(accounts) + account.available - StorageAccount(a).available
<1> DEFINE D == DOMAIN accounts
           f == AvailableTable(accounts)
           g == AvailableTable(accounts')
           A == [total : Nat, available : Nat]
<1>1. /\ DOMAIN accounts' = D \union {a}
      /\ accounts'[a] = account
      /\ \A x \in D \ {a} : accounts'[x] = accounts[x]
      /\ accounts' = [x \in D \union {a} |-> accounts'[x]]
  BY DEF WithAccount
<1>2. /\ IsFiniteSet(D) /\ D \in SUBSET (Stakers \union Requesters)
      /\ \A x \in D : f[x] \in Nat /\ accounts[x] \in A
  BY AvailableType
<1>3. AccountsRight(accounts')
  <2> DEFINE E == D \union {a}
  <2>1. E \in SUBSET (Stakers \union Requesters)
    BY <1>2
  <2> HIDE DEF A
  <2>2. \A x \in E : accounts'[x] \in A
    BY <1>1, <1>2 DEF A
  <2>3. accounts' \in [E -> A]
    BY <1>1, <2>2
  <2>4. \A x \in E : accounts'[x].available <= accounts'[x].total
    BY <1>1 DEF AccountsRight
  <2>5. QED
    BY <1>1, <2>1, <2>3, <2>4 DEF AccountsRight, A
<1>4. /\ g[a] = account.available /\ g[a] \in Int
      /\ \A x \in D \ {a} : g[x] = f[x]
  BY <1>1 DEF AvailableTable
<1>5. /\ AvailableOf(accounts) = Total(f, D)
      /\ AvailableOf(accounts') = Total(g, D \union {a})
  BY <1>1 DEF AvailableOf
<1>6. a \in D => StorageAccount(a).available = f[a]
  BY DEF StorageAccount, AvailableTable
<1>7. a \notin D => StorageAccount(a).available = 0
  BY DEF StorageAccount, NoAccount
<1> HIDE DEF D, f, g
<1>8. Summable(f, D)
  BY <1>2 DEF Summable
<1>9. CASE a \in D
  <2>1. Total(g, D) = Total(f, D) + g[a] - f[a]
    BY ONLY <1>4, <1>8, <1>9, TotalChanged
  <2>2. D \union {a} = D
    BY <1>9
  <2>3. Total(f, D) \in Int /\ f[a] \in Int
    BY <1>2, <1>8, <1>9, TotalInt
  <2>4. AvailableOf(accounts') = Total(f, D) + account.available - StorageAccount(a).available
    BY <1>4, <1>5, <1>6, <1>9, <2>1, <2>2
  <2>5. QED
    BY <1>3, <1>5, <2>4
<1>10. CASE a \notin D
  <2>1. a \notin D /\ g[a] \in Int /\ \A x \in D : g[x] = f[x]
    BY <1>4, <1>10
  <2>2. /\ Summable(g, D \union {a})
        /\ Total(g, D \union {a}) = Total(f, D) + g[a]
    <3>1. Summable(f, D)
      BY <1>8
    <3>2. QED
      BY ONLY <2>1, <3>1, TotalAdded
  <2>3. Total(f, D) \in Int /\ g[a] \in Int
    BY <1>4, <1>8, TotalInt
  <2>4. AvailableOf(accounts') = Total(f, D) + account.available - StorageAccount(a).available
    BY <1>4, <1>5, <1>7, <1>10, <2>2, <2>3
  <2>5. QED
    BY <1>3, <1>5, <2>4
<1>11. QED
  BY <1>9, <1>10

---------------------------------------------------------------------------
(***************************************************************************)
(* What handlers settle                                                    *)
(***************************************************************************)

ChargingInv ==
  /\ StorageInv
  /\ AccountsRight(accounts)
  /\ KeysRight(keys)
  /\ near \in Nat
  /\ StorageBacked
  /\ NoStorageStranded

\* The sums of a state.
LEMMA SumsBefore ==
  ASSUME Inv, AccountsRight(accounts), KeysRight(keys)
  PROVE  /\ AreRequests(data_requests)
         /\ Usage \in Nat
         /\ AvailableOf(accounts) \in Nat
         /\ Needed = Usage + AvailableOf(accounts)
         /\ ExtraOfAll(data_requests) \in Nat
         /\ SavedOfAll(data_requests) \in Nat
         /\ ExtraOfAll(data_requests) <= Usage
         /\ SumOverFinal(Overrun) = ExtraOfAll(data_requests)
         /\ SumOverFinal(Trimmed) = SavedOfAll(data_requests)
<1>1. /\ AreRequests(data_requests)
      /\ configs \in Seq(OracleConfig)
      /\ whitelist = NoWhitelist \/ IsWhitelist(whitelist)
  BY DEF Inv, TypeOK, AreRequests
<1>2. /\ Usage \in Nat
      /\ ExtraOfAll(data_requests) <= Usage
  BY <1>1, UsageType, UsageInState
<1>3. ExtraOfAll(data_requests) \in Nat /\ SavedOfAll(data_requests) \in Nat
  BY <1>1, StoredSumsType
<1>4. AvailableOf(accounts) \in Nat /\ Needed = Usage + AvailableOf(accounts)
  BY AvailableType, NeededInState
<1>5. QED
  BY <1>1, <1>2, <1>3, <1>4, FinalsInState

\* The sums of the state after a step.
LEMMA SumsAfter ==
  ASSUME Inv', AccountsRight(accounts'), KeysRight(keys')
  PROVE  /\ AreRequests(data_requests')
         /\ Usage' \in Nat
         /\ AvailableOf(accounts') \in Nat
         /\ Needed' = Usage' + AvailableOf(accounts')
         /\ ExtraOfAll(data_requests') \in Nat
         /\ SavedOfAll(data_requests') \in Nat
         /\ ExtraOfAll(data_requests') <= Usage'
         /\ SumOverFinal(Overrun)' = ExtraOfAll(data_requests')
         /\ SumOverFinal(Trimmed)' = SavedOfAll(data_requests')
<1>1. /\ AreRequests(data_requests')
      /\ configs' \in Seq(OracleConfig)
      /\ whitelist' = NoWhitelist \/ IsWhitelist(whitelist')
  BY DEF Inv, TypeOK, AreRequests, IsWhitelist
<1>2. /\ Usage' \in Nat
      /\ ExtraOfAll(data_requests') <= Usage'
  BY <1>1, UsageType, UsageInState
<1>3. ExtraOfAll(data_requests') \in Nat /\ SavedOfAll(data_requests') \in Nat
  BY <1>1, StoredSumsType
<1>4. AvailableOf(accounts') \in Nat /\ Needed' = Usage' + AvailableOf(accounts')
  BY AvailableType, NeededInState
<1>5. QED
  BY <1>1, <1>2, <1>3, <1>4, FinalsInState

(***************************************************************************)
(* What a step has to show: what the contract holds follows what it needs, *)
(* but for what requests gain or lose when they are finalised.             *)
(***************************************************************************)
Pays ==
  /\ AccountsRight(accounts')
  /\ KeysRight(keys')
  /\ near' \in Int
  /\ near + ExtraOfAll(data_requests) + Needed' <= near' + ExtraOfAll(data_requests') + Needed
  /\ near' + SavedOfAll(data_requests) + Needed <= near + SavedOfAll(data_requests') + Needed'

\* That keeps the invariant.
LEMMA PaysKeeps ==
  ASSUME ChargingInv, StorageInv', Pays
  PROVE  ChargingInv'
<1>1. /\ Usage \in Nat /\ AvailableOf(accounts) \in Nat
      /\ Needed = Usage + AvailableOf(accounts)
      /\ ExtraOfAll(data_requests) \in Nat /\ SavedOfAll(data_requests) \in Nat
      /\ SumOverFinal(Overrun) = ExtraOfAll(data_requests)
      /\ SumOverFinal(Trimmed) = SavedOfAll(data_requests)
  BY SumsBefore DEF ChargingInv, StorageInv
<1>2. /\ Usage' \in Nat /\ AvailableOf(accounts') \in Nat
      /\ Needed' = Usage' + AvailableOf(accounts')
      /\ ExtraOfAll(data_requests') \in Nat /\ SavedOfAll(data_requests') \in Nat
      /\ ExtraOfAll(data_requests') <= Usage'
      /\ SumOverFinal(Overrun)' = ExtraOfAll(data_requests')
      /\ SumOverFinal(Trimmed)' = SavedOfAll(data_requests')
  BY SumsAfter DEF StorageInv, Pays
<1>3. /\ near \in Nat /\ near' \in Int
      /\ near + ExtraOfAll(data_requests) >= Needed
      /\ near <= Needed + SavedOfAll(data_requests)
  BY <1>1 DEF ChargingInv, Pays, StorageBacked, NoStorageStranded
<1>4. /\ near + ExtraOfAll(data_requests) + Needed' <= near' + ExtraOfAll(data_requests') + Needed
      /\ near' + SavedOfAll(data_requests) + Needed <= near + SavedOfAll(data_requests') + Needed'
  BY DEF Pays
<1>5. near' + ExtraOfAll(data_requests') >= Needed'
  BY ONLY <1>1, <1>2, <1>3, <1>4
<1>6. near' <= Needed' + SavedOfAll(data_requests')
  BY ONLY <1>1, <1>2, <1>3, <1>4
<1>7. near' \in Nat
  BY ONLY <1>2, <1>3, <1>5
<1>8. StorageBacked' /\ NoStorageStranded'
  BY <1>2, <1>5, <1>6 DEF StorageBacked, NoStorageStranded
<1>9. QED
  BY <1>7, <1>8 DEF ChargingInv, Pays

\* No request that is final becomes smaller or larger.
FinalsKept ==
  /\ ExtraOfAll(data_requests) <= ExtraOfAll(data_requests')
  /\ SavedOfAll(data_requests) <= SavedOfAll(data_requests')

\* A handler that settles with its caller pays.
LEMMA RefundPays ==
  ASSUME ChargingInv, Inv', KeysRight(keys'), FinalsKept, RefundStorage
  PROVE  Pays
<1>1. AccountsRight(accounts) /\ accounts' = accounts
  BY DEF ChargingInv, RefundStorage
<1>2. /\ Usage \in Nat /\ AvailableOf(accounts) \in Nat
      /\ Needed = Usage + AvailableOf(accounts)
      /\ ExtraOfAll(data_requests) \in Nat /\ SavedOfAll(data_requests) \in Nat
  BY SumsBefore DEF ChargingInv, StorageInv
<1>3. /\ Usage' \in Nat
      /\ Needed' = Usage' + AvailableOf(accounts')
      /\ ExtraOfAll(data_requests') \in Nat /\ SavedOfAll(data_requests') \in Nat
  BY <1>1, SumsAfter
<1>4. near \in Nat /\ near' = near + (Usage' - Usage)
  BY DEF ChargingInv, RefundStorage, Settled, Growth
<1>5. AvailableOf(accounts') = AvailableOf(accounts)
  BY <1>1
<1>6. /\ near' \in Int
      /\ near + ExtraOfAll(data_requests) + Needed' <= near' + ExtraOfAll(data_requests') + Needed
      /\ near' + SavedOfAll(data_requests) + Needed <= near + SavedOfAll(data_requests') + Needed'
  BY <1>2, <1>3, <1>4, <1>5 DEF FinalsKept
<1>7. QED
  BY <1>1, <1>6 DEF Pays

\* So does one that is charged to its sender, if it frees nothing.
LEMMA UsePays ==
  ASSUME ChargingInv, Inv', KeysRight(keys'), FinalsKept, Usage <= Usage',
         NEW sender \in Stakers \union Requesters, UseStorage(sender)
  PROVE  Pays
<1> DEFINE held    == StorageAccount(sender)
           account == Charged(held, Growth)
<1>1. /\ held \in [total : Nat, available : Nat]
      /\ held.available \in Nat /\ held.total \in Nat /\ held.available <= held.total
  BY StorageAccountType DEF ChargingInv
<1>2. /\ Usage \in Nat /\ AvailableOf(accounts) \in Nat
      /\ Needed = Usage + AvailableOf(accounts)
      /\ ExtraOfAll(data_requests) \in Nat /\ SavedOfAll(data_requests) \in Nat
  BY SumsBefore DEF ChargingInv, StorageInv
<1>3. Usage' \in Nat
  <2>1. /\ configs' \in Seq(OracleConfig)
        /\ whitelist' = NoWhitelist \/ IsWhitelist(whitelist')
        /\ AreRequests(data_requests')
    BY DEF Inv, TypeOK, AreRequests, IsWhitelist
  <2>2. QED
    BY <2>1, UsageType, UsageInState
<1>4. Growth \in Nat /\ Growth <= held.available /\ Growth = Usage' - Usage
  <2>1. Growth <= held.available
    BY DEF UseStorage
  <2>2. Growth = Usage' - Usage
    BY DEF Growth
  <2>3. Usage' - Usage \in Nat
    <3>1. Usage <= Usage' /\ Usage \in Nat /\ Usage' \in Nat
      BY <1>2, <1>3
    <3>2. \A m, n \in Nat : m <= n => n - m \in Nat
      OBVIOUS
    <3>3. QED
      BY ONLY <3>1, <3>2, Zenon
  <2>4. Growth \in Nat
    BY ONLY <2>2, <2>3
  <2>5. QED
    BY ONLY <2>1, <2>2, <2>4
<1>5. /\ account \in [total : Nat, available : Nat]
      /\ account.available = held.available - Growth
      /\ account.available <= account.total
  <2> HIDE DEF held
  <2>1. account = [held EXCEPT !.available = held.available - Growth]
    BY DEF Charged
  <2>2. held.available - Growth \in Nat /\ held.available - Growth <= held.total
    BY <1>1, <1>4
  <2> HIDE DEF account
  <2>3. QED
    BY <1>1, <2>1, <2>2
<1>6. accounts' = WithAccount(sender, account) /\ near' = near
  BY DEF UseStorage
<1> HIDE DEF account
<1>7. /\ AccountsRight(accounts')
      /\ AvailableOf(accounts') = AvailableOf(accounts) + account.available - held.available
  BY <1>5, <1>6, AccountWritten DEF ChargingInv
<1>8. /\ Needed' = Usage' + AvailableOf(accounts')
      /\ AvailableOf(accounts') \in Nat
      /\ ExtraOfAll(data_requests') \in Nat /\ SavedOfAll(data_requests') \in Nat
  BY <1>7, SumsAfter
<1>9. Needed' = Needed
  BY <1>1, <1>2, <1>3, <1>4, <1>5, <1>7, <1>8
<1>10. near \in Nat
  BY DEF ChargingInv
<1>11. /\ near' \in Int
       /\ near + ExtraOfAll(data_requests) + Needed' <= near' + ExtraOfAll(data_requests') + Needed
       /\ near' + SavedOfAll(data_requests) + Needed <= near + SavedOfAll(data_requests') + Needed'
  BY <1>2, <1>6, <1>8, <1>9, <1>10 DEF FinalsKept
<1>12. QED
  BY <1>7, <1>11 DEF Pays

---------------------------------------------------------------------------
(***************************************************************************)
(* Every handler pays for what it stores                                   *)
(***************************************************************************)

\* A handler that does not decide a request keeps the sums over final ones.
LEMMA FinalsReplaced ==
  ASSUME ChargingInv, NEW id \in DOMAIN data_requests, NEW e \in Request,
         data_requests' = [data_requests EXCEPT ![id] = e],
         \/ IsActive(data_requests[id])
         \/ e.finalized_outcome = data_requests[id].finalized_outcome
  PROVE  FinalsKept
<1> DEFINE dr == data_requests[id]
<1>1. AreRequests(data_requests) /\ dr \in Request
  BY RequestFacts DEF ChargingInv, StorageInv, Inv, TypeOK, AreRequests
<1>2. /\ ExtraOfAll(data_requests') = ExtraOfAll(data_requests) + Extra(e) - Extra(dr)
      /\ SavedOfAll(data_requests') = SavedOfAll(data_requests) + Saved(e) - Saved(dr)
  BY <1>1, StoredSumsReplaced
<1>3. /\ ExtraOfAll(data_requests) \in Nat /\ SavedOfAll(data_requests) \in Nat
      /\ Extra(e) \in Nat /\ Saved(e) \in Nat /\ Extra(dr) \in Nat /\ Saved(dr) \in Nat
  BY <1>1, StoredSumsType, RequestBytesAre
<1>4. Extra(dr) <= Extra(e) /\ Saved(dr) <= Saved(e)
  <2>1. CASE IsActive(dr)
    <3>1. Extra(dr) = 0 /\ Saved(dr) = 0
      BY <2>1 DEF Extra, Saved
    <3>2. QED
      BY <1>3, <3>1
  <2>2. CASE e.finalized_outcome = dr.finalized_outcome
    <3>1. Extra(dr) = Extra(e) /\ Saved(dr) = Saved(e)
      BY <2>2 DEF Extra, Saved, IsActive
    <3>2. QED
      BY <1>3, <3>1
  <2>3. QED
    BY <2>1, <2>2
<1>5. QED
  BY <1>2, <1>3, <1>4 DEF FinalsKept

\* So does one that leaves the requests alone.
LEMMA FinalsSame ==
  ASSUME ChargingInv, UNCHANGED data_requests
  PROVE  FinalsKept
<1>1. ExtraOfAll(data_requests) \in Nat /\ SavedOfAll(data_requests) \in Nat
  BY SumsBefore DEF ChargingInv, StorageInv
<1>2. QED
  BY <1>1 DEF FinalsKept

\* A new request is charged to its requester.
LEMMA NewRequestPays ==
  ASSUME ChargingInv, Inv', NEW token \in Tokens, NEW sender \in Requesters,
         NEW amount \in Payments, NEW payload \in Payloads,
         NewRequestCharged(token, sender, amount, payload)
  PROVE  Pays
<1> DEFINE dr == NewRequest(sender, StakeMultiplier(sender), Len(configs), CurrentConfig,
                            amount - CurrentConfig.validity_bond, payload)
<1>1. /\ data_requests' = Append(data_requests, dr)
      /\ UNCHANGED << configs, whitelist, keys >>
      /\ UseStorage(sender)
  BY DEF NewRequestCharged, DrNew
<1>2. AreRequests(data_requests) /\ AreRequests(data_requests')
  BY DEF ChargingInv, StorageInv, Inv, TypeOK, AreRequests
<1> HIDE DEF dr
<1>3. dr \in Request
  <2>1. /\ Len(data_requests) + 1 \in DOMAIN data_requests'
        /\ data_requests'[Len(data_requests) + 1] = dr
    BY <1>1, <1>2 DEF AreRequests
  <2>2. QED
    BY <1>2, <2>1 DEF AreRequests
<1>4. RequestBytes(dr) \in Nat /\ Extra(dr) \in Nat /\ Saved(dr) \in Nat
  BY <1>3, RequestBytesAre
<1>5. /\ BytesOfAll(data_requests') = BytesOfAll(data_requests) + RequestBytes(dr)
      /\ ExtraOfAll(data_requests') = ExtraOfAll(data_requests) + Extra(dr)
      /\ SavedOfAll(data_requests') = SavedOfAll(data_requests) + Saved(dr)
  BY <1>1, <1>2, <1>3, StoredSumsAppended
<1>6. /\ BytesOfAll(data_requests) \in Nat
      /\ ExtraOfAll(data_requests) \in Nat
      /\ SavedOfAll(data_requests) \in Nat
  BY <1>2, StoredSumsType
<1>7. FinalsKept
  BY <1>4, <1>5, <1>6 DEF FinalsKept
<1>8. KeysRight(keys')
  BY <1>1 DEF ChargingInv
<1>9. Usage <= Usage'
  <2> DEFINE a == Bytes.config * Len(configs) + ListBytes(whitelist)
             b == Bytes.outcome * Cardinality(keys.outcomes)
             c == Bytes.user * Cardinality(keys.users)
             d == Bytes.stake * Cardinality(keys.stakes)
  <2>1. /\ Usage = a + BytesOfAll(data_requests) + b + c + d
        /\ Usage' = a + BytesOfAll(data_requests') + b + c + d
    BY <1>1, UsageInState DEF UsageOf
  <2>2. a \in Nat /\ b \in Nat /\ c \in Nat /\ d \in Nat
    BY UsageParts DEF ChargingInv, StorageInv, Inv, TypeOK
  <2> HIDE DEF a, b, c, d
  <2>3. QED
    BY <1>4, <1>5, <1>6, <2>1, <2>2
<1>10. QED
  BY <1>1, <1>7, <1>8, <1>9, UsePays

\* What a stake leaves of the windows there are: the one staked in was not bonded.
LEMMA StakedGrows ==
  ASSUME NEW dr \in Request, NEW s \in Stakers, NEW o \in Outcomes, NEW amount \in Nat,
         NEW t \in Nat, Ladder(dr), ~dr.final_arbitrator_triggered, CanStakeOnOutcome(dr, o)
  PROVE  LET e == Staked(dr, s, o, amount, t)
         IN  /\ DOMAIN dr.resolution_windows \subseteq DOMAIN e.resolution_windows
             /\ \A r \in DOMAIN dr.resolution_windows :
                  IsBonded(dr.resolution_windows[r]) => IsBonded(e.resolution_windows[r])
             /\ e.finalized_outcome = dr.finalized_outcome
<1> DEFINE w       == StakedWindow(dr, s, o, amount, t)
           windows == WithStakedWindow(dr, w)
           n       == StakedRound(dr)
           next    == NextWindow(dr, w, Len(windows), t)
           e       == Staked(dr, s, o, amount, t)
<1>1. /\ windows \in Seq(Window)
      /\ Len(windows) = n
      /\ n \in Nat /\ n > 0
      /\ \A r \in 1 .. n : r < n => windows[r] = dr.resolution_windows[r]
  <2>1. WindowsAfterStake(dr, w, windows, o, t)
    BY StakedWindows
  <2> HIDE DEF w, windows
  <2>2. QED
    BY <2>1 DEF WindowsAfterStake, StakedRound
<1>2. e.resolution_windows \in {windows, Append(windows, next)}
      /\ e.finalized_outcome = dr.finalized_outcome
  BY DEF Staked, Request
<1>3. ASSUME NEW r \in DOMAIN dr.resolution_windows
      PROVE  /\ r \in 1 .. n
             /\ IsBonded(dr.resolution_windows[r]) => r < n
  <2>1. dr.resolution_windows # << >> /\ DOMAIN dr.resolution_windows = 1 .. Rounds(dr)
        /\ Rounds(dr) \in Nat
    BY RequestFields
  <2>2. n = Rounds(dr) /\ Rounds(dr) > 0
    BY <2>1 DEF StakedRound
  <2>3. ~IsBonded(LastWindow(dr))
    BY <2>2 DEF Ladder, ArbitratorEndsLadder
  <2>4. QED
    BY <2>1, <2>2, <2>3 DEF LastWindow
<1> HIDE DEF w, windows, n, next, e
<1>4. /\ DOMAIN windows = 1 .. n
      /\ DOMAIN Append(windows, next) = 1 .. n + 1
      /\ \A r \in 1 .. n : Append(windows, next)[r] = windows[r]
  BY <1>1
<1>5. \A r \in 1 .. n : r \in DOMAIN e.resolution_windows /\ e.resolution_windows[r] = windows[r]
  BY <1>1, <1>2, <1>4
<1>6. QED
  BY <1>1, <1>2, <1>3, <1>5 DEF e

\* A request of the same outcome with more bytes makes the whole larger.
LEMMA UsageGrows ==
  ASSUME ChargingInv, NEW id \in DOMAIN data_requests, NEW e \in Request,
         data_requests' = [data_requests EXCEPT ![id] = e],
         RequestBytes(data_requests[id]) <= RequestBytes(e),
         NEW r \in Nat, NEW s \in Stakers, NEW o \in Outcomes,
         keys' = WithKeys(keys, id, r, s, o),
         UNCHANGED << configs, whitelist >>
  PROVE  Usage <= Usage' /\ KeysRight(keys')
<1> DEFINE a == Bytes.config * Len(configs) + ListBytes(whitelist)
           b(ks) == Bytes.outcome * Cardinality(ks.outcomes)
           c(ks) == Bytes.user * Cardinality(ks.users)
           d(ks) == Bytes.stake * Cardinality(ks.stakes)
           dr == data_requests[id]
<1>1. AreRequests(data_requests) /\ dr \in Request /\ id \in Nat
  BY RequestFacts DEF ChargingInv, StorageInv, Inv, TypeOK, AreRequests
<1>2. /\ BytesOfAll(data_requests') = BytesOfAll(data_requests) + RequestBytes(e) - RequestBytes(dr)
      /\ BytesOfAll(data_requests) \in Nat
      /\ RequestBytes(e) \in Nat /\ RequestBytes(dr) \in Nat
  BY <1>1, StoredSumsReplaced, StoredSumsType, RequestBytesAre
<1>3. /\ KeysRight(keys')
      /\ b(keys) <= b(keys') /\ c(keys) <= c(keys') /\ d(keys) <= d(keys')
  BY <1>1, WithKeysGrow DEF ChargingInv
<1>4. a \in Nat /\ b(keys) \in Nat /\ c(keys) \in Nat /\ d(keys) \in Nat
  BY UsageParts DEF ChargingInv, StorageInv, Inv, TypeOK
<1>5. b(keys') \in Nat /\ c(keys') \in Nat /\ d(keys') \in Nat
  BY <1>3, UsageParts DEF ChargingInv, StorageInv, Inv, TypeOK
<1>6. /\ Usage = a + BytesOfAll(data_requests) + b(keys) + c(keys) + d(keys)
      /\ Usage' = a + BytesOfAll(data_requests') + b(keys') + c(keys') + d(keys')
  BY UsageInState DEF UsageOf
<1> HIDE DEF a, b, c, d, dr
<1>7. BytesOfAll(data_requests) <= BytesOfAll(data_requests') /\ BytesOfAll(data_requests') \in Nat
  BY <1>2 DEF dr
<1>8. Usage <= Usage'
  BY <1>2, <1>3, <1>4, <1>5, <1>6, <1>7
<1>9. QED
  BY <1>3, <1>8

\* A stake is charged to its sender.
LEMMA StakePays ==
  ASSUME ChargingInv, Inv', NEW token \in Tokens, NEW sender \in Stakers,
         NEW amount \in StakeAmounts, NEW id \in DOMAIN data_requests, NEW outcome \in Outcomes,
         StakeCharged(token, sender, amount, id, outcome)
  PROVE  Pays
<1> DEFINE dr == data_requests[id]
           e  == Staked(dr, sender, outcome, amount, now)
<1>1. /\ ~dr.final_arbitrator_triggered
      /\ CanStakeOnOutcome(dr, outcome)
      /\ data_requests' = [data_requests EXCEPT ![id] = e]
      /\ UNCHANGED << configs, whitelist >>
      /\ KeysWritten(id, StakedRound(dr), sender, outcome)
      /\ UseStorage(sender)
  BY DEF StakeCharged, DrStake
<1>2. dr \in Request /\ Ladder(dr) /\ now \in Nat /\ amount \in Nat
  BY RequestFacts, OracleAssumption DEF ChargingInv, StorageInv
<1>3. /\ DOMAIN dr.resolution_windows \subseteq DOMAIN e.resolution_windows
      /\ \A r \in DOMAIN dr.resolution_windows :
           IsBonded(dr.resolution_windows[r]) => IsBonded(e.resolution_windows[r])
      /\ e.finalized_outcome = dr.finalized_outcome
  BY <1>1, <1>2, StakedGrows
<1>4. StakedRound(dr) \in Nat
  BY <1>2, RequestFields DEF StakedRound
<1> HIDE DEF e
<1>5. e \in Request
  <2>1. /\ data_requests \in Seq(Request) /\ data_requests' \in Seq(Request)
    BY DEF ChargingInv, StorageInv, Inv, TypeOK
  <2>2. id \in DOMAIN data_requests' /\ data_requests'[id] = e
    BY <1>1, <2>1
  <2>3. QED
    BY <2>1, <2>2
<1>6. RequestBytes(dr) <= RequestBytes(e)
  <2>1. HeadBytes(e) = HeadBytes(dr)
    BY <1>3 DEF HeadBytes, IsActive
  <2>2. WindowsBytes(dr.resolution_windows) <= WindowsBytes(e.resolution_windows)
    BY <1>2, <1>3, <1>5, WindowsBytesGrow, RequestBytesAre
  <2>3. QED
    BY <1>2, <1>5, <2>1, <2>2, RequestBytesAre
<1>7. keys' = WithKeys(keys, id, StakedRound(dr), sender, outcome)
  BY <1>1, KeysWrittenFacts
<1>8. Usage <= Usage' /\ KeysRight(keys')
  BY <1>1, <1>4, <1>5, <1>6, <1>7, UsageGrows
<1>9. FinalsKept
  BY <1>1, <1>3, <1>5, FinalsReplaced
<1>10. QED
  BY <1>1, <1>8, <1>9, UsePays

\* The request that a step puts in the place of one is well-formed.
LEMMA ReplacedRequest ==
  ASSUME Inv, Inv', NEW id \in DOMAIN data_requests, NEW e,
         data_requests' = [data_requests EXCEPT ![id] = e]
  PROVE  e \in Request
<1>1. data_requests \in Seq(Request) /\ data_requests' \in Seq(Request)
  BY DEF Inv, TypeOK
<1>2. id \in DOMAIN data_requests' /\ data_requests'[id] = e
  BY <1>1
<1>3. QED
  BY <1>1, <1>2

\* A withdrawal settles with its sender.
LEMMA UnstakePays ==
  ASSUME ChargingInv, Inv', NEW sender \in Stakers, NEW id \in DOMAIN data_requests,
         NEW round \in DOMAIN data_requests[id].resolution_windows,
         NEW outcome \in Outcomes, NEW amount \in StakeAmounts, NEW succeeds \in TransferResults,
         UnstakeSettled(sender, id, round, outcome, amount, succeeds)
  PROVE  Pays
<1> DEFINE dr == data_requests[id]
           e  == Unstaked(dr, sender, round, outcome, amount)
<1>1. /\ data_requests' = [data_requests EXCEPT ![id] = e]
      /\ KeysWritten(id, round, sender, outcome)
      /\ RefundStorage
  BY DEF UnstakeSettled, DrUnstake
<1>2. dr \in Request /\ id \in Nat /\ round \in Nat
  <2>1. dr \in Request
    BY RequestFacts DEF ChargingInv, StorageInv
  <2>2. id \in Nat
    BY DEF ChargingInv, StorageInv, Inv, TypeOK
  <2>3. round \in 1 .. Rounds(dr) /\ Rounds(dr) \in Nat
    BY ONLY <2>1, round \in DOMAIN dr.resolution_windows, RequestFields
  <2>4. QED
    BY <2>1, <2>2, <2>3
<1>3. e.finalized_outcome = dr.finalized_outcome
  BY <1>2 DEF Unstaked, Request
<1> HIDE DEF e
<1>4. e \in Request
  BY <1>1, ReplacedRequest DEF ChargingInv, StorageInv
<1>5. FinalsKept
  BY <1>1, <1>3, <1>4, FinalsReplaced
<1>6. KeysRight(keys')
  BY <1>1, <1>2, KeysWrittenFacts, WithKeysGrow DEF ChargingInv
<1>7. QED
  BY <1>1, <1>5, <1>6, RefundPays

\* A claim settles with its caller.
LEMMA ClaimPays ==
  ASSUME ChargingInv, Inv', NEW account \in Stakers, NEW id \in DOMAIN data_requests,
         NEW stake_succeeds \in TransferResults, NEW payment_succeeds \in TransferResults,
         ClaimSettled(account, id, stake_succeeds, payment_succeeds)
  PROVE  Pays
<1> DEFINE dr == data_requests[id]
           e  == Claimed(dr, account)
<1>1. /\ data_requests' = [data_requests EXCEPT ![id] = e]
      /\ keys' = [keys EXCEPT !.stakes = @ \ PaidStakesOf(account, id)]
      /\ RefundStorage
  BY DEF ClaimSettled, DrClaim
<1>2. dr \in Request
  BY RequestFacts DEF ChargingInv, StorageInv
<1>3. e.finalized_outcome = dr.finalized_outcome
  BY <1>2 DEF Claimed, Request
<1> HIDE DEF e
<1>4. e \in Request
  BY <1>1, ReplacedRequest DEF ChargingInv, StorageInv
<1>5. FinalsKept
  BY <1>1, <1>3, <1>4, FinalsReplaced
<1>6. KeysRight(keys')
  <2>1. /\ keys'.outcomes = keys.outcomes
        /\ keys'.users = keys.users
        /\ keys'.stakes \in SUBSET keys.stakes
    BY <1>1 DEF ChargingInv, StorageInv, ThreeMaps
  <2>2. IsFiniteSet(keys'.stakes)
    BY <2>1, FS_Subset DEF ChargingInv, KeysRight
  <2>3. QED
    BY <2>1, <2>2 DEF ChargingInv, KeysRight
<1>7. QED
  BY <1>1, <1>5, <1>6, RefundPays

\* So do the verdicts of a provider and of the arbitrator.
LEMMA DecidePays ==
  ASSUME ChargingInv, Inv', NEW id \in DOMAIN data_requests, NEW outcome,
         Decide(id, outcome), UNCHANGED keys, RefundStorage
  PROVE  Pays
<1> DEFINE dr == data_requests[id]
           e  == Finalized(dr, outcome)
<1>1. IsActive(dr) /\ data_requests' = [data_requests EXCEPT ![id] = e]
  BY DEF Decide
<1> HIDE DEF e
<1>2. e \in Request
  BY <1>1, ReplacedRequest DEF ChargingInv, StorageInv
<1>3. FinalsKept
  BY <1>1, <1>2, FinalsReplaced
<1>4. KeysRight(keys')
  BY DEF ChargingInv
<1>5. QED
  BY <1>3, <1>4, RefundPays

\* dr_finalize settles nothing: what the request gains or loses is on the contract.
LEMMA FinalizePays ==
  ASSUME ChargingInv, Inv', NEW id \in DOMAIN data_requests, NEW succeeds \in TransferResults,
         FinalizeUnsettled(id, succeeds)
  PROVE  Pays
<1> DEFINE dr      == data_requests[id]
           outcome == FinalOutcome(dr)
           e       == Finalized(dr, outcome)
<1>1. /\ IsActive(dr)
      /\ data_requests' = [data_requests EXCEPT ![id] = e]
      /\ UNCHANGED << configs, whitelist, accounts, keys, near >>
  BY DEF FinalizeUnsettled, DrFinalize, Decide, storageVars
<1>2. outcome \in Outcomes
  BY FinalOutcomeIsOutcome DEF FinalizeUnsettled, ChargingInv, StorageInv
<1>3. AreRequests(data_requests) /\ dr \in Request
  BY RequestFacts DEF ChargingInv, StorageInv, Inv, TypeOK, AreRequests
<1>4. e.finalized_outcome = outcome /\ e.resolution_windows = dr.resolution_windows
  BY <1>3 DEF Finalized, Request
<1> HIDE DEF e, outcome
<1>5. e \in Request /\ ~IsActive(e)
  BY <1>1, <1>2, <1>4, ReplacedRequest, WindowAssumption DEF ChargingInv, StorageInv, IsActive
<1> DEFINE final == Bytes.final[outcome]
<1>6. /\ final \in Nat /\ Bytes.request \in Nat
      /\ HeadBytes(dr) = Bytes.request /\ HeadBytes(e) = final
      /\ Extra(dr) = 0 /\ Extra(e) = Overrun(final)
      /\ Saved(dr) = 0 /\ Saved(e) = Trimmed(final)
  BY <1>1, <1>2, <1>4, <1>5, OracleStorageAssumption DEF HeadBytes, Extra, Saved
<1> HIDE DEF final
<1>7. /\ Overrun(final) \in Nat /\ Trimmed(final) \in Nat
      /\ final - Bytes.request = Overrun(final) - Trimmed(final)
  BY <1>6 DEF Overrun, Trimmed
<1>8. RequestBytes(e) - RequestBytes(dr) = Overrun(final) - Trimmed(final)
  <2>1. /\ RequestBytes(e) = final + WindowsBytes(dr.resolution_windows)
        /\ RequestBytes(dr) = Bytes.request + WindowsBytes(dr.resolution_windows)
        /\ WindowsBytes(dr.resolution_windows) \in Nat
    BY <1>3, <1>4, <1>5, <1>6, RequestBytesAre
  <2>2. QED
    BY <1>6, <1>7, <2>1
<1>9. /\ BytesOfAll(data_requests') = BytesOfAll(data_requests) + RequestBytes(e) - RequestBytes(dr)
      /\ ExtraOfAll(data_requests') = ExtraOfAll(data_requests) + Extra(e) - Extra(dr)
      /\ SavedOfAll(data_requests') = SavedOfAll(data_requests) + Saved(e) - Saved(dr)
  BY <1>1, <1>3, <1>5, StoredSumsReplaced
<1>10. /\ BytesOfAll(data_requests) \in Nat
       /\ ExtraOfAll(data_requests) \in Nat
       /\ SavedOfAll(data_requests) \in Nat
       /\ RequestBytes(e) \in Nat /\ RequestBytes(dr) \in Nat
  BY <1>3, <1>5, StoredSumsType, RequestBytesAre
<1>11. AccountsRight(accounts') /\ KeysRight(keys')
  BY <1>1 DEF ChargingInv
<1>12. Usage' = Usage + Overrun(final) - Trimmed(final)
  <2> DEFINE a == Bytes.config * Len(configs) + ListBytes(whitelist)
             b == Bytes.outcome * Cardinality(keys.outcomes)
             c == Bytes.user * Cardinality(keys.users)
             d == Bytes.stake * Cardinality(keys.stakes)
  <2>1. /\ Usage = a + BytesOfAll(data_requests) + b + c + d
        /\ Usage' = a + BytesOfAll(data_requests') + b + c + d
    BY <1>1, UsageInState DEF UsageOf
  <2>2. a \in Nat /\ b \in Nat /\ c \in Nat /\ d \in Nat
    BY UsageParts DEF ChargingInv, StorageInv, Inv, TypeOK
  <2> HIDE DEF a, b, c, d
  <2>3. QED
    BY <1>7, <1>8, <1>9, <1>10, <2>1, <2>2
<1>13. /\ Usage \in Nat /\ AvailableOf(accounts) \in Nat
       /\ Needed = Usage + AvailableOf(accounts)
  BY SumsBefore DEF ChargingInv, StorageInv
<1>14. Needed' = Usage' + AvailableOf(accounts)
  BY <1>1, NeededInState
<1>15. near \in Nat /\ near' = near
  BY <1>1 DEF ChargingInv
<1>16. /\ near' \in Int
       /\ near + ExtraOfAll(data_requests) + Needed' <= near' + ExtraOfAll(data_requests') + Needed
       /\ near' + SavedOfAll(data_requests) + Needed <= near + SavedOfAll(data_requests') + Needed'
  BY <1>6, <1>7, <1>9, <1>10, <1>12, <1>13, <1>14, <1>15
<1>17. QED
  BY <1>11, <1>16 DEF Pays

\* Where only an account changes, what the contract holds has to follow it.
LEMMA OnlyAccountsPay ==
  ASSUME ChargingInv, Inv', UNCHANGED << vars, keys >>, AccountsRight(accounts'), near' \in Int,
         AvailableOf(accounts') - AvailableOf(accounts) = near' - near
  PROVE  Pays
<1>1. UNCHANGED << configs, whitelist, data_requests, keys >>
  BY DEF vars
<1>2. /\ Usage \in Nat /\ AvailableOf(accounts) \in Nat
      /\ Needed = Usage + AvailableOf(accounts)
      /\ ExtraOfAll(data_requests) \in Nat /\ SavedOfAll(data_requests) \in Nat
      /\ near \in Nat
  BY SumsBefore DEF ChargingInv, StorageInv
<1>3. Usage' = Usage
  BY <1>1, UsageInState
<1>4. AvailableOf(accounts') \in Nat /\ Needed' = Usage + AvailableOf(accounts')
  BY <1>3, AvailableType, NeededInState
<1>5. KeysRight(keys')
  BY <1>1 DEF ChargingInv
<1>6. Needed' - Needed = near' - near
  BY <1>2, <1>4
<1>7. ExtraOfAll(data_requests') = ExtraOfAll(data_requests)
      /\ SavedOfAll(data_requests') = SavedOfAll(data_requests)
  BY <1>1
<1>8. /\ near + ExtraOfAll(data_requests) + Needed' <= near' + ExtraOfAll(data_requests') + Needed
      /\ near' + SavedOfAll(data_requests) + Needed <= near + SavedOfAll(data_requests') + Needed'
  BY <1>2, <1>4, <1>6, <1>7
<1>9. QED
  BY <1>5, <1>8 DEF Pays

\* A deposit adds to the account what the contract receives.
LEMMA DepositPays ==
  ASSUME ChargingInv, Inv', NEW a \in Stakers \union Requesters, NEW amount \in Deposits,
         StorageDeposit(a, amount)
  PROVE  Pays
<1> DEFINE held    == StorageAccount(a)
           account == [total |-> held.total + amount, available |-> held.available + amount]
<1>1. /\ accounts' = WithAccount(a, account)
      /\ near' = near + amount
      /\ UNCHANGED << vars, keys >>
  BY DEF StorageDeposit
<1>2. /\ held.available \in Nat /\ held.total \in Nat /\ held.available <= held.total
      /\ amount \in Nat
  BY StorageAccountType, OracleStorageAssumption DEF ChargingInv
<1>3. /\ account \in [total : Nat, available : Nat]
      /\ account.available <= account.total
      /\ account.available = held.available + amount
  BY <1>2
<1> HIDE DEF account
<1>4. /\ AccountsRight(accounts')
      /\ AvailableOf(accounts') = AvailableOf(accounts) + account.available - held.available
  BY <1>1, <1>3, AccountWritten DEF ChargingInv
<1> HIDE DEF held
<1>5. AvailableOf(accounts') - AvailableOf(accounts) = near' - near /\ near' \in Int
  <2>1. AvailableOf(accounts) \in Nat /\ near \in Nat
    BY AvailableType DEF ChargingInv
  <2>2. QED
    BY <1>1, <1>2, <1>3, <1>4, <2>1
<1>6. QED
  BY <1>1, <1>4, <1>5, OnlyAccountsPay

\* A withdrawal takes from the account what the contract pays.
LEMMA WithdrawPays ==
  ASSUME ChargingInv, Inv', NEW a \in Stakers \union Requesters, NEW amount \in Withdrawals,
         StorageWithdraw(a, amount)
  PROVE  Pays
<1> DEFINE held    == StorageAccount(a)
           account == Withdrawn(held, amount)
<1>1. /\ amount <= held.available
      /\ accounts' = WithAccount(a, account)
      /\ near' = near - amount
      /\ UNCHANGED << vars, keys >>
  BY DEF StorageWithdraw
<1>2. /\ held.available \in Nat /\ held.total \in Nat /\ held.available <= held.total
      /\ amount \in Nat
  BY StorageAccountType, OracleStorageAssumption DEF ChargingInv
<1> HIDE DEF held
<1>3. /\ account \in [total : Nat, available : Nat]
      /\ account.available <= account.total
      /\ account.available = held.available - amount
  BY <1>1, <1>2 DEF Withdrawn
<1> HIDE DEF account
<1>4. /\ AccountsRight(accounts')
      /\ AvailableOf(accounts') = AvailableOf(accounts) + account.available - held.available
  BY <1>1, <1>3, AccountWritten DEF ChargingInv, held
<1>5. AvailableOf(accounts') - AvailableOf(accounts) = near' - near /\ near' \in Int
  <2>1. AvailableOf(accounts) \in Nat /\ near \in Nat
    BY AvailableType DEF ChargingInv
  <2>2. QED
    BY <1>1, <1>2, <1>3, <1>4, <2>1
<1>6. QED
  BY <1>1, <1>4, <1>5, OnlyAccountsPay

\* The council's calls settle with their caller, and touch no request.
LEMMA GovernancePays ==
  ASSUME ChargingInv, Inv', GovernanceSettled
  PROVE  Pays
<1>1. UNCHANGED data_requests /\ UNCHANGED keys /\ RefundStorage
  BY DEF GovernanceSettled, GovernanceNext, SetConfig, TogglePause, AddToWhitelist,
         RemoveFromWhitelist
<1>2. FinalsKept
  BY <1>1, FinalsSame
<1>3. KeysRight(keys')
  BY <1>1 DEF ChargingInv
<1>4. QED
  BY <1>1, <1>2, <1>3, RefundPays

\* Every handler of a request pays.
LEMMA RequestPays ==
  ASSUME ChargingInv, Inv', NEW id \in DOMAIN data_requests, RequestSettledNext(id)
  PROVE  Pays
<1>1. CASE \E token \in Tokens, sender \in Stakers, amount \in StakeAmounts, outcome \in Outcomes :
             StakeCharged(token, sender, amount, id, outcome)
  BY <1>1, StakePays
<1>2. CASE \E sender \in Stakers, round \in DOMAIN data_requests[id].resolution_windows,
              outcome \in Outcomes, amount \in StakeAmounts, succeeds \in TransferResults :
             UnstakeSettled(sender, id, round, outcome, amount, succeeds)
  BY <1>2, UnstakePays
<1>3. CASE \E succeeds \in TransferResults : FinalizeUnsettled(id, succeeds)
  BY <1>3, FinalizePays
<1>4. CASE \E caller \in Accounts, outcome \in Outcomes :
             ProviderFinalizeSettled(caller, id, outcome)
  BY <1>4, DecidePays DEF ProviderFinalizeSettled, DrFinalizeByProvider, RefundFreed
<1>5. CASE \E caller \in Accounts, outcome \in Outcomes, succeeds \in TransferResults :
             ArbitratorFinalizeSettled(caller, id, outcome, succeeds)
  BY <1>5, DecidePays DEF ArbitratorFinalizeSettled, DrFinalArbitratorFinalize, RefundFreed
<1>6. CASE \E account \in Stakers, stake_succeeds, payment_succeeds \in TransferResults :
             ClaimSettled(account, id, stake_succeeds, payment_succeeds)
  BY <1>6, ClaimPays
<1>7. QED
  BY <1>1, <1>2, <1>3, <1>4, <1>5, <1>6 DEF RequestSettledNext

\* Every step does.
LEMMA StepPays ==
  ASSUME ChargingInv, Inv', [StorageNext]_allVars
  PROVE  Pays
<1>1. CASE UNCHANGED << configs, whitelist, data_requests, storageVars >>
  <2>1. UNCHANGED << configs, whitelist, data_requests, accounts, keys, near >>
    BY <1>1 DEF storageVars
  <2>2. Usage' = Usage
    BY <2>1, UsageInState
  <2>3. Needed' = Needed
    BY <2>1, <2>2, NeededInState
  <2>4. /\ Needed \in Int /\ near \in Nat
        /\ ExtraOfAll(data_requests) \in Nat /\ SavedOfAll(data_requests) \in Nat
    BY SumsBefore DEF ChargingInv, StorageInv
  <2>5. AccountsRight(accounts') /\ KeysRight(keys')
    BY <2>1 DEF ChargingInv
  <2>6. QED
    BY <2>1, <2>3, <2>4, <2>5 DEF Pays
<1>2. CASE UNCHANGED allVars
  BY <1>1, <1>2 DEF allVars, vars
<1>3. CASE \E token \in Tokens, sender \in Requesters, amount \in Payments, payload \in Payloads :
             NewRequestCharged(token, sender, amount, payload)
  BY <1>3, NewRequestPays
<1>4. CASE \E id \in DOMAIN data_requests : RequestSettledNext(id)
  BY <1>4, RequestPays
<1>5. CASE \E account \in Stakers \union Requesters :
             \/ \E amount \in Deposits : StorageDeposit(account, amount)
             \/ \E amount \in Withdrawals : StorageWithdraw(account, amount)
  BY <1>5, DepositPays, WithdrawPays
<1>6. CASE GovernanceSettled
  BY <1>6, GovernancePays
<1>7. CASE Tick /\ UNCHANGED storageVars
  BY <1>1, <1>7 DEF Tick
<1>8. QED
  BY <1>2, <1>3, <1>4, <1>5, <1>6, <1>7 DEF StorageNext

\* The contract is deployed with what it needs.
LEMMA ChargingStart == StorageInit => ChargingInv
<1> SUFFICES ASSUME StorageInit
             PROVE  ChargingInv
  OBVIOUS
<1>1. StorageInv
  BY StorageStartInv
<1>2. /\ data_requests = << >> /\ accounts = << >> /\ near = Usage
      /\ keys = [outcomes |-> {}, users |-> {}, stakes |-> {}]
  BY DEF StorageInit, Init
<1>3. AccountsRight(accounts)
  <2>1. DOMAIN accounts = {}
    BY <1>2
  <2>2. accounts \in [{} -> [total : Nat, available : Nat]]
    BY <1>2, <2>1
  <2>3. QED
    BY <2>1, <2>2 DEF AccountsRight
<1>4. KeysRight(keys)
  BY <1>2, FS_EmptySet DEF KeysRight
<1>5. AvailableOf(accounts) = 0
  BY <1>2, TotalEmpty DEF AvailableOf
<1>6. ExtraOfAll(data_requests) = 0 /\ SavedOfAll(data_requests) = 0
  BY <1>2, TotalEmpty DEF ExtraOfAll, SavedOfAll
<1>7. /\ Usage \in Nat /\ Needed = Usage + AvailableOf(accounts)
      /\ SumOverFinal(Overrun) = ExtraOfAll(data_requests)
      /\ SumOverFinal(Trimmed) = SavedOfAll(data_requests)
  BY <1>1, <1>3, <1>4, SumsBefore DEF StorageInv
<1>8. StorageBacked /\ NoStorageStranded
  BY <1>2, <1>5, <1>6, <1>7 DEF StorageBacked, NoStorageStranded
<1>9. QED
  BY <1>1, <1>2, <1>3, <1>4, <1>7, <1>8 DEF ChargingInv

---------------------------------------------------------------------------
(***************************************************************************)
(* Theorems                                                                *)
(***************************************************************************)

(***************************************************************************)
(* Every state is within what the contract may hold and needs: the entries,*)
(* the accounts and the NEAR that the handlers settle.                     *)
(***************************************************************************)
THEOREM ChargingInvariance == StorageSpec => []ChargingInv
<1>1. StorageInit => ChargingInv
  BY ChargingStart
<1>2. ChargingInv /\ [StorageNext]_allVars => ChargingInv'
  <2> SUFFICES ASSUME ChargingInv, [StorageNext]_allVars
               PROVE  ChargingInv'
    OBVIOUS
  <2>1. StorageInv'
    BY StorageNextInv DEF ChargingInv
  <2>2. Pays
    BY <2>1, StepPays DEF StorageInv
  <2>3. QED
    BY <2>1, <2>2, PaysKeeps
<1>3. QED
  BY <1>1, <1>2, PTL DEF StorageSpec

(***************************************************************************)
(* The storage accounts, the keys of the maps and the NEAR have their      *)
(* types, and every account can withdraw what it is shown as available.    *)
(***************************************************************************)
THEOREM StorageTypeCorrect == StorageSpec => []StorageTypeOK
<1>1. ChargingInv => StorageTypeOK
  BY DEF ChargingInv, StorageTypeOK, AccountsRight, KeysRight
<1>2. QED
  BY <1>1, ChargingInvariance, PTL

(***************************************************************************)
(* The NEAR the contract holds pays for its storage and for what accounts  *)
(* may withdraw, but for final outcomes longer than what is trimmed.       *)
(***************************************************************************)
THEOREM StorageAlwaysBacked == StorageSpec => []StorageBacked
<1>1. ChargingInv => StorageBacked
  BY DEF ChargingInv
<1>2. QED
  BY <1>1, ChargingInvariance, PTL

(***************************************************************************)
(* It keeps no more than that, but for what dr_finalize trims.             *)
(***************************************************************************)
THEOREM NoStorageEverStranded == StorageSpec => []NoStorageStranded
<1>1. ChargingInv => NoStorageStranded
  BY DEF ChargingInv
<1>2. QED
  BY <1>1, ChargingInvariance, PTL
=================================================================================
