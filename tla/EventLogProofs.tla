------------------------------ MODULE EventLogProofs ------------------------------
(***************************************************************************)
(* An indexer that applies the lines of the log in their order: its rows   *)
(* show the requests, windows, stakes, configurations and whitelist of the *)
(* contract, and what it reads of transactions and claims is what the      *)
(* contract holds, for any number of requests, stakers and lines.          *)
(* Last, the pages of a view, put together, show each request once.        *)
(***************************************************************************)
EXTENDS EventLog, OracleProofs

---------------------------------------------------------------------------
(***************************************************************************)
(* Applying lines one by one                                               *)
(***************************************************************************)

\* The rows after the lines at the places in s, the last place applied last.
IsRowsTable(h, rows, lines, S) ==
  h = [s \in SUBSET S |->
         IF s = {} THEN rows ELSE Upsert(h[s \ {Max(s)}], lines[Max(s)])]

RowsTable(rows, lines, S) == CHOOSE h : IsRowsTable(h, rows, lines, S)

\* The rows after all lines.
Applied(rows, lines) == FoldLeft(Upsert, rows, lines)

\* They are what the table of the recursion has for all places.
LEMMA AppliedIsTable ==
  ASSUME NEW rows, NEW lines
  PROVE  Applied(rows, lines) = RowsTable(rows, lines, DOMAIN lines)[DOMAIN lines]
BY DEF Applied, FoldLeft, MapThenFoldSet, RowsTable, IsRowsTable

\* A set of places has a last one.
LEMMA MaxIn ==
  ASSUME NEW S, S \in SUBSET Nat, IsFiniteSet(S), S # {}
  PROVE  Max(S) \in S /\ \A y \in S : y <= Max(S)
<1> DEFINE Good == {a \in SUBSET S : a = {} \/ \E x \in a : \A y \in a : x >= y}
<1>1. {} \in Good
  OBVIOUS
<1>2. \A a \in SUBSET S : \A z \in S \ a : a \in Good => a \union {z} \in Good
  <2> SUFFICES ASSUME NEW a \in SUBSET S, NEW z \in S \ a, a \in Good
               PROVE  \E x \in a \union {z} : \A y \in a \union {z} : x >= y
    OBVIOUS
  <2>1. CASE a = {}
    BY <2>1
  <2>2. CASE a # {}
    <3>1. PICK x \in a : \A y \in a : x >= y
      BY <2>2
    <3>2. CASE x >= z
      BY <3>1, <3>2
    <3>3. CASE ~(x >= z)
      <4>1. x \in Nat /\ z \in Nat /\ \A y \in a : y \in Nat
        OBVIOUS
      <4>2. \A y \in a \union {z} : z >= y
        BY <3>1, <3>3, <4>1
      <4>3. QED
        BY <4>2
    <3>4. QED
      BY <3>2, <3>3
  <2>3. QED
    BY <2>1, <2>2
<1> HIDE DEF Good
<1>3. S \in Good
  BY <1>1, <1>2, SubsetInduction
<1>4. PICK x \in S : \A y \in S : x >= y
  BY <1>3 DEF Good
<1>5. Max(S) \in S /\ \A y \in S : Max(S) >= y
  BY <1>4 DEF Max
<1>6. QED
  BY <1>5

\* What a table says of one set of places.
LEMMA RowsTableAt ==
  ASSUME NEW h, NEW rows, NEW lines, NEW S, IsRowsTable(h, rows, lines, S), NEW s \in SUBSET S
  PROVE  h[s] = IF s = {} THEN rows ELSE Upsert(h[s \ {Max(s)}], lines[Max(s)])
BY DEF IsRowsTable

\* There is one table at most.
LEMMA RowsTableUnique ==
  ASSUME NEW rows, NEW lines, NEW S, S \in SUBSET Nat, IsFiniteSet(S),
         NEW h, IsRowsTable(h, rows, lines, S), NEW k, IsRowsTable(k, rows, lines, S)
  PROVE  h = k
<1> DEFINE Bad == {s \in SUBSET S : h[s] # k[s]}
<1>1. Bad = {}
  <2>1. SUFFICES ASSUME Bad # {} PROVE FALSE
    OBVIOUS
  <2>2. PICK a \in Bad : \A b \in Bad : b \subseteq a => b = a
    <3>1. Bad \in SUBSET SUBSET S
      OBVIOUS
    <3> HIDE DEF Bad
    <3>2. QED
      BY ONLY <2>1, <3>1, IsFiniteSet(S), MinimalSubset
  <2>3. CASE a = {}
    BY <2>2, <2>3, RowsTableAt
  <2>4. CASE a # {}
    <3>1. Max(a) \in a
      BY <2>4, MaxIn, FS_Subset
    <3>2. h[a \ {Max(a)}] = k[a \ {Max(a)}]
      BY <2>2, <3>1
    <3>3. a \in SUBSET S
      OBVIOUS
    <3>4. h[a] = Upsert(h[a \ {Max(a)}], lines[Max(a)])
      BY ONLY <2>4, <3>3, IsRowsTable(h, rows, lines, S), IsRowsTable(k, rows, lines, S), RowsTableAt
    <3>5. k[a] = Upsert(k[a \ {Max(a)}], lines[Max(a)])
      BY ONLY <2>4, <3>3, IsRowsTable(h, rows, lines, S), IsRowsTable(k, rows, lines, S), RowsTableAt
    <3>6. QED
      BY <2>2, <3>2, <3>4, <3>5
  <2>5. QED
    BY <2>3, <2>4
<1>2. h = [s \in SUBSET S |-> h[s]] /\ k = [s \in SUBSET S |-> k[s]]
  BY DEF IsRowsTable
<1>3. \A s \in SUBSET S : h[s] = k[s]
  BY <1>1
<1>4. QED
  BY <1>2, <1>3

\* What a table has for the places in R.
TableFor(h, R) == [s \in SUBSET R |-> h[s]]

\* A table for some places and lines serves for fewer places, and for the same lines.
LEMMA RowsTableRestricted ==
  ASSUME NEW rows, NEW lines, NEW more, NEW S, S \in SUBSET Nat, IsFiniteSet(S), NEW h,
         IsRowsTable(h, rows, lines, S),
         NEW R, R \in SUBSET S, \A i \in R : more[i] = lines[i]
  PROVE  IsRowsTable(TableFor(h, R), rows, more, R)
<1> DEFINE k == TableFor(h, R)
<1>1. ASSUME NEW s \in SUBSET R
      PROVE  k[s] = IF s = {} THEN rows ELSE Upsert(k[s \ {Max(s)}], more[Max(s)])
  <2>1. h[s] = IF s = {} THEN rows ELSE Upsert(h[s \ {Max(s)}], lines[Max(s)])
    <3>1. s \in SUBSET S
      OBVIOUS
    <3>2. QED
      BY ONLY <3>1, IsRowsTable(h, rows, lines, S), RowsTableAt
  <2>2. s \ {Max(s)} \in SUBSET R
    OBVIOUS
  <2>3. k[s] = h[s] /\ k[s \ {Max(s)}] = h[s \ {Max(s)}]
    BY <2>2 DEF TableFor
  <2>4. s # {} => more[Max(s)] = lines[Max(s)]
    BY MaxIn, FS_Subset
  <2> HIDE DEF k
  <2>5. QED
    BY <2>1, <2>3, <2>4
<1>2. k = [s \in SUBSET R |-> k[s]]
  BY DEF TableFor
<1> HIDE DEF k
<1>3. k = [s \in SUBSET R |->
             IF s = {} THEN rows ELSE Upsert(k[s \ {Max(s)}], more[Max(s)])]
  BY <1>1, <1>2
<1>4. QED
  BY <1>3 DEF IsRowsTable, k

\* There is a table.
LEMMA RowsTableExists ==
  ASSUME NEW rows, NEW lines, NEW S, S \in SUBSET Nat, IsFiniteSet(S)
  PROVE  IsRowsTable(RowsTable(rows, lines, S), rows, lines, S)
<1> DEFINE Bad == {s \in SUBSET S : ~ \E h : IsRowsTable(h, rows, lines, s)}
<1>1. Bad = {}
  <2>1. SUFFICES ASSUME Bad # {} PROVE FALSE
    OBVIOUS
  <2>2. PICK a \in Bad : \A b \in Bad : b \subseteq a => b = a
    <3>1. Bad \in SUBSET SUBSET S
      OBVIOUS
    <3> HIDE DEF Bad
    <3>2. QED
      BY ONLY <2>1, <3>1, IsFiniteSet(S), MinimalSubset
  <2> DEFINE T(s) == RowsTable(rows, lines, s)
             Rest(s) == s \ {Max(s)}
             h == [s \in SUBSET a |->
                     IF s = {} THEN rows ELSE Upsert(T(Rest(s))[Rest(s)], lines[Max(s)])]
  <2>3. \A s \in SUBSET a : s # a => IsRowsTable(T(s), rows, lines, s)
    BY <2>2 DEF RowsTable
  <2>4. ASSUME NEW s \in SUBSET a, s # {}
        PROVE  h[Rest(s)] = T(Rest(s))[Rest(s)]
    <3> DEFINE u == Rest(s)
               v == Rest(u)
               k == T(u)
    <3>1. u \in SUBSET a /\ u # a /\ IsFiniteSet(u) /\ u \in SUBSET Nat
      BY <2>4, MaxIn, FS_Subset
    <3>2. IsRowsTable(k, rows, lines, u)
      BY <2>3, <3>1
    <3>3. k[u] = IF u = {} THEN rows ELSE Upsert(k[v], lines[Max(u)])
      <4> HIDE DEF u, k
      <4>1. u \in SUBSET u
        OBVIOUS
      <4>2. k[u] = IF u = {} THEN rows ELSE Upsert(k[u \ {Max(u)}], lines[Max(u)])
        BY <3>2, <4>1, RowsTableAt
      <4>3. QED
        BY <4>2
    <3>4. CASE u = {}
      BY <3>1, <3>3, <3>4
    <3>5. CASE u # {}
      <4>1. v \in SUBSET u /\ v # a /\ IsFiniteSet(v) /\ v \in SUBSET a /\ v \in SUBSET Nat
        BY <3>1, FS_Subset
      <4>2. IsRowsTable(TableFor(k, v), rows, lines, v)
        <5> HIDE DEF k, u, v
        <5>1. QED
          BY <3>1, <3>2, <4>1, RowsTableRestricted
      <4>3. IsRowsTable(T(v), rows, lines, v)
        BY <2>3, <4>1
      <4>4. T(v) = TableFor(k, v)
        <5> HIDE DEF T, k, v
        <5>1. QED
          BY <4>1, <4>2, <4>3, RowsTableUnique
      <4>5. T(v)[v] = k[v]
        BY <4>4 DEF TableFor
      <4>6. h[u] = Upsert(T(v)[v], lines[Max(u)])
        BY <3>1, <3>5
      <4>7. QED
        BY <3>3, <3>5, <4>5, <4>6
    <3>6. QED
      BY <3>4, <3>5
  <2>5. h = [s \in SUBSET a |-> h[s]]
    OBVIOUS
  <2>6. \A s \in SUBSET a :
          h[s] = IF s = {} THEN rows ELSE Upsert(h[s \ {Max(s)}], lines[Max(s)])
    BY <2>4
  <2> HIDE DEF h
  <2>7. IsRowsTable(h, rows, lines, a)
    BY <2>5, <2>6 DEF IsRowsTable
  <2>8. QED
    BY <2>2, <2>7
<1>2. \E h : IsRowsTable(h, rows, lines, S)
  BY <1>1
<1>3. QED
  BY <1>2 DEF RowsTable

---------------------------------------------------------------------------
(***************************************************************************)
(* What one staker has staked                                              *)
(***************************************************************************)

\* What u has staked on each outcome of a window, and in each window of a list.
StakesBy(w, u) == [o \in Outcomes |-> UserStake(w, u, o)]
Has(w, u) == Total(StakesBy(w, u), Outcomes)
HasIn(windows, u) == [r \in DOMAIN windows |-> Has(windows[r], u)]
HasInAll(windows, u) == Total(HasIn(windows, u), DOMAIN windows)

\* What FlowsReconcile counts in a window.
LEMMA StakesInHas ==
  ASSUME NEW w, NEW u
  PROVE  StakesIn(u, w) = Has(w, u)
BY DEF Has, StakesBy, StakesIn, Total, MapThenSumSet, MapThenFoldSet

\* What it counts in a request.
LEMMA StakesOfHas ==
  ASSUME NEW dr, NEW u
  PROVE  StakesOf(u, dr) = HasInAll(dr.resolution_windows, u)
<1> DEFINE windows == dr.resolution_windows
           D       == DOMAIN windows
           table   == [r \in D |-> StakesIn(u, windows[r])]
<1>1. StakesOf(u, dr) = Total(table, D)
  BY DEF StakesOf, Total, MapThenSumSet, MapThenFoldSet
<1>2. \A r \in D : table[r] = Has(windows[r], u)
  BY StakesInHas
<1>3. table = HasIn(windows, u)
  BY <1>2 DEF HasIn
<1>4. QED
  BY <1>1, <1>3 DEF HasInAll

\* It is a natural number.
LEMMA HasType ==
  ASSUME NEW w \in Window, NEW u \in Stakers
  PROVE  Summable(StakesBy(w, u), Outcomes) /\ Has(w, u) \in Nat
<1>1. \A o \in Outcomes : StakesBy(w, u)[o] \in Nat
  BY DEF StakesBy, UserStake, Window
<1>2. Summable(StakesBy(w, u), Outcomes)
  BY <1>1, FiniteAssumption DEF Summable
<1>3. QED
  BY <1>1, <1>2, TotalNat, FiniteAssumption DEF Has

\* One of its stakes changes.
LEMMA HasChanged ==
  ASSUME NEW w \in Window, NEW v \in Window, NEW s \in Stakers, NEW o \in Outcomes,
         NEW n \in Nat,
         v.user_to_outcome_to_stake = [w.user_to_outcome_to_stake EXCEPT ![s][o] = n]
  PROVE  /\ Has(v, s) = Has(w, s) + n - UserStake(w, s, o)
         /\ \A u \in Stakers \ {s} : Has(v, u) = Has(w, u)
         /\ \A u \in Stakers, q \in Outcomes :
              UserStake(v, u, q) = IF u = s /\ q = o THEN n ELSE UserStake(w, u, q)
<1>1. w.user_to_outcome_to_stake \in [Stakers -> [Outcomes -> Nat]]
  BY DEF Window
<1>2. \A u \in Stakers, q \in Outcomes :
        UserStake(v, u, q) = IF u = s /\ q = o THEN n ELSE UserStake(w, u, q)
  BY <1>1 DEF UserStake
<1>3. Has(v, s) = Has(w, s) + n - UserStake(w, s, o)
  <2> DEFINE f == StakesBy(w, s)
             g == StakesBy(v, s)
  <2>1. /\ g[o] = n
        /\ f[o] = UserStake(w, s, o)
        /\ \A q \in Outcomes \ {o} : g[q] = f[q]
    BY <1>2 DEF StakesBy
  <2>2. Summable(f, Outcomes)
    BY HasType
  <2> HIDE DEF f, g
  <2>3. Total(g, Outcomes) = Total(f, Outcomes) + g[o] - f[o]
    BY <2>1, <2>2, TotalChanged
  <2>4. QED
    BY <2>1, <2>3 DEF Has, f, g
<1>4. \A u \in Stakers \ {s} : Has(v, u) = Has(w, u)
  <2> TAKE u \in Stakers \ {s}
  <2>1. StakesBy(v, u) = StakesBy(w, u)
    BY <1>2 DEF StakesBy
  <2>2. QED
    BY <2>1 DEF Has
<1>5. QED
  BY <1>2, <1>3, <1>4

\* Nobody has anything in a new window.
LEMMA NewWindowHas ==
  ASSUME NEW prev_bond \in Nat, NEW period \in Nat, NEW start \in Nat, NEW u \in Stakers
  PROVE  Has(NewWindow(prev_bond, period, start), u) = 0
<1> DEFINE f == StakesBy(NewWindow(prev_bond, period, start), u)
<1>1. \A o \in Outcomes : f[o] = 0
  BY DEF StakesBy, UserStake, NewWindow, EmptyWindow
<1> HIDE DEF f
<1>2. Total(f, Outcomes) = 0
  BY <1>1, TotalZero, FiniteAssumption
<1>3. QED
  BY <1>2 DEF Has, f

\* What a staker has in a list of windows is a natural number.
LEMMA HasInAllType ==
  ASSUME NEW windows \in Seq(Window), NEW u \in Stakers
  PROVE  /\ Summable(HasIn(windows, u), DOMAIN windows)
         /\ HasInAll(windows, u) \in Nat
<1>1. \A r \in DOMAIN windows : HasIn(windows, u)[r] \in Nat
  BY HasType DEF HasIn
<1>2. IsFiniteSet(DOMAIN windows)
  BY FS_Interval
<1>3. QED
  BY <1>1, <1>2, TotalNat DEF HasInAll, Summable

\* One window more.
LEMMA HasAppended ==
  ASSUME NEW windows, windows \in Seq(Window), NEW w \in Window, NEW u \in Stakers
  PROVE  HasInAll(Append(windows, w), u) = HasInAll(windows, u) + Has(w, u)
<1> DEFINE more == Append(windows, w)
           n    == Len(windows)
           D    == DOMAIN windows
           f    == HasIn(windows, u)
           g    == HasIn(more, u)
           last == n + 1
<1>1. /\ n \in Nat
      /\ D = 1 .. n
      /\ DOMAIN more = D \union {n + 1}
      /\ n + 1 \notin D
      /\ more[n + 1] = w
      /\ \A r \in D : more[r] = windows[r]
  OBVIOUS
<1>2. g[n + 1] = Has(w, u) /\ \A r \in D : g[r] = f[r]
  BY <1>1 DEF HasIn
<1>3. Summable(f, D) /\ g[n + 1] \in Int
  BY <1>2, HasInAllType, HasType
<1>4. last \notin D /\ g[last] \in Int /\ \A r \in D : g[r] = f[r]
  BY <1>1, <1>2, <1>3
<1>5. Summable(f, D)
  BY <1>3
<1> HIDE DEF f, g, D, last
<1>6. Total(g, D \union {last}) = Total(f, D) + g[last]
  BY ONLY <1>4, <1>5, TotalAdded
<1>7. QED
  BY <1>1, <1>2, <1>6 DEF HasInAll, f, g, D, last

\* One window replaced.
LEMMA HasReplaced ==
  ASSUME NEW windows \in Seq(Window), NEW w \in Window, NEW k \in DOMAIN windows,
         NEW u \in Stakers
  PROVE  HasInAll([windows EXCEPT ![k] = w], u)
           = HasInAll(windows, u) + Has(w, u) - Has(windows[k], u)
<1> DEFINE other == [windows EXCEPT ![k] = w]
           D     == DOMAIN windows
           f     == HasIn(windows, u)
           g     == HasIn(other, u)
<1>1. DOMAIN other = D /\ other[k] = w /\ \A r \in D \ {k} : other[r] = windows[r]
  OBVIOUS
<1>2. g[k] = Has(w, u) /\ f[k] = Has(windows[k], u) /\ \A r \in D \ {k} : g[r] = f[r]
  BY <1>1 DEF HasIn
<1>3. Summable(f, D) /\ g[k] \in Int
  BY <1>2, HasInAllType, HasType
<1> HIDE DEF f, g
<1>4. Total(g, D) = Total(f, D) + g[k] - f[k]
  BY <1>2, <1>3, TotalChanged
<1>5. QED
  BY <1>1, <1>2, <1>4 DEF HasInAll, f, g

\* Nobody has anything in no windows.
LEMMA HasNone == ASSUME NEW u PROVE HasInAll(<< >>, u) = 0
<1>1. DOMAIN << >> = {}
  OBVIOUS
<1>2. QED
  BY <1>1, TotalEmpty DEF HasInAll

\* A stake adds to what its owner has what the oracle keeps of it
\* (ActiveDataRequest::stake).
LEMMA StakedHas ==
  ASSUME NEW dr \in Request, NEW s \in Stakers, NEW o \in Outcomes, NEW amount \in Nat,
         NEW time \in Nat, Ladder(dr), ~dr.final_arbitrator_triggered,
         CanStakeOnOutcome(dr, o), NEW u \in Stakers
  PROVE  LET e == Staked(dr, s, o, amount, time)
         IN  HasInAll(e.resolution_windows, u)
               = HasInAll(dr.resolution_windows, u)
                   + IF u = s THEN amount - Unspent(dr, o, amount, time) ELSE 0
<1> DEFINE w0      == StakingWindow(dr, time)
           w       == StakedWindow(dr, s, o, amount, time)
           windows == WithStakedWindow(dr, w)
           next    == NextWindow(dr, w, Len(windows), time)
           e       == Staked(dr, s, o, amount, time)
           taken   == Taken(w0, o, amount)
           before  == dr.resolution_windows
           k       == Rounds(dr)
           kept    == amount - Unspent(dr, o, amount, time)
           more    == IF u = s THEN kept ELSE 0
<1>1. w0 \in Window /\ w0.outcome_to_stake[o] <= w0.bond_size
  BY StakingWindowOpen DEF FilledToBond
<1>2. taken \in Nat /\ kept = taken
  <2>1. taken \in Nat
    BY <1>1, TakenBounds
  <2>2. QED
    BY <2>1 DEF Unspent
<1>3. w \in Window
  BY <1>1, AddStakeFields DEF StakedWindow
<1>4. Has(w, u) = Has(w0, u) + more
  <2> DEFINE old == UserStake(w0, s, o)
             n   == old + taken
  <2>1. old \in Nat
    BY <1>1 DEF UserStake, Window
  <2>2. n \in Nat
    BY <1>2, <2>1
  <2>3. w.user_to_outcome_to_stake = [w0.user_to_outcome_to_stake EXCEPT ![s][o] = n]
    <3>1. w.user_to_outcome_to_stake = [w0.user_to_outcome_to_stake EXCEPT ![s][o] = @ + taken]
      BY <1>1, AddStakeUsers DEF StakedWindow
    <3>2. QED
      BY <1>1, <3>1 DEF UserStake, Window
  <2>4. Has(w0, s) \in Nat /\ Has(w0, u) \in Nat
    BY <1>1, HasType
  <2> HIDE DEF n, w, w0
  <2>5. Has(w, s) = Has(w0, s) + n - old /\ \A x \in Stakers \ {s} : Has(w, x) = Has(w0, x)
    BY <1>1, <1>3, <2>2, <2>3, HasChanged
  <2> HIDE DEF old, taken, kept
  <2>6. QED
    BY <1>2, <2>1, <2>4, <2>5 DEF n
<1>5. before \in Seq(Window) /\ DOMAIN before = 1 .. k /\ k \in Nat
  BY RequestFields
<1>6. more \in Nat /\ Has(w0, u) \in Nat /\ HasInAll(before, u) \in Nat
  BY <1>1, <1>2, <1>5, HasType, HasInAllType
<1>7. windows \in Seq(Window) /\ HasInAll(windows, u) = HasInAll(before, u) + more
  <2>1. CASE before = << >>
    <3>1. windows = Append(<< >>, w) /\ << >> \in Seq(Window)
      BY <2>1 DEF WithStakedWindow
    <3>2. Has(w0, u) = 0
      BY <2>1, NewWindowHas, ResolutionBondType, RequestFields DEF StakingWindow
    <3> HIDE DEF w, w0, windows, more
    <3>3. HasInAll(windows, u) = HasInAll(<< >>, u) + Has(w, u)
      BY <1>3, <3>1, HasAppended
    <3>4. windows \in Seq(Window)
      BY <1>3, <3>1
    <3>5. QED
      BY <1>4, <1>6, <2>1, <3>2, <3>3, <3>4, HasNone
  <2>2. CASE before # << >>
    <3>1. k \in DOMAIN before
      BY <1>5, <2>2, RequestFields
    <3>2. windows = [before EXCEPT ![k] = w]
      BY <2>2 DEF WithStakedWindow
    <3>3. w0 = before[k]
      BY <2>2 DEF StakingWindow, LastWindow
    <3> HIDE DEF w, w0, windows, more, before, k
    <3>4. HasInAll(windows, u) = HasInAll(before, u) + Has(w, u) - Has(before[k], u)
      BY <1>3, <1>5, <3>1, <3>2, HasReplaced
    <3>5. windows \in Seq(Window)
      BY <1>3, <1>5, <3>1, <3>2
    <3>6. QED
      BY <1>4, <1>6, <3>3, <3>4, <3>5
  <2>3. QED
    BY <2>1, <2>2
<1>8. e.resolution_windows = windows \/ e.resolution_windows = Append(windows, next)
  BY DEF Staked, Request
<1>9. next \in Window /\ Has(next, u) = 0
  <2>1. w.bond_size \in Nat /\ ChallengeDuration(dr, Len(windows)) \in Nat
    BY <1>3, <1>7, RequestFields DEF Window
  <2>2. QED
    BY <2>1, NewWindowType, NewWindowHas DEF NextWindow
<1> HIDE DEF windows, next, e, more
<1>10. HasInAll(Append(windows, next), u) = HasInAll(windows, u) + Has(next, u)
  BY <1>7, <1>9, HasAppended
<1>11. HasInAll(windows, u) \in Nat
  BY <1>7, HasInAllType
<1>12. HasInAll(e.resolution_windows, u) = HasInAll(windows, u)
  <2>1. HasInAll(Append(windows, next), u) = HasInAll(windows, u)
    BY ONLY <1>9, <1>10, <1>11
  <2>2. QED
    BY ONLY <1>8, <2>1
<1>13. QED
  BY <1>7, <1>12 DEF e, more

\* A withdrawal takes its amount off, and nothing off what is behind the final
\* outcome (ResolutionWindow::unstake).
LEMMA UnstakedHas ==
  ASSUME NEW dr \in Request, NEW s \in Stakers, NEW round \in DOMAIN dr.resolution_windows,
         NEW o \in Outcomes, NEW amount \in Nat, Ladder(dr),
         CanUnstake(dr.resolution_windows[round], s, o, amount), NEW u \in Stakers
  PROVE  LET e == Unstaked(dr, s, round, o, amount)
         IN  /\ HasInAll(e.resolution_windows, u)
                  = HasInAll(dr.resolution_windows, u) - IF u = s THEN amount ELSE 0
             /\ ~IsActive(dr) => UserCorrectStake(e, u) = UserCorrectStake(dr, u)
<1> DEFINE windows == dr.resolution_windows
           w       == windows[round]
           v       == RemoveStake(w, s, o, amount)
           e       == Unstaked(dr, s, round, o, amount)
           D       == DOMAIN windows
           old     == UserStake(w, s, o)
           n       == old - amount
<1>1. /\ e \in Request
      /\ SameWindows(e, dr)
      /\ e.finalized_outcome = dr.finalized_outcome
  BY UnstakedLadder
<1>2. windows \in Seq(Window) /\ w \in Window /\ FilledToBond(w)
  BY RequestFields DEF Ladder, BondedIffFull
<1>3. v \in Window /\ e.resolution_windows = [windows EXCEPT ![round] = v]
  BY <1>2, RemoveStakeFilled DEF Unstaked, Request
<1>4. old \in Nat /\ n \in Nat
  <2>1. old \in Nat
    BY <1>2 DEF UserStake, Window
  <2>2. QED
    BY <2>1 DEF CanUnstake, UserStake
<1>5. v.user_to_outcome_to_stake = [w.user_to_outcome_to_stake EXCEPT ![s][o] = n]
  BY <1>2 DEF RemoveStake, UserStake, Window
<1> HIDE DEF v, n, e
<1>6. /\ Has(v, s) = Has(w, s) + n - old
      /\ \A x \in Stakers \ {s} : Has(v, x) = Has(w, x)
      /\ \A x \in Stakers, q \in Outcomes :
           UserStake(v, x, q) = IF x = s /\ q = o THEN n ELSE UserStake(w, x, q)
  <2> HIDE DEF w
  <2>1. QED
    BY <1>2, <1>3, <1>4, <1>5, HasChanged
<1>7. Has(w, s) \in Nat /\ Has(w, u) \in Nat /\ HasInAll(windows, u) \in Nat
  BY <1>2, HasType, HasInAllType
<1>8. HasInAll(e.resolution_windows, u) = HasInAll(windows, u) - IF u = s THEN amount ELSE 0
  <2>1. HasInAll([windows EXCEPT ![round] = v], u) = HasInAll(windows, u) + Has(v, u) - Has(w, u)
    BY <1>2, <1>3, HasReplaced
  <2>2. Has(v, u) = Has(w, u) - IF u = s THEN amount ELSE 0
    <3> HIDE DEF old, w
    <3>1. QED
      BY <1>4, <1>6, <1>7 DEF n
  <2> HIDE DEF w, windows
  <2>3. QED
    BY <1>3, <1>7, <2>1, <2>2
<1>9. ASSUME ~IsActive(dr)
      PROVE  UserCorrectStake(e, u) = UserCorrectStake(dr, u)
  <2> DEFINE R == CorrectRounds(dr)
             f == CorrectStakes(dr, u)
             g == CorrectStakes(e, u)
  <2>1. ~IsActive(e) /\ R \in SUBSET D /\ CorrectRounds(e) = R
    BY <1>1, <1>9, SameRounds, RoundsByVerdict DEF IsActive
  <2>2. dr.finalized_outcome \in Outcomes
    BY <1>9 DEF IsActive, Request
  <2>3. DOMAIN e.resolution_windows = D
    BY <1>2, <1>3
  <2>4. \A r \in R : UserStake(e.resolution_windows[r], u, dr.finalized_outcome)
                       = UserStake(windows[r], u, dr.finalized_outcome)
    BY <1>2, <1>3, <1>6, <2>1, <2>2 DEF CorrectRounds, IsCorrect, CanUnstake
  <2>5. \A r \in R : g[r] = f[r]
    BY <1>1, <2>1, <2>3, <2>4 DEF CorrectStakes
  <2>6. /\ Summable(f, R) /\ UserCorrectStake(dr, u) = Total(f, R)
        /\ UserCorrectStake(e, u) = Total(g, R)
    BY <1>1, <1>9, <2>1, UserCorrectStakeTotal
  <2> HIDE DEF f, g, R
  <2>7. QED
    BY <2>5, <2>6, TotalSame
<1>10. QED
  BY <1>8, <1>9 DEF e

\* A claim takes off what its owner has exactly what it has behind the final
\* outcome, and nothing off what others have (FinalizedDataRequest::claim).
LEMMA ClaimedHas ==
  ASSUME NEW dr \in Request, NEW s \in Stakers, Ladder(dr), ~IsActive(dr), NEW u \in Stakers
  PROVE  LET e == Claimed(dr, s)
         IN  /\ HasInAll(e.resolution_windows, u)
                  = HasInAll(dr.resolution_windows, u)
                      - IF u = s THEN UserCorrectStake(dr, s) ELSE 0
             /\ UserCorrectStake(e, u) = IF u = s THEN 0 ELSE UserCorrectStake(dr, u)
<1> DEFINE e       == Claimed(dr, s)
           windows == dr.resolution_windows
           after   == e.resolution_windows
           o       == dr.finalized_outcome
           D       == DOMAIN windows
           R       == CorrectRounds(dr)
<1>1. /\ e \in Request
      /\ SameWindows(e, dr)
      /\ e.finalized_outcome = o
  BY ClaimedLadder
<1>2. /\ o \in Outcomes
      /\ windows \in Seq(Window)
      /\ after \in Seq(Window)
      /\ \A r \in D : windows[r] \in Window /\ FilledToBond(windows[r])
  BY <1>1, RequestFields DEF Ladder, BondedIffFull, IsActive, Request
<1>3. /\ DOMAIN after = D
      /\ \A r \in D : after[r] = TakeClaimedStake(windows[r], s, o)
  BY DEF Claimed, Request
<1>4. ~IsActive(e) /\ R \in SUBSET D /\ CorrectRounds(e) = R
  BY <1>1, SameRounds, RoundsByVerdict DEF IsActive
<1> HIDE DEF e
<1>5. ASSUME NEW r \in D
      PROVE  /\ Has(after[r], s) = Has(windows[r], s)
                                     - IF r \in R THEN UserStake(windows[r], s, o) ELSE 0
             /\ \A x \in Stakers \ {s} : Has(after[r], x) = Has(windows[r], x)
             /\ r \in R => UserStake(after[r], s, o) = 0
             /\ \A x \in Stakers \ {s} :
                  UserStake(after[r], x, o) = UserStake(windows[r], x, o)
  <2> DEFINE w == windows[r]
             v == after[r]
  <2>1. w \in Window /\ v \in Window /\ v = TakeClaimedStake(w, s, o)
    BY <1>2, <1>3, TakeClaimedFilled
  <2>2. r \in R <=> IsCorrect(w, o)
    BY DEF CorrectRounds
  <2>3. UserStake(w, s, o) \in Nat /\ Has(w, s) \in Nat
    BY <1>2, <2>1, HasType DEF UserStake, Window
  <2>4. CASE r \in R
    <3>1. v.user_to_outcome_to_stake = [w.user_to_outcome_to_stake EXCEPT ![s][o] = 0]
      BY <2>1, <2>2, <2>4 DEF TakeClaimedStake, Window
    <3> HIDE DEF w, v, R, o, D
    <3>2. /\ Has(v, s) = Has(w, s) + 0 - UserStake(w, s, o)
          /\ \A x \in Stakers \ {s} : Has(v, x) = Has(w, x)
          /\ \A x \in Stakers, q \in Outcomes :
               UserStake(v, x, q) = IF x = s /\ q = o THEN 0 ELSE UserStake(w, x, q)
      BY <1>2, <2>1, <3>1, HasChanged
    <3>3. QED
      BY <1>2, <2>3, <2>4, <3>2 DEF w, v
  <2>5. CASE r \notin R
    <3>1. v = w
      BY <2>1, <2>2, <2>5 DEF TakeClaimedStake
    <3>2. QED
      BY <2>3, <2>5, <3>1
  <2>6. QED
    BY <2>4, <2>5
<1>6. HasInAll(windows, u) \in Nat /\ Summable(HasIn(after, u), D)
  BY <1>2, <1>3, HasInAllType
<1>7. HasInAll(after, u) = HasInAll(windows, u) - IF u = s THEN UserCorrectStake(dr, s) ELSE 0
  <2> DEFINE f == HasIn(after, u)
             g == HasIn(windows, u)
  <2>1. Summable(f, D) /\ HasInAll(after, u) = Total(f, D) /\ HasInAll(windows, u) = Total(g, D)
    BY <1>3, <1>6 DEF HasInAll
  <2>2. \A r \in D : f[r] = Has(after[r], u) /\ g[r] = Has(windows[r], u)
    BY <1>3 DEF HasIn
  <2>3. CASE u # s
    <3>1. \A r \in D : g[r] = f[r]
      BY <1>5, <2>2, <2>3
    <3> HIDE DEF f, g, D
    <3>2. Total(g, D) = Total(f, D)
      BY <2>1, <3>1, TotalSame
    <3>3. QED
      BY <1>6, <2>1, <2>3, <3>2
  <2>4. CASE u = s
    <3> DEFINE c == CorrectStakes(dr, s)
               h == [r \in D |-> IF r \in R THEN c[r] ELSE 0]
    <3>1. \A r \in R : c[r] = UserStake(windows[r], s, o)
      BY <1>4 DEF CorrectStakes
    <3>2. Summable(c, R) /\ UserCorrectStake(dr, s) = Total(c, R)
      BY UserCorrectStakeTotal
    <3>3. /\ \A r \in R : c[r] \in Int /\ h[r] = c[r]
          /\ \A r \in D \ R : h[r] = 0
      BY <1>4, <3>2 DEF Summable
    <3>4. IsFiniteSet(D)
      BY RoundsFinite
    <3>5. \A r \in D : f[r] \in Int /\ h[r] \in Int /\ f[r] = g[r] - h[r] /\ g[r] \in Int
      <4> TAKE r \in D
      <4>1. f[r] \in Int /\ g[r] \in Int
        <5>1. after[r] \in Window /\ windows[r] \in Window
          BY <1>2, <1>3
        <5>2. QED
          BY <2>2, <5>1, HasType
      <4>2. h[r] \in Int
        BY <3>3
      <4>3. h[r] = IF r \in R THEN UserStake(windows[r], s, o) ELSE 0
        BY <1>4, <3>1
      <4>4. f[r] = g[r] - h[r]
        BY <1>5, <2>2, <2>4, <4>3
      <4>5. QED
        BY <4>1, <4>2, <4>4
    <3> HIDE DEF f, g, h, c, R, D
    <3>6. \A r \in D : g[r] = f[r] + h[r]
      BY <3>5
    <3>7. Summable(h, D) /\ Total(h, D) = Total(c, R)
      BY <1>4, <3>3, <3>4, TotalPart
    <3>8. Total(g, D) = Total(f, D) + Total(h, D)
      BY <2>1, <3>6, <3>7, TotalPlus
    <3>9. Total(f, D) \in Int /\ Total(h, D) \in Int
      BY <2>1, <3>7, TotalInt
    <3>10. QED
      BY <2>1, <2>4, <3>2, <3>7, <3>8, <3>9
  <2>5. QED
    BY <2>3, <2>4
<1>8. UserCorrectStake(e, u) = IF u = s THEN 0 ELSE UserCorrectStake(dr, u)
  <2> DEFINE f == CorrectStakes(dr, u)
             g == CorrectStakes(e, u)
  <2>1. /\ Summable(f, R) /\ UserCorrectStake(dr, u) = Total(f, R)
        /\ UserCorrectStake(e, u) = Total(g, R)
    BY <1>1, <1>4, UserCorrectStakeTotal
  <2>2. \A r \in R : g[r] = IF u = s THEN 0 ELSE f[r]
    BY <1>1, <1>3, <1>4, <1>5 DEF CorrectStakes
  <2>3. IsFiniteSet(R)
    BY <1>4, RoundsFinite
  <2> HIDE DEF f, g, R
  <2>4. CASE u = s
    BY <2>1, <2>2, <2>3, <2>4, TotalZero
  <2>5. CASE u # s
    BY <2>1, <2>2, <2>5, TotalSame
  <2>6. QED
    BY <2>4, <2>5
<1>9. QED
  BY <1>7, <1>8 DEF e

---------------------------------------------------------------------------
(***************************************************************************)
(* What the lines do to one row                                            *)
(***************************************************************************)

\* Two tables of rows have the same row at a key, or neither has one.
SameRow(rows, others, key) ==
  /\ key \in DOMAIN rows <=> key \in DOMAIN others
  /\ key \in DOMAIN rows => rows[key] = others[key]

\* A line writes the row of its cap_id, and no other.
LEMMA UpsertRows ==
  ASSUME NEW rows, NEW line
  PROVE  /\ \A key : key # line.cap_id => SameRow(Upsert(rows, line), rows, key)
         /\ line.cap_id \in DOMAIN Upsert(rows, line)
         /\ Upsert(rows, line)[line.cap_id]
              = Written(IF line.cap_id \in DOMAIN rows THEN rows[line.cap_id] ELSE << >>,
                        line.params)
BY DEF Upsert, SameRow

\* What holds before the first line, and after a line if before it, holds at the end.
LEMMA LinesInduction ==
  ASSUME NEW S, S \in SUBSET Nat, IsFiniteSet(S), NEW Good, {} \in Good,
         \A a \in SUBSET S : a # {} /\ a \ {Max(a)} \in Good => a \in Good
  PROVE  S \in Good
<1> DEFINE Bad == {a \in SUBSET S : a \notin Good}
<1>1. SUFFICES ASSUME S \notin Good PROVE FALSE
  OBVIOUS
<1>2. PICK a \in Bad : \A b \in Bad : b \subseteq a => b = a
  <2>1. Bad \in SUBSET SUBSET S /\ Bad # {}
    BY <1>1
  <2> HIDE DEF Bad
  <2>2. QED
    BY ONLY <2>1, IsFiniteSet(S), MinimalSubset
<1>3. a # {}
  BY <1>2
<1>4. Max(a) \in a
  BY <1>2, <1>3, MaxIn, FS_Subset
<1>5. a \ {Max(a)} \in Good
  BY <1>2, <1>4
<1>6. QED
  BY <1>2, <1>3, <1>5

\* What h says of the rows after the lines at the places s, each a set of places in S.
IsHistory(h, rows, lines, S) ==
  /\ h[{}] = rows
  /\ \A s \in SUBSET S : s # {} => h[s] = Upsert(h[s \ {Max(s)}], lines[Max(s)])
  /\ Applied(rows, lines) = h[S]
  /\ S \in SUBSET Nat
  /\ IsFiniteSet(S)
  /\ \A s \in SUBSET S : s # {} => Max(s) \in s /\ \A i \in s : i <= Max(s)

\* The lines 1 to n have such a history.
LEMMA LinesTable ==
  ASSUME NEW rows, NEW n \in Nat, NEW lines, DOMAIN lines = 1 .. n
  PROVE  \E h : IsHistory(h, rows, lines, 1 .. n)
<1> DEFINE h == RowsTable(rows, lines, 1 .. n)
<1>1. 1 .. n \in SUBSET Nat /\ IsFiniteSet(1 .. n)
  BY FS_Interval
<1>2. \A s \in SUBSET (1 .. n) : s \in SUBSET Nat /\ IsFiniteSet(s)
  BY <1>1, FS_Subset
<1>3. \A s \in SUBSET (1 .. n) : s # {} => Max(s) \in s /\ \A i \in s : i <= Max(s)
  BY <1>2, MaxIn
<1>4. Applied(rows, lines) = h[1 .. n]
  BY AppliedIsTable
<1>5. IsRowsTable(h, rows, lines, 1 .. n)
  BY <1>1, RowsTableExists
<1> HIDE DEF h
<1>6. \A s \in SUBSET (1 .. n) :
        h[s] = IF s = {} THEN rows ELSE Upsert(h[s \ {Max(s)}], lines[Max(s)])
  BY <1>5 DEF IsRowsTable
<1>7. h[{}] = rows
  BY <1>6
<1>8. \A s \in SUBSET (1 .. n) :
        s # {} => h[s] = Upsert(h[s \ {Max(s)}], lines[Max(s)])
  BY <1>6
<1>9. IsHistory(h, rows, lines, 1 .. n)
  BY <1>1, <1>3, <1>4, <1>7, <1>8 DEF IsHistory
<1>10. QED
  BY <1>9

\* A row that no line writes stays as it is.
LEMMA RowUntouched ==
  ASSUME NEW rows, NEW n \in Nat, NEW lines, DOMAIN lines = 1 .. n, NEW key,
         \A i \in 1 .. n : lines[i].cap_id # key
  PROVE  SameRow(Applied(rows, lines), rows, key)
<1> DEFINE S == 1 .. n
<1>1. PICK h : IsHistory(h, rows, lines, S)
  BY LinesTable
<1> DEFINE Good == {s \in SUBSET S : SameRow(h[s], rows, key)}
<1>2. \A i \in S : lines[i].cap_id # key
  OBVIOUS
<1> HIDE DEF S
<1>3. {} \in Good
  <2>1. h[{}] = rows
    BY <1>1 DEF IsHistory
  <2>2. QED
    BY <2>1 DEF SameRow
<1>4. ASSUME NEW s \in SUBSET S, s # {}, s \ {Max(s)} \in Good
      PROVE  s \in Good
  <2> DEFINE t == h[s \ {Max(s)}]
  <2>1. h[s] = Upsert(t, lines[Max(s)])
    BY <1>1, <1>4 DEF IsHistory
  <2>2. SameRow(t, rows, key)
    BY <1>4
  <2>3. lines[Max(s)].cap_id # key
    BY <1>1, <1>2, <1>4 DEF IsHistory
  <2> HIDE DEF t
  <2>4. SameRow(h[s], t, key)
    BY <2>1, <2>3, UpsertRows
  <2>5. QED
    BY <2>2, <2>4 DEF SameRow
<1> HIDE DEF Good
<1>5. S \in Good
  <2>1. S \in SUBSET Nat /\ IsFiniteSet(S)
    BY <1>1 DEF IsHistory
  <2>2. QED
    BY ONLY <1>3, <1>4, <2>1, LinesInduction
<1>6. QED
  BY <1>1, <1>5 DEF Good, IsHistory

\* The row at a key has a value in a field.
Shows(rows, key, field, value) ==
  key \in DOMAIN rows /\ field \in DOMAIN rows[key] /\ rows[key][field] = value

\* No line of 1 to n writes the field.
Spares(lines, n, key, field) ==
  /\ n \in Nat
  /\ DOMAIN lines = 1 .. n
  /\ \A i \in 1 .. n : lines[i].cap_id = key => field \notin DOMAIN lines[i].params

\* Of the lines 1 to n, line k is the last that writes the field.
LastWrites(lines, n, k, key, field) ==
  /\ n \in Nat
  /\ DOMAIN lines = 1 .. n
  /\ k \in 1 .. n
  /\ lines[k].cap_id = key
  /\ field \in DOMAIN lines[k].params
  /\ \A i \in 1 .. n :
       i > k /\ lines[i].cap_id = key => field \notin DOMAIN lines[i].params

\* A field that no line writes stays as it is.
LEMMA FieldUntouched ==
  ASSUME NEW rows, NEW lines, NEW n, NEW key, NEW field, Spares(lines, n, key, field),
         NEW value, Shows(rows, key, field, value)
  PROVE  Shows(Applied(rows, lines), key, field, value)
<1> USE DEF Spares
<1> DEFINE S == 1 .. n
<1>1. PICK h : IsHistory(h, rows, lines, S)
  BY LinesTable
<1> DEFINE Keeps(t) == Shows(t, key, field, value)
           Good     == {s \in SUBSET S : Keeps(h[s])}
<1>2. \A i \in S : lines[i].cap_id = key => field \notin DOMAIN lines[i].params
  OBVIOUS
<1> HIDE DEF S
<1>3. {} \in Good
  <2>1. h[{}] = rows
    BY <1>1 DEF IsHistory
  <2>2. QED
    BY <2>1
<1>4. ASSUME NEW s \in SUBSET S, s # {}, s \ {Max(s)} \in Good
      PROVE  s \in Good
  <2> DEFINE t    == h[s \ {Max(s)}]
             line == lines[Max(s)]
  <2>1. h[s] = Upsert(t, line)
    BY <1>1, <1>4 DEF IsHistory
  <2>2. Keeps(t)
    BY <1>4
  <2>3. line.cap_id = key => field \notin DOMAIN line.params
    BY <1>1, <1>2, <1>4 DEF IsHistory
  <2> HIDE DEF t, line
  <2>4. CASE line.cap_id # key
    BY <2>1, <2>2, <2>4, UpsertRows DEF SameRow, Shows
  <2>5. CASE line.cap_id = key
    <3>1. key \in DOMAIN h[s] /\ h[s][key] = Written(t[key], line.params)
      BY <2>1, <2>2, <2>5, UpsertRows DEF Shows
    <3>2. QED
      BY <2>2, <2>3, <2>5, <3>1 DEF Written, Shows
  <2>6. QED
    BY <2>4, <2>5
<1> HIDE DEF Good
<1>5. S \in Good
  <2>1. S \in SUBSET Nat /\ IsFiniteSet(S)
    BY <1>1 DEF IsHistory
  <2>2. QED
    BY ONLY <1>3, <1>4, <2>1, LinesInduction
<1>6. QED
  BY <1>1, <1>5 DEF Good, IsHistory

\* The last line that writes a field decides it.
LEMMA FieldLast ==
  ASSUME NEW rows, NEW lines, NEW n, NEW k, NEW key, NEW field,
         LastWrites(lines, n, k, key, field)
  PROVE  Shows(Applied(rows, lines), key, field, lines[k].params[field])
<1> USE DEF LastWrites
<1> DEFINE S == 1 .. n
<1>1. PICK h : IsHistory(h, rows, lines, S)
  BY LinesTable
<1> DEFINE Has1(t) == Shows(t, key, field, lines[k].params[field])
           Good    == {s \in SUBSET S : k \in s => Has1(h[s])}
<1>2. /\ k \in S
      /\ \A i \in S : i > k /\ lines[i].cap_id = key => field \notin DOMAIN lines[i].params
  OBVIOUS
<1> HIDE DEF S
<1>3. {} \in Good
  OBVIOUS
<1>4. ASSUME NEW s \in SUBSET S, s # {}, s \ {Max(s)} \in Good
      PROVE  s \in Good
  <2> DEFINE t    == h[s \ {Max(s)}]
             line == lines[Max(s)]
  <2>1. h[s] = Upsert(t, line)
    BY <1>1, <1>4 DEF IsHistory
  <2>2. SUFFICES ASSUME k \in s PROVE Has1(h[s])
    OBVIOUS
  <2>3. CASE Max(s) = k
    <3>1. line = lines[k]
      BY <2>3
    <3> HIDE DEF t, line
    <3>2. key \in DOMAIN h[s]
          /\ h[s][key] = Written(IF key \in DOMAIN t THEN t[key] ELSE << >>, lines[k].params)
      BY <2>1, <3>1, UpsertRows
    <3>3. QED
      BY <3>2 DEF Written, Shows
  <2>4. CASE Max(s) # k
    <3>1. k \in s \ {Max(s)} /\ Max(s) > k /\ Max(s) \in S
      <4>1. Max(s) \in s /\ k <= Max(s) /\ s \subseteq S /\ S \subseteq Nat
        BY <1>1, <1>4, <2>2 DEF IsHistory
      <4>2. Max(s) \in Nat /\ k \in Nat
        BY <1>2, <4>1
      <4>3. QED
        BY <2>2, <2>4, <4>1, <4>2
    <3>2. Has1(t)
      BY <1>4, <3>1
    <3>3. line.cap_id = key => field \notin DOMAIN line.params
      BY <1>2, <3>1
    <3> HIDE DEF t, line
    <3>4. CASE line.cap_id # key
      BY <2>1, <3>2, <3>4, UpsertRows DEF SameRow, Shows
    <3>5. CASE line.cap_id = key
      <4>1. key \in DOMAIN h[s] /\ h[s][key] = Written(t[key], line.params)
        BY <2>1, <3>2, <3>5, UpsertRows DEF Shows
      <4>2. QED
        BY <3>2, <3>3, <3>5, <4>1 DEF Written, Shows
    <3>6. QED
      BY <3>4, <3>5
  <2>5. QED
    BY <2>3, <2>4
<1> HIDE DEF Good
<1>5. S \in Good
  <2>1. S \in SUBSET Nat /\ IsFiniteSet(S)
    BY <1>1 DEF IsHistory
  <2>2. QED
    BY ONLY <1>3, <1>4, <2>1, LinesInduction
<1>6. QED
  BY <1>1, <1>2, <1>5 DEF Good, IsHistory

---------------------------------------------------------------------------
(***************************************************************************)
(* The oracle under the log                                                *)
(***************************************************************************)

\* Every step that logs is a step of the oracle; a new fee is none.
LEMMA LogStep == [LogNext]_allVars => [Next]_vars
<1>1. SUFFICES ASSUME LogNext PROVE Next \/ UNCHANGED vars
  BY DEF allVars
<1>2. CASE \E token \in Tokens, sender \in Requesters, amount \in Payments, payload \in Payloads :
             LogDrNew(token, sender, amount, payload)
  BY <1>2 DEF LogDrNew, Next
<1>3. CASE \E id \in DOMAIN data_requests : LogRequestNext(id)
  <2>1. PICK id \in DOMAIN data_requests : LogRequestNext(id)
    BY <1>3
  <2>2. RequestNext(id)
    BY <2>1 DEF LogRequestNext, RequestNext, LogDrStake, LogDrUnstake, LogDrClaim
  <2>3. QED
    BY <2>2 DEF Next
<1>4. CASE LogGovernanceNext
  <2>1. GovernanceNext \/ UNCHANGED vars
    BY <1>4 DEF LogGovernanceNext, GovernanceNext, LogSetConfig, UpdateFeeConfig,
                LogAddToWhitelist, LogRemoveFromWhitelist
  <2>2. QED
    BY <2>1 DEF Next
<1>5. CASE Tick /\ UNCHANGED logVars
  BY <1>5 DEF Next
<1>6. QED
  BY <1>1, <1>2, <1>3, <1>4, <1>5 DEF LogNext

---------------------------------------------------------------------------
(***************************************************************************)
(* Lines that are no claims                                                *)
(***************************************************************************)

\* A line that is not of a claim.
NoClaim(line) == line.cap_id[1] # "c"

\* The lines 1 to n, all of which are no claims.
NoClaims(lines) ==
  \E n \in Nat : DOMAIN lines = 1 .. n /\ \A i \in 1 .. n : NoClaim(lines[i])

ClaimsSame(rows, others) ==
  \A u \in Stakers, id \in Nat : SameRow(rows, others, ClaimKey(u, id))

\* They leave the rows of claims alone.
LEMMA ClaimsUntouched ==
  ASSUME NEW rows, NEW lines, NoClaims(lines)
  PROVE  ClaimsSame(Applied(rows, lines), rows)
<1> SUFFICES ASSUME NEW u \in Stakers, NEW id \in Nat
             PROVE  SameRow(Applied(rows, lines), rows, ClaimKey(u, id))
  BY DEF ClaimsSame
<1>1. PICK n \in Nat : DOMAIN lines = 1 .. n /\ \A i \in 1 .. n : NoClaim(lines[i])
  BY DEF NoClaims
<1>2. \A i \in 1 .. n : lines[i].cap_id # ClaimKey(u, id)
  <2>1. ClaimKey(u, id)[1] = "c"
    BY DEF ClaimKey
  <2>2. QED
    BY <1>1, <2>1 DEF NoClaim
<1>3. QED
  BY <1>1, <1>2, RowUntouched

\* A handler logs no claims, whatever other lines it logs.
LEMMA NoClaimsOf ==
  ASSUME NEW T, NEW lines \in Seq(T), \A line \in T : NoClaim(line)
  PROVE  NoClaims(lines)
<1>1. Len(lines) \in Nat /\ DOMAIN lines = 1 .. Len(lines) /\ \A i \in 1 .. Len(lines) : lines[i] \in T
  OBVIOUS
<1>2. QED
  BY <1>1 DEF NoClaims

\* Every line but that of a claim is none.
LEMMA LinesNoClaim ==
  ASSUME NEW id, NEW dr, NEW r, NEW w, NEW o, NEW u, NEW i, NEW config, NEW fee,
         NEW requester, NEW multiplier, NEW active
  PROVE  /\ NoClaim(LogNewDataRequest(id, dr))
         /\ NoClaim(LogUpdateActiveDataRequest(id, dr))
         /\ NoClaim(LogUpdateFinalizedDataRequest(id, dr))
         /\ NoClaim(LogUpdate(id, dr))
         /\ NoClaim(LogResolutionWindow(id, r, w))
         /\ NoClaim(LogOutcomeToStake(id, r, w, o))
         /\ NoClaim(LogUserStake(id, r, w, u, o))
         /\ NoClaim(LogOracleConfig(i, config, fee))
         /\ NoClaim(LogWhitelist(requester, multiplier, active))
<1>1. NoClaim(LogNewDataRequest(id, dr))
  BY DEF NoClaim, LogNewDataRequest, Line
<1>2. NoClaim(LogUpdateActiveDataRequest(id, dr))
  BY DEF NoClaim, LogUpdateActiveDataRequest, Line
<1>3. NoClaim(LogUpdateFinalizedDataRequest(id, dr))
  BY DEF NoClaim, LogUpdateFinalizedDataRequest, Line
<1>4. NoClaim(LogUpdate(id, dr))
  BY <1>2, <1>3 DEF LogUpdate
<1>5. NoClaim(LogResolutionWindow(id, r, w))
  BY DEF NoClaim, LogResolutionWindow, Line
<1>6. NoClaim(LogOutcomeToStake(id, r, w, o))
  BY DEF NoClaim, LogOutcomeToStake, OutcomeStakeKey, Line
<1>7. NoClaim(LogUserStake(id, r, w, u, o))
  BY DEF NoClaim, LogUserStake, UserStakeKey, Line
<1>8. NoClaim(LogOracleConfig(i, config, fee))
  BY DEF NoClaim, LogOracleConfig, Line
<1>9. NoClaim(LogWhitelist(requester, multiplier, active))
  BY DEF NoClaim, LogWhitelist, Line
<1>10. QED
  BY <1>1, <1>2, <1>3, <1>4, <1>5, <1>6, <1>7, <1>8, <1>9

\* An optional line is a list of at most one.
LEMMA OptionalType ==
  ASSUME NEW T, NEW line \in T, NEW condition
  PROVE  Optional(condition, line) \in Seq(T)
<1>1. CASE condition
  BY <1>1 DEF Optional
<1>2. CASE ~condition
  BY <1>2 DEF Optional
<1>3. QED
  BY <1>1, <1>2

\* The lines of a stake are a list of lines that are no claims.
LEMMA StakeLinesNoClaims ==
  ASSUME NEW id, NEW sender, NEW outcome, NEW amount
  PROVE  NoClaims(StakeLines(id, sender, outcome, amount))
<1> DEFINE dr    == data_requests[id]
           next  == Staked(dr, sender, outcome, amount, now)
           w     == StakedWindow(dr, sender, outcome, amount, now)
           round == Len(WithStakedWindow(dr, w))
           opened   == LogResolutionWindow(id, round, StakingWindow(dr, now))
           stakes   == LogOutcomeToStake(id, round, w, outcome)
           user     == LogUserStake(id, round, w, sender, outcome)
           bonded   == LogResolutionWindow(id, round, w)
           later    == LogResolutionWindow(id, round + 1, LastWindow(next))
           updated  == LogUpdateActiveDataRequest(id, next)
           T        == {opened, stakes, user, bonded, later, updated}
           lines    == Optional(dr.resolution_windows = << >>, opened)
                         \o << stakes, user >>
                         \o Optional(w.outcome_to_stake[outcome] = w.bond_size, bonded)
                         \o Optional(Rounds(next) > round, later)
                         \o << updated >>
<1>1. \A line \in T : NoClaim(line)
  BY LinesNoClaim
<1>2. StakeLines(id, sender, outcome, amount) = lines
  BY DEF StakeLines
<1>3. lines \in Seq(T)
  <2> HIDE DEF opened, stakes, user, bonded, later, updated
  <2>1. /\ Optional(dr.resolution_windows = << >>, opened) \in Seq(T)
        /\ Optional(w.outcome_to_stake[outcome] = w.bond_size, bonded) \in Seq(T)
        /\ Optional(Rounds(next) > round, later) \in Seq(T)
    BY OptionalType
  <2>2. << stakes, user >> \in Seq(T) /\ << updated >> \in Seq(T)
    OBVIOUS
  <2> HIDE DEF T
  <2>3. QED
    BY <2>1, <2>2
<1> HIDE DEF T, lines
<1>4. QED
  BY <1>1, <1>2, <1>3, NoClaimsOf

\* A claim writes the row of the claim, and the rows of no other claims.
LEMMA ClaimWritten ==
  ASSUME NEW rows, NEW dr, NEW s \in Stakers, NEW id \in Nat, NEW line, NoClaim(line)
  PROVE  LET after == Applied(rows, LogClaim(id, dr, s) \o << line >>)
         IN  /\ ClaimKey(s, id) \in DOMAIN after
             /\ after[ClaimKey(s, id)].user_correct_stake = UserCorrectStake(dr, s)
             /\ \A u \in Stakers, i \in Nat :
                  u # s \/ i # id => SameRow(after, rows, ClaimKey(u, i))
<1> DEFINE first  == LogClaim(id, dr, s)[1]
           second == LogClaim(id, dr, s)[2]
           lines  == LogClaim(id, dr, s) \o << line >>
           after  == Applied(rows, lines)
<1>1. /\ NoClaim(first)
      /\ second.cap_id = ClaimKey(s, id)
      /\ "user_correct_stake" \in DOMAIN second.params
      /\ second.params.user_correct_stake = UserCorrectStake(dr, s)
  BY DEF LogClaim, Line, NoClaim
<1>2. LogClaim(id, dr, s) = << first, second >>
  BY DEF LogClaim
<1> HIDE DEF first, second
<1>3. /\ DOMAIN lines = 1 .. 3
      /\ lines[1] = first
      /\ lines[2] = second
      /\ lines[3] = line
  BY <1>2
<1> HIDE DEF lines
<1>4. \A i \in 1 .. 3 : i # 2 => lines[i].cap_id # ClaimKey(s, id)
  <2>1. ClaimKey(s, id)[1] = "c"
    BY DEF ClaimKey
  <2>2. QED
    BY <1>1, <1>3, <2>1 DEF NoClaim
<1>5. /\ ClaimKey(s, id) \in DOMAIN after
      /\ after[ClaimKey(s, id)].user_correct_stake = UserCorrectStake(dr, s)
  <2> DEFINE field == "user_correct_stake"
             key   == ClaimKey(s, id)
  <2>1. LastWrites(lines, 3, 2, key, field)
    BY <1>1, <1>3, <1>4 DEF LastWrites
  <2> HIDE DEF field, key
  <2>2. Shows(after, key, field, lines[2].params[field])
    BY <2>1, FieldLast
  <2>3. QED
    BY <1>1, <1>3, <2>2 DEF Shows, field, key
<1>6. ASSUME NEW u \in Stakers, NEW i \in Nat, u # s \/ i # id
      PROVE  SameRow(after, rows, ClaimKey(u, i))
  <2>1. ClaimKey(u, i)[1] = "c" /\ ClaimKey(u, i)[2] = u /\ ClaimKey(u, i)[3] = i
    BY DEF ClaimKey
  <2>2. ClaimKey(s, id)[2] = s /\ ClaimKey(s, id)[3] = id
    BY DEF ClaimKey
  <2>3. \A k \in 1 .. 3 : lines[k].cap_id # ClaimKey(u, i)
    BY <1>1, <1>3, <1>6, <2>1, <2>2 DEF NoClaim
  <2>4. 3 \in Nat
    OBVIOUS
  <2>5. QED
    BY <1>3, <2>3, <2>4, RowUntouched
<1> HIDE DEF after
<1>7. QED
  BY <1>5, <1>6 DEF after, lines

---------------------------------------------------------------------------
(***************************************************************************)
(* Transactions and stakes                                                 *)
(***************************************************************************)

\* What the line of a claim says was the claimer's own stake.
ClaimShown(u, id) == IF HasClaimed(u, id) THEN view[ClaimKey(u, id)].user_correct_stake ELSE 0

\* The flows of one staker on one request: they reconcile, and who has claimed
\* has nothing left behind the final outcome to claim again.
FlowsOf(u, id) ==
  LET dr == data_requests[id]
  IN  /\ tally[u][id] - ClaimShown(u, id) = HasInAll(dr.resolution_windows, u)
      /\ ClaimShown(u, id) \in Int
      /\ HasClaimed(u, id) => ~IsActive(dr) /\ UserCorrectStake(dr, u) = 0

(***************************************************************************)
(* The inductive invariant.  That a claim is not repeated rests on the     *)
(* stake it takes off the books; before a request is made nothing is logged*)
(* of it.                                                                  *)
(***************************************************************************)
FlowsInv ==
  /\ Inv
  /\ Len(data_requests) <= MaxRequests
  /\ tally \in [Stakers -> [1 .. MaxRequests -> Int]]
  /\ \A u \in Stakers, id \in DOMAIN data_requests : FlowsOf(u, id)
  /\ \A u \in Stakers, id \in (1 .. MaxRequests) \ DOMAIN data_requests :
       tally[u][id] = 0 /\ ~HasClaimed(u, id)

\* The requests are numbered from 1, and of the type declared.
LEMMA RequestIds ==
  ASSUME Inv, Len(data_requests) <= MaxRequests
  PROVE  /\ data_requests \in Seq(Request)
         /\ Len(data_requests) \in Nat
         /\ DOMAIN data_requests = 1 .. Len(data_requests)
         /\ \A id \in DOMAIN data_requests :
              /\ id \in Nat
              /\ id \in 1 .. MaxRequests
              /\ data_requests[id] \in Request
              /\ Ladder(data_requests[id])
<1>1. data_requests \in Seq(Request)
  BY DEF Inv, TypeOK
<1>2. Len(data_requests) \in Nat /\ DOMAIN data_requests = 1 .. Len(data_requests)
  BY <1>1
<1>3. \A id \in DOMAIN data_requests : data_requests[id] \in Request /\ Ladder(data_requests[id])
  BY RequestFacts
<1>4. QED
  BY <1>1, <1>2, <1>3, OracleAssumption

\* It says what FlowsReconcile says.
LEMMA FlowsInvReconciles ==
  ASSUME FlowsInv
  PROVE  FlowsReconcile
BY StakesOfHas DEF FlowsInv, FlowsOf, ClaimShown, FlowsReconcile

\* What is shown of claims depends on their rows.
LEMMA ClaimsShownSame ==
  ASSUME NEW u \in Stakers, NEW id \in Nat, SameRow(view', view, ClaimKey(u, id))
  PROVE  /\ HasClaimed(u, id)' <=> HasClaimed(u, id)
         /\ ClaimShown(u, id)' = ClaimShown(u, id)
BY DEF SameRow, HasClaimed, ClaimShown, ClaimKey

\* The tallies of other requests stay.
TallyElsewhere(id) ==
  /\ tally' \in [Stakers -> [1 .. MaxRequests -> Int]]
  /\ \A u \in Stakers, i \in 1 .. MaxRequests : i # id => tally'[u][i] = tally[u][i]

\* So do the rows of claims on other requests.
ClaimsElsewhere(id) ==
  \A u \in Stakers, i \in Nat : i # id => SameRow(view', view, ClaimKey(u, i))

\* Each staker's transactions are what it has more or less staked.
TallyFollows(dr, e, id) ==
  \A u \in Stakers :
    tally'[u][id] = tally[u][id] + HasInAll(e.resolution_windows, u)
                      - HasInAll(dr.resolution_windows, u)

\* What can be claimed of a request that is final does not change.
KeepsCorrect(dr, e) ==
  \/ IsActive(dr)
  \/ /\ ~IsActive(e)
     /\ \A u \in Stakers : UserCorrectStake(e, u) = UserCorrectStake(dr, u)

\* A step that changes one request, and logs nothing of the others.
LEMMA FlowsElsewhere ==
  ASSUME FlowsInv, Inv', NEW id \in DOMAIN data_requests, NEW e,
         data_requests' = [data_requests EXCEPT ![id] = e],
         ClaimsElsewhere(id), TallyElsewhere(id),
         \A u \in Stakers : FlowsOf(u, id)'
  PROVE  FlowsInv'
<1>1. /\ data_requests \in Seq(Request)
      /\ Len(data_requests) \in Nat
      /\ DOMAIN data_requests = 1 .. Len(data_requests)
      /\ \A i \in DOMAIN data_requests : i \in Nat /\ i \in 1 .. MaxRequests
  BY RequestIds DEF FlowsInv
<1>2. /\ DOMAIN data_requests' = DOMAIN data_requests
      /\ Len(data_requests') = Len(data_requests)
      /\ \A i \in DOMAIN data_requests : i # id => data_requests'[i] = data_requests[i]
  BY <1>1
<1>3. \A u \in Stakers, i \in Nat :
        i # id => /\ HasClaimed(u, i)' <=> HasClaimed(u, i)
                  /\ ClaimShown(u, i)' = ClaimShown(u, i)
  BY ClaimsShownSame DEF ClaimsElsewhere
<1>4. ASSUME NEW u \in Stakers, NEW i \in DOMAIN data_requests, i # id
      PROVE  FlowsOf(u, i)'
  <2>1. FlowsOf(u, i)
    BY DEF FlowsInv
  <2>2. /\ ClaimShown(u, i)' = ClaimShown(u, i)
        /\ HasClaimed(u, i)' <=> HasClaimed(u, i)
        /\ tally'[u][i] = tally[u][i]
        /\ data_requests'[i] = data_requests[i]
    BY <1>1, <1>2, <1>3, <1>4 DEF TallyElsewhere
  <2>3. QED
    BY <2>1, <2>2 DEF FlowsOf
<1>5. \A u \in Stakers, i \in DOMAIN data_requests' : FlowsOf(u, i)'
  BY <1>2, <1>4
<1>6. \A u \in Stakers, i \in (1 .. MaxRequests) \ DOMAIN data_requests' :
        tally'[u][i] = 0 /\ ~HasClaimed(u, i)'
  <2> TAKE u \in Stakers, i \in (1 .. MaxRequests) \ DOMAIN data_requests'
  <2>1. i # id /\ i \in (1 .. MaxRequests) \ DOMAIN data_requests /\ i \in Nat
    BY <1>2
  <2>2. tally[u][i] = 0 /\ ~HasClaimed(u, i)
    BY <2>1 DEF FlowsInv
  <2>3. QED
    BY <1>3, <2>1, <2>2 DEF TallyElsewhere
<1>7. QED
  BY <1>2, <1>5, <1>6 DEF FlowsInv, TallyElsewhere

\* A step that changes one request, and logs what each staker has more or less there.
LEMMA FlowsReplaced ==
  ASSUME FlowsInv, Inv', NEW id \in DOMAIN data_requests, NEW e,
         data_requests' = [data_requests EXCEPT ![id] = e],
         ClaimsSame(view', view), TallyElsewhere(id), TallyFollows(data_requests[id], e, id),
         KeepsCorrect(data_requests[id], e)
  PROVE  FlowsInv'
<1> DEFINE dr == data_requests[id]
<1>1. /\ data_requests \in Seq(Request)
      /\ Len(data_requests) \in Nat
      /\ DOMAIN data_requests = 1 .. Len(data_requests)
      /\ \A i \in DOMAIN data_requests : i \in Nat /\ i \in 1 .. MaxRequests
      /\ dr \in Request
  BY RequestIds DEF FlowsInv
<1>2. /\ DOMAIN data_requests' = DOMAIN data_requests
      /\ Len(data_requests') = Len(data_requests)
      /\ data_requests'[id] = e
  BY <1>1
<1>3. \A u \in Stakers, i \in Nat :
        /\ HasClaimed(u, i)' <=> HasClaimed(u, i)
        /\ ClaimShown(u, i)' = ClaimShown(u, i)
  BY ClaimsShownSame DEF ClaimsSame
<1>4. ASSUME NEW u \in Stakers
      PROVE  FlowsOf(u, id)'
  <2> DEFINE before == HasInAll(dr.resolution_windows, u)
             after  == HasInAll(e.resolution_windows, u)
             t      == tally[u][id]
             c      == ClaimShown(u, id)
  <2>1. FlowsOf(u, id)
    BY DEF FlowsInv
  <2>2. t - c = before /\ c \in Int /\ (HasClaimed(u, id) => ~IsActive(dr) /\ UserCorrectStake(dr, u) = 0)
    BY <2>1 DEF FlowsOf
  <2>3. t \in Int
    <3>1. tally \in [Stakers -> [1 .. MaxRequests -> Int]] /\ id \in 1 .. MaxRequests
      BY <1>1 DEF FlowsInv
    <3>2. QED
      BY ONLY <3>1, u \in Stakers
  <2>4. before \in Int /\ after \in Int
    <3>1. e \in Request
      BY <1>1, <1>2 DEF Inv, TypeOK
    <3>2. QED
      BY <1>1, <3>1, RequestFields, HasInAllType
  <2>5. tally'[u][id] = t + after - before
    BY DEF TallyFollows
  <2>6. ClaimShown(u, id)' = c /\ (HasClaimed(u, id)' <=> HasClaimed(u, id))
    BY <1>1, <1>3
  <2>7. HasClaimed(u, id) => ~IsActive(e) /\ UserCorrectStake(e, u) = 0
    BY <2>2 DEF KeepsCorrect
  <2> HIDE DEF before, after, t, c
  <2>8. tally'[u][id] - c = after
    BY <2>2, <2>3, <2>4, <2>5
  <2>9. QED
    BY <1>2, <2>2, <2>6, <2>7, <2>8 DEF FlowsOf, after
<1>5. \A u \in Stakers : FlowsOf(u, id)'
  BY <1>4
<1>6. ClaimsElsewhere(id)
  BY DEF ClaimsSame, ClaimsElsewhere
<1>7. QED
  BY <1>5, <1>6, FlowsElsewhere

\* One line.
LEMMA OneNoClaim ==
  ASSUME NEW x, NoClaim(x)
  PROVE  NoClaims(<< x >>)
<1>1. DOMAIN << x >> = 1 .. 1 /\ << x >>[1] = x
  OBVIOUS
<1>2. QED
  BY <1>1 DEF NoClaims

\* Three lines.
LEMMA ThreeNoClaims ==
  ASSUME NEW x, NEW y, NEW z, NoClaim(x), NoClaim(y), NoClaim(z)
  PROVE  NoClaims(<< x, y, z >>)
<1> DEFINE lines == << x, y, z >>
<1>1. DOMAIN lines = 1 .. 3 /\ lines[1] = x /\ lines[2] = y /\ lines[3] = z
  OBVIOUS
<1> HIDE DEF lines
<1>2. \A i \in 1 .. 3 : NoClaim(lines[i])
  BY <1>1
<1>3. QED
  BY <1>1, <1>2 DEF NoClaims, lines

\* What a handler logs, applied.
LEMMA LoggedNoClaims ==
  ASSUME NEW lines, NoClaims(lines), Logs(lines)
  PROVE  ClaimsSame(view', view)
BY ClaimsUntouched DEF Logs, Applied

\* One tally changes.
LEMMA TallyChanged ==
  ASSUME FlowsInv, NEW s \in Stakers, NEW id \in DOMAIN data_requests,
         NEW input \in Int, NEW output \in Int, LogsTransaction(s, id, input, output)
  PROVE  /\ tally' \in [Stakers -> [1 .. MaxRequests -> Int]]
         /\ tally'[s][id] = tally[s][id] + input - output
         /\ \A u \in Stakers, i \in 1 .. MaxRequests :
              u # s \/ i # id => tally'[u][i] = tally[u][i]
         /\ \A u \in Stakers : tally[u][id] \in Int
<1>1. tally \in [Stakers -> [1 .. MaxRequests -> Int]] /\ id \in 1 .. MaxRequests
  BY RequestIds DEF FlowsInv
<1>2. tally[s][id] + input - output \in Int
  <2> DEFINE t == tally[s][id]
  <2>1. t \in Int
    BY <1>1
  <2> HIDE DEF t
  <2>2. t + input - output \in Int
    BY <2>1
  <2>3. QED
    BY <2>2 DEF t
<1>3. tally' = [tally EXCEPT ![s][id] = @ + input - output]
  BY DEF LogsTransaction
<1> DEFINE n == tally[s][id] + input - output
<1>4. /\ tally' \in [Stakers -> [1 .. MaxRequests -> Int]]
      /\ tally'[s][id] = n
      /\ \A u \in Stakers, i \in 1 .. MaxRequests :
           u # s \/ i # id => tally'[u][i] = tally[u][i]
  <2>1. n \in Int /\ tally' = [tally EXCEPT ![s][id] = n]
    BY <1>2, <1>3
  <2> HIDE DEF n
  <2>2. QED
    BY <1>1, <2>1
<1>5. \A u \in Stakers : tally[u][id] \in Int
  BY <1>1
<1>6. QED
  BY <1>4, <1>5

\* A stake adds to the stake of its owner what the oracle keeps of it.
LEMMA LogDrStakeFlows ==
  ASSUME FlowsInv, Inv', NEW token \in Tokens, NEW sender \in Stakers, NEW amount \in StakeAmounts,
         NEW id \in DOMAIN data_requests, NEW outcome \in Outcomes,
         LogDrStake(token, sender, amount, id, outcome)
  PROVE  FlowsInv'
<1> DEFINE dr   == data_requests[id]
           e    == Staked(dr, sender, outcome, amount, now)
           kept == amount - Unspent(dr, outcome, amount, now)
<1>1. /\ DrStake(token, sender, amount, id, outcome)
      /\ Logs(StakeLines(id, sender, outcome, amount))
      /\ LogsTransaction(sender, id, amount, Unspent(dr, outcome, amount, now))
  BY DEF LogDrStake, StakeTransaction
<1>2. /\ IsActive(dr)
      /\ ~dr.final_arbitrator_triggered
      /\ CanStakeOnOutcome(dr, outcome)
      /\ data_requests' = [data_requests EXCEPT ![id] = e]
  BY <1>1 DEF DrStake
<1>3. dr \in Request /\ Ladder(dr) /\ now \in Nat /\ amount \in Nat
  BY RequestFacts, OracleAssumption DEF FlowsInv
<1>4. Unspent(dr, outcome, amount, now) \in Int
  BY <1>2, <1>3, UnspentBounds
<1>5. ClaimsSame(view', view)
  BY <1>1, StakeLinesNoClaims, LoggedNoClaims
<1>6. \A u \in Stakers :
        HasInAll(e.resolution_windows, u)
          = HasInAll(dr.resolution_windows, u) + IF u = sender THEN kept ELSE 0
  BY <1>2, <1>3, StakedHas
<1>7. \A u \in Stakers : HasInAll(dr.resolution_windows, u) \in Int
  BY <1>3, RequestFields, HasInAllType
<1>8. /\ tally' \in [Stakers -> [1 .. MaxRequests -> Int]]
      /\ tally'[sender][id] = tally[sender][id] + amount - Unspent(dr, outcome, amount, now)
      /\ \A u \in Stakers, i \in 1 .. MaxRequests :
           u # sender \/ i # id => tally'[u][i] = tally[u][i]
      /\ \A u \in Stakers : tally[u][id] \in Int
  BY <1>1, <1>3, <1>4, TallyChanged
<1> HIDE DEF e
<1>9. \A u \in Stakers :
        tally'[u][id] = tally[u][id] + HasInAll(e.resolution_windows, u)
                          - HasInAll(dr.resolution_windows, u)
  <2> TAKE u \in Stakers
  <2>1. id \in 1 .. MaxRequests
    BY RequestIds DEF FlowsInv
  <2> DEFINE before == HasInAll(dr.resolution_windows, u)
             after  == HasInAll(e.resolution_windows, u)
             back   == Unspent(dr, outcome, amount, now)
             t      == tally[u][id]
  <2>2. /\ before \in Int /\ t \in Int /\ back \in Int /\ amount \in Int
        /\ after = before + IF u = sender THEN amount - back ELSE 0
        /\ tally'[u][id] = IF u = sender THEN t + amount - back ELSE t
    BY <1>3, <1>4, <1>6, <1>7, <1>8, <2>1
  <2> HIDE DEF before, after, back, t
  <2>3. tally'[u][id] = t + after - before
    BY <2>2
  <2>4. QED
    BY <2>3 DEF before, after, t
<1>10. TallyElsewhere(id) /\ TallyFollows(dr, e, id)
  BY <1>8, <1>9 DEF TallyElsewhere, TallyFollows
<1>11. KeepsCorrect(dr, e)
  BY <1>2 DEF KeepsCorrect
<1>12. QED
  BY <1>2, <1>5, <1>10, <1>11, FlowsReplaced

\* A withdrawal takes off what it pays out.
LEMMA LogDrUnstakeFlows ==
  ASSUME FlowsInv, Inv', NEW id \in DOMAIN data_requests, NEW sender \in Stakers,
         NEW round \in DOMAIN data_requests[id].resolution_windows, NEW outcome \in Outcomes,
         NEW amount \in StakeAmounts, NEW succeeds \in TransferResults,
         LogDrUnstake(sender, id, round, outcome, amount, succeeds)
  PROVE  FlowsInv'
<1> DEFINE dr == data_requests[id]
           e  == Unstaked(dr, sender, round, outcome, amount)
           w  == data_requests'[id].resolution_windows[round]
<1>1. /\ DrUnstake(sender, id, round, outcome, amount, succeeds)
      /\ Logs(<< LogOutcomeToStake(id, round, w, outcome),
                 LogUserStake(id, round, w, sender, outcome),
                 LogUpdate(id, data_requests'[id]) >>)
      /\ LogsTransaction(sender, id, 0, amount)
  BY DEF LogDrUnstake, UnstakeTransaction
<1>2. /\ CanUnstake(dr.resolution_windows[round], sender, outcome, amount)
      /\ data_requests' = [data_requests EXCEPT ![id] = e]
  BY <1>1 DEF DrUnstake
<1>3. dr \in Request /\ Ladder(dr) /\ amount \in Nat
  BY RequestFacts, OracleAssumption DEF FlowsInv
<1>4. ClaimsSame(view', view)
  BY <1>1, LinesNoClaim, OneNoClaim, ThreeNoClaims, LoggedNoClaims
<1>5. \A u \in Stakers :
        /\ HasInAll(e.resolution_windows, u)
             = HasInAll(dr.resolution_windows, u) - IF u = sender THEN amount ELSE 0
        /\ ~IsActive(dr) => UserCorrectStake(e, u) = UserCorrectStake(dr, u)
  BY <1>2, <1>3, UnstakedHas
<1>6. \A u \in Stakers : HasInAll(dr.resolution_windows, u) \in Int
  BY <1>3, RequestFields, HasInAllType
<1>7. /\ tally' \in [Stakers -> [1 .. MaxRequests -> Int]]
      /\ tally'[sender][id] = tally[sender][id] + 0 - amount
      /\ \A u \in Stakers, i \in 1 .. MaxRequests :
           u # sender \/ i # id => tally'[u][i] = tally[u][i]
      /\ \A u \in Stakers : tally[u][id] \in Int
  <2>1. 0 \in Int /\ amount \in Int /\ LogsTransaction(sender, id, 0, amount)
    BY <1>1, <1>3
  <2>2. QED
    BY <2>1, TallyChanged
<1>8. ~IsActive(dr) => ~IsActive(e)
  BY <1>2, <1>3, UnstakedLadder DEF IsActive
<1> HIDE DEF e
<1>9. \A u \in Stakers :
        tally'[u][id] = tally[u][id] + HasInAll(e.resolution_windows, u)
                          - HasInAll(dr.resolution_windows, u)
  <2> TAKE u \in Stakers
  <2>1. id \in 1 .. MaxRequests
    BY RequestIds DEF FlowsInv
  <2> DEFINE before == HasInAll(dr.resolution_windows, u)
             after  == HasInAll(e.resolution_windows, u)
             t      == tally[u][id]
  <2>2. /\ before \in Int /\ t \in Int /\ amount \in Int
        /\ after = before - IF u = sender THEN amount ELSE 0
        /\ tally'[u][id] = IF u = sender THEN t + 0 - amount ELSE t
    BY <1>3, <1>5, <1>6, <1>7, <2>1
  <2> HIDE DEF before, after, t
  <2>3. tally'[u][id] = t + after - before
    BY <2>2
  <2>4. QED
    BY <2>3 DEF before, after, t
<1>10. TallyElsewhere(id) /\ TallyFollows(dr, e, id)
  BY <1>7, <1>9 DEF TallyElsewhere, TallyFollows
<1>11. KeepsCorrect(dr, e)
  BY <1>5, <1>8 DEF KeepsCorrect
<1>12. QED
  BY <1>2, <1>4, <1>10, <1>11, FlowsReplaced

\* A step that leaves requests, transactions and claims alone.
LEMMA FlowsSame ==
  ASSUME FlowsInv, Inv', data_requests' = data_requests, tally' = tally, ClaimsSame(view', view)
  PROVE  FlowsInv'
<1>1. /\ DOMAIN data_requests' = DOMAIN data_requests
      /\ Len(data_requests') = Len(data_requests)
      /\ \A i \in DOMAIN data_requests : i \in Nat
  BY RequestIds DEF FlowsInv
<1>2. \A u \in Stakers, i \in Nat :
        /\ HasClaimed(u, i)' <=> HasClaimed(u, i)
        /\ ClaimShown(u, i)' = ClaimShown(u, i)
  BY ClaimsShownSame DEF ClaimsSame
<1>3. ASSUME NEW u \in Stakers, NEW i \in DOMAIN data_requests
      PROVE  FlowsOf(u, i)'
  <2>1. FlowsOf(u, i)
    BY DEF FlowsInv
  <2>2. QED
    BY <1>1, <1>2, <2>1 DEF FlowsOf
<1>4. \A u \in Stakers, i \in DOMAIN data_requests' : FlowsOf(u, i)'
  BY <1>1, <1>3
<1>5. \A u \in Stakers, i \in (1 .. MaxRequests) \ DOMAIN data_requests' :
        tally'[u][i] = 0 /\ ~HasClaimed(u, i)'
  <2> TAKE u \in Stakers, i \in (1 .. MaxRequests) \ DOMAIN data_requests'
  <2>1. i \in (1 .. MaxRequests) \ DOMAIN data_requests /\ i \in Nat
    BY <1>1
  <2>2. tally[u][i] = 0 /\ ~HasClaimed(u, i)
    BY <2>1 DEF FlowsInv
  <2>3. QED
    BY <1>2, <2>1, <2>2
<1>6. QED
  BY <1>1, <1>4, <1>5 DEF FlowsInv

\* A new request has no stakes, and nothing was logged of it before.
LEMMA LogDrNewFlows ==
  ASSUME FlowsInv, Inv', NEW token, NEW sender, NEW amount, NEW payload,
         LogDrNew(token, sender, amount, payload)
  PROVE  FlowsInv'
<1> DEFINE new == NewRequest(sender, StakeMultiplier(sender), Len(configs), CurrentConfig,
                             amount - CurrentConfig.validity_bond, payload)
<1> PICK n \in Nat : n = Len(data_requests)
  BY RequestIds DEF FlowsInv
<1>1. /\ DrNew(token, sender, amount, payload)
      /\ Logs(<< LogNewDataRequest(Len(data_requests'), Last(data_requests')) >>)
      /\ tally' = tally
  BY DEF LogDrNew
<1>2. /\ n < MaxRequests
      /\ data_requests' = Append(data_requests, new)
  BY <1>1 DEF DrNew
<1>3. new.resolution_windows = << >>
  BY DEF NewRequest
<1> HIDE DEF new
<1>4. /\ data_requests \in Seq(Request)
      /\ n \in Nat
      /\ DOMAIN data_requests = 1 .. n
      /\ MaxRequests \in Nat
  BY RequestIds, OracleAssumption DEF FlowsInv
<1>5. /\ DOMAIN data_requests' = 1 .. (n + 1)
      /\ Len(data_requests') = n + 1
      /\ data_requests'[n + 1] = new
      /\ \A i \in DOMAIN data_requests : data_requests'[i] = data_requests[i]
  BY <1>2, <1>4
<1>6. ClaimsSame(view', view)
  BY <1>1, LinesNoClaim, OneNoClaim, LoggedNoClaims
<1>7. \A u \in Stakers, i \in Nat :
        /\ HasClaimed(u, i)' <=> HasClaimed(u, i)
        /\ ClaimShown(u, i)' = ClaimShown(u, i)
  BY <1>6, ClaimsShownSame DEF ClaimsSame
<1>8. ASSUME NEW u \in Stakers, NEW i \in DOMAIN data_requests
      PROVE  FlowsOf(u, i)'
  <2>1. FlowsOf(u, i) /\ i \in Nat
    BY <1>4 DEF FlowsInv
  <2>2. /\ ClaimShown(u, i)' = ClaimShown(u, i)
        /\ HasClaimed(u, i)' <=> HasClaimed(u, i)
        /\ tally'[u][i] = tally[u][i]
        /\ data_requests'[i] = data_requests[i]
    BY <1>1, <1>5, <1>7, <2>1
  <2>3. QED
    BY <2>1, <2>2 DEF FlowsOf
<1>9. ASSUME NEW u \in Stakers
      PROVE  FlowsOf(u, n + 1)'
  <2>1. n + 1 \in (1 .. MaxRequests) \ DOMAIN data_requests /\ n + 1 \in Nat
    BY <1>2, <1>4
  <2>2. tally[u][n + 1] = 0 /\ ~HasClaimed(u, n + 1)
    BY <2>1 DEF FlowsInv
  <2>3. ~HasClaimed(u, n + 1)' /\ tally'[u][n + 1] = 0
    BY <1>1, <1>7, <2>1, <2>2
  <2>4. ClaimShown(u, n + 1)' = 0
    BY <2>3 DEF ClaimShown
  <2>5. HasInAll(data_requests'[n + 1].resolution_windows, u) = 0
    BY <1>3, <1>5, HasNone
  <2>6. QED
    BY <2>3, <2>4, <2>5 DEF FlowsOf
<1>10. \A u \in Stakers, i \in DOMAIN data_requests' : FlowsOf(u, i)'
  <2> TAKE u \in Stakers, i \in DOMAIN data_requests'
  <2>1. i \in DOMAIN data_requests \/ i = n + 1
    BY <1>4, <1>5
  <2>2. QED
    BY <1>8, <1>9, <2>1
<1>11. \A u \in Stakers, i \in (1 .. MaxRequests) \ DOMAIN data_requests' :
         tally'[u][i] = 0 /\ ~HasClaimed(u, i)'
  <2> TAKE u \in Stakers, i \in (1 .. MaxRequests) \ DOMAIN data_requests'
  <2>1. i \in (1 .. MaxRequests) \ DOMAIN data_requests /\ i \in Nat
    BY <1>4, <1>5
  <2>2. tally[u][i] = 0 /\ ~HasClaimed(u, i)
    BY <2>1 DEF FlowsInv
  <2>3. QED
    BY <1>1, <1>7, <2>1, <2>2
<1>12. Len(data_requests') <= MaxRequests
  BY <1>2, <1>4, <1>5
<1>13. tally' \in [Stakers -> [1 .. MaxRequests -> Int]]
  BY <1>1 DEF FlowsInv
<1>14. QED
  BY <1>10, <1>11, <1>12, <1>13 DEF FlowsInv

\* Finalising a request moves no tokens of its stakers.
LEMMA LogFinalizedFlows ==
  ASSUME FlowsInv, Inv', NEW id \in DOMAIN data_requests, NEW outcome \in Outcomes,
         Decide(id, outcome), LogFinalized(id)
  PROVE  FlowsInv'
<1> DEFINE dr == data_requests[id]
           e  == Finalized(dr, outcome)
<1>1. IsActive(dr) /\ data_requests' = [data_requests EXCEPT ![id] = e]
  BY DEF Decide
<1>2. dr \in Request /\ Ladder(dr) /\ id \in 1 .. MaxRequests
  BY RequestIds DEF FlowsInv
<1>3. e.resolution_windows = dr.resolution_windows
  BY <1>2 DEF Finalized, Request
<1>4. tally' = tally /\ ClaimsSame(view', view)
  BY LinesNoClaim, OneNoClaim, LoggedNoClaims DEF LogFinalized
<1> HIDE DEF e
<1>5. TallyElsewhere(id)
  BY <1>4 DEF TallyElsewhere, FlowsInv
<1>6. TallyFollows(dr, e, id)
  <2> SUFFICES ASSUME NEW u \in Stakers
               PROVE  tally'[u][id] = tally[u][id] + HasInAll(e.resolution_windows, u)
                                        - HasInAll(dr.resolution_windows, u)
    BY DEF TallyFollows
  <2> DEFINE t == tally[u][id]
             h == HasInAll(dr.resolution_windows, u)
  <2>1. h \in Nat
    BY <1>2, RequestFields, HasInAllType
  <2>2. t \in Int
    <3>1. tally \in [Stakers -> [1 .. MaxRequests -> Int]]
      BY DEF FlowsInv
    <3>2. QED
      BY <1>2, <3>1
  <2> HIDE DEF t, h
  <2>3. t = t + h - h
    BY <2>1, <2>2
  <2>4. QED
    BY <1>3, <1>4, <2>3 DEF t, h
<1>7. KeepsCorrect(dr, e)
  BY <1>1 DEF KeepsCorrect
<1>8. QED
  BY <1>1, <1>4, <1>5, <1>6, <1>7, FlowsReplaced

\* A claim logs what it takes: it needs a stake behind the final outcome, which
\* nobody has who has claimed before.
LEMMA LogDrClaimFlows ==
  ASSUME FlowsInv, Inv', NEW id \in DOMAIN data_requests, NEW account \in Stakers,
         NEW stake_succeeds, NEW payment_succeeds,
         LogDrClaim(account, id, stake_succeeds, payment_succeeds)
  PROVE  FlowsInv'
<1> DEFINE dr    == data_requests[id]
           e     == Claimed(dr, account)
           taken == UserCorrectStake(dr, account)
           line  == LogUpdateFinalizedDataRequest(id, data_requests'[id])
<1>1. /\ DrClaim(account, id, stake_succeeds, payment_succeeds)
      /\ Logs(LogClaim(id, dr, account) \o << line >>)
      /\ tally' = tally
  BY DEF LogDrClaim
<1>2. /\ ~IsActive(dr)
      /\ StakePayout(dr, account) > 0 \/ PaymentPayout(dr, account) > 0
      /\ data_requests' = [data_requests EXCEPT ![id] = e]
  BY <1>1 DEF DrClaim
<1>3. /\ data_requests \in Seq(Request)
      /\ dr \in Request /\ Ladder(dr) /\ id \in Nat /\ id \in 1 .. MaxRequests
  BY RequestIds DEF FlowsInv
<1>4. taken # 0 /\ taken \in Nat
  <2>1. UserCorrectStake(dr, account) \in Nat
    BY <1>2, <1>3, UserCorrectStakeTotal
  <2>2. taken # 0
    BY <1>2, <1>3, PayoutType
  <2>3. QED
    BY <2>1, <2>2
<1>5. ~HasClaimed(account, id)
  BY <1>4 DEF FlowsInv, FlowsOf
<1>6. view' = Applied(view, LogClaim(id, dr, account) \o << line >>)
  BY <1>1 DEF Logs, Applied
<1>7. NoClaim(line)
  BY LinesNoClaim
<1> HIDE DEF line
<1>8. /\ ClaimKey(account, id) \in DOMAIN view'
      /\ view'[ClaimKey(account, id)].user_correct_stake = taken
      /\ \A u \in Stakers, i \in Nat :
           u # account \/ i # id => SameRow(view', view, ClaimKey(u, i))
  <2> DEFINE after == Applied(view, LogClaim(id, dr, account) \o << line >>)
  <2>1. /\ ClaimKey(account, id) \in DOMAIN after
        /\ after[ClaimKey(account, id)].user_correct_stake = UserCorrectStake(dr, account)
        /\ \A u \in Stakers, i \in Nat :
             u # account \/ i # id => SameRow(after, view, ClaimKey(u, i))
    <3> HIDE DEF dr
    <3>1. id \in Nat /\ account \in Stakers
      BY <1>3
    <3>2. QED
      BY ONLY <1>7, <3>1, ClaimWritten
  <2>2. view' = after
    BY <1>6
  <2> HIDE DEF after, dr
  <2>3. QED
    BY ONLY <2>1, <2>2 DEF taken
<1>9. ClaimsElsewhere(id) /\ TallyElsewhere(id)
  BY <1>1, <1>8 DEF ClaimsElsewhere, TallyElsewhere, FlowsInv
<1>10. \A u \in Stakers :
         /\ HasInAll(e.resolution_windows, u)
              = HasInAll(dr.resolution_windows, u) - IF u = account THEN taken ELSE 0
         /\ UserCorrectStake(e, u) = IF u = account THEN 0 ELSE UserCorrectStake(dr, u)
  BY <1>2, <1>3, ClaimedHas
<1>11. ~IsActive(e)
  BY <1>2, <1>3, ClaimedLadder DEF IsActive
<1>12. data_requests'[id] = e
  BY <1>2, <1>3
<1> HIDE DEF e
<1>13. ASSUME NEW u \in Stakers
       PROVE  FlowsOf(u, id)'
  <2> DEFINE before == HasInAll(dr.resolution_windows, u)
             after  == HasInAll(e.resolution_windows, u)
             t      == tally[u][id]
             c      == ClaimShown(u, id)
  <2>1. t - c = before /\ c \in Int /\ (HasClaimed(u, id) => UserCorrectStake(dr, u) = 0)
    BY DEF FlowsInv, FlowsOf
  <2>2. t \in Int /\ before \in Nat
    <3>1. tally \in [Stakers -> [1 .. MaxRequests -> Int]]
      BY DEF FlowsInv
    <3>2. before \in Nat
      BY <1>3, RequestFields, HasInAllType
    <3> HIDE DEF before
    <3>3. QED
      BY <1>3, <3>1, <3>2
  <2>3. CASE u = account
    <3>1. ClaimShown(u, id)' = taken
      BY <1>8, <2>3 DEF ClaimShown, HasClaimed
    <3>2. c = 0
      BY <1>5, <2>3 DEF ClaimShown
    <3>3. after = before - taken
      BY <1>10, <2>3
    <3>4. UserCorrectStake(e, u) = 0
      BY <1>10, <2>3
    <3>5. t - taken = after
      <4> HIDE DEF t, before, after, taken, c
      <4>1. QED
        BY <1>4, <2>1, <2>2, <3>2, <3>3
    <3>6. QED
      BY <1>1, <1>4, <1>11, <1>12, <3>1, <3>4, <3>5 DEF FlowsOf
  <2>4. CASE u # account
    <3>1. SameRow(view', view, ClaimKey(u, id))
      BY <1>3, <1>8, <2>4
    <3>2. ClaimShown(u, id)' = c /\ (HasClaimed(u, id)' <=> HasClaimed(u, id))
      BY <1>3, <3>1, ClaimsShownSame
    <3>3. after = before
      <4>1. after = before - 0
        BY <1>10, <2>4
      <4> HIDE DEF after, before
      <4>2. QED
        BY <2>2, <4>1
    <3>4. UserCorrectStake(e, u) = UserCorrectStake(dr, u)
      BY <1>10, <2>4
    <3>5. QED
      BY <1>1, <1>11, <1>12, <2>1, <3>2, <3>3, <3>4 DEF FlowsOf
  <2>5. QED
    BY <2>3, <2>4
<1>14. QED
  BY <1>2, <1>9, <1>13, FlowsElsewhere

---------------------------------------------------------------------------
(***************************************************************************)
(* The invariant                                                           *)
(***************************************************************************)

\* The list of a finite set has each of its members once.
LEMMA ListOfAll ==
  ASSUME NEW S, IsFiniteSet(S)
  PROVE  \E n \in Nat :
           /\ SetToSeq(S) \in [1 .. n -> S]
           /\ \A i, j \in 1 .. n : SetToSeq(S)[i] = SetToSeq(S)[j] => i = j
           /\ \A x \in S : \E i \in 1 .. n : SetToSeq(S)[i] = x
<1> DEFINE n == Cardinality(S)
           f == SetToSeq(S)
<1>1. n \in Nat /\ ExistsBijection(1 .. n, S)
  BY FS_CardinalityType
<1>2. PICK g \in [1 .. n -> S] : IsInjective(g)
  BY <1>1 DEF ExistsBijection, Bijection, Injection
<1>3. f \in [1 .. n -> S] /\ IsInjective(f)
  BY <1>2 DEF SetToSeq
<1>4. IsFiniteSet(1 .. n) /\ Cardinality(1 .. n) = n
  BY <1>1, FS_Interval
<1>5. f \in Injection(1 .. n, S)
  BY <1>3 DEF Injection
<1> HIDE DEF f
<1>6. f \in Surjection(1 .. n, S)
  BY <1>4, <1>5, FS_Injection
<1>7. \A x \in S : \E i \in 1 .. n : f[i] = x
  BY <1>6 DEF Surjection
<1>8. \A i, j \in 1 .. n : f[i] = f[j] => i = j
  BY <1>3 DEF IsInjective
<1>9. QED
  BY <1>1, <1>3, <1>7, <1>8 DEF f

\* What Contract::new and Whitelist::new log is no claim.
LEMMA FirstLinesNoClaims ==
  ASSUME LogInit
  PROVE  ClaimsSame(view, << >>)
<1> DEFINE first  == LogOracleConfig(1, CurrentConfig, fees[1])
           listed == SetToSeq(DOMAIN whitelist)
           W(r)   == LogWhitelist(r, whitelist[r], TRUE)
           wl     == [i \in DOMAIN listed |-> W(listed[i])]
           rest   == IF whitelist = NoWhitelist THEN << >> ELSE wl
           T      == {first} \union {W(r) : r \in DOMAIN whitelist}
<1>1. \A line \in T : NoClaim(line)
  BY LinesNoClaim
<1>2. rest \in Seq(T)
  <2>1. CASE whitelist = NoWhitelist
    BY <2>1
  <2>2. CASE whitelist # NoWhitelist
    <3>1. IsFiniteSet(DOMAIN whitelist)
      <4>1. DOMAIN whitelist \subseteq Requesters
        BY <2>2, OracleAssumption DEF LogInit, Init, IsWhitelist
      <4>2. QED
        BY <4>1, EventLogAssumption, FS_Subset
    <3>2. PICK n \in Nat : listed \in [1 .. n -> DOMAIN whitelist]
      BY <3>1, ListOfAll
    <3> HIDE DEF listed
    <3>3. wl \in [1 .. n -> T]
      BY <3>2
    <3>4. wl \in Seq(T)
      <4> HIDE DEF wl, T
      <4>1. QED
        BY <3>3
    <3>5. QED
      BY <2>2, <3>4
  <2>3. QED
    BY <2>1, <2>2
<1>3. << first >> \in Seq(T)
  OBVIOUS
<1>4. view = Applied(<< >>, << first >> \o rest)
  BY DEF LogInit, Applied
<1> HIDE DEF first, rest, T
<1>5. << first >> \o rest \in Seq(T)
  BY <1>2, <1>3
<1>6. NoClaims(<< first >> \o rest)
  BY <1>1, <1>5, NoClaimsOf
<1>7. QED
  BY <1>4, <1>6, ClaimsUntouched

\* It holds of a new oracle,
LEMMA LogInitFlows ==
  ASSUME LogInit
  PROVE  FlowsInv
<1>1. Inv
  BY InitInv DEF LogInit
<1>2. data_requests = << >> /\ DOMAIN data_requests = {} /\ Len(data_requests) = 0
  BY DEF LogInit, Init
<1>3. tally = [u \in Stakers |-> [id \in 1 .. MaxRequests |-> 0]]
  BY DEF LogInit
<1>4. \A u \in Stakers, id \in Nat : ~HasClaimed(u, id)
  BY FirstLinesNoClaims DEF ClaimsSame, SameRow, HasClaimed
<1>5. QED
  BY <1>1, <1>2, <1>3, <1>4, OracleAssumption DEF FlowsInv

\* and every step keeps it.
LEMMA LogNextFlows ==
  ASSUME FlowsInv, [LogNext]_allVars
  PROVE  FlowsInv'
<1>1. Inv'
  BY LogStep, NextInv DEF FlowsInv
<1>2. \A key : SameRow(view, view, key)
  BY DEF SameRow
<1>3. CASE UNCHANGED allVars
  <2>1. data_requests' = data_requests /\ tally' = tally /\ ClaimsSame(view', view)
    BY <1>2, <1>3 DEF allVars, vars, logVars, ClaimsSame
  <2>2. QED
    BY <1>1, <2>1, FlowsSame
<1>4. CASE \E token \in Tokens, sender \in Requesters, amount \in Payments, payload \in Payloads :
             LogDrNew(token, sender, amount, payload)
  BY <1>1, <1>4, LogDrNewFlows
<1>5. CASE \E id \in DOMAIN data_requests : LogRequestNext(id)
  <2>1. PICK id \in DOMAIN data_requests : LogRequestNext(id)
    BY <1>5
  <2>2. CASE \E token \in Tokens, sender \in Stakers, amount \in StakeAmounts, outcome \in Outcomes :
               LogDrStake(token, sender, amount, id, outcome)
    BY <1>1, <2>2, LogDrStakeFlows
  <2>3. CASE \E sender \in Stakers, round \in DOMAIN data_requests[id].resolution_windows,
                outcome \in Outcomes, amount \in StakeAmounts, succeeds \in TransferResults :
               LogDrUnstake(sender, id, round, outcome, amount, succeeds)
    BY <1>1, <2>3, LogDrUnstakeFlows
  <2>4. CASE \E succeeds \in TransferResults : DrFinalize(id, succeeds) /\ LogFinalized(id)
    <3>1. FinalOutcome(data_requests[id]) \in Outcomes
      BY <2>4, FinalOutcomeIsOutcome DEF FlowsInv
    <3>2. Decide(id, FinalOutcome(data_requests[id])) /\ LogFinalized(id)
      BY <2>4 DEF DrFinalize
    <3>3. QED
      BY <1>1, <3>1, <3>2, LogFinalizedFlows
  <2>5. CASE \E caller \in Accounts, outcome \in Outcomes :
               \/ DrFinalizeByProvider(caller, id, outcome) /\ LogFinalized(id)
               \/ \E succeeds \in TransferResults :
                    DrFinalArbitratorFinalize(caller, id, outcome, succeeds) /\ LogFinalized(id)
    <3>1. PICK outcome \in Outcomes : Decide(id, outcome) /\ LogFinalized(id)
      BY <2>5 DEF DrFinalizeByProvider, DrFinalArbitratorFinalize
    <3>2. QED
      BY <1>1, <3>1, LogFinalizedFlows
  <2>6. CASE \E account \in Stakers, stake_succeeds, payment_succeeds \in TransferResults :
               LogDrClaim(account, id, stake_succeeds, payment_succeeds)
    BY <1>1, <2>6, LogDrClaimFlows
  <2>7. QED
    BY <2>1, <2>2, <2>3, <2>4, <2>5, <2>6 DEF LogRequestNext
<1>6. CASE LogGovernanceNext
  <2>1. data_requests' = data_requests /\ tally' = tally
    BY <1>6 DEF LogGovernanceNext, LogSetConfig, SetConfig, UpdateFeeConfig, TogglePause,
                LogAddToWhitelist, AddToWhitelist, LogRemoveFromWhitelist, RemoveFromWhitelist,
                vars, logVars
  <2>2. view' = view \/ \E line : NoClaim(line) /\ Logs(<< line >>)
    BY <1>6, LinesNoClaim DEF LogGovernanceNext, LogSetConfig, UpdateFeeConfig,
                              LogAddToWhitelist, LogRemoveFromWhitelist, logVars
  <2>3. ClaimsSame(view', view)
    BY <1>2, <2>2, OneNoClaim, LoggedNoClaims DEF ClaimsSame
  <2>4. QED
    BY <1>1, <2>1, <2>3, FlowsSame
<1>7. CASE Tick /\ UNCHANGED logVars
  <2>1. data_requests' = data_requests /\ tally' = tally /\ ClaimsSame(view', view)
    BY <1>2, <1>7 DEF Tick, logVars, ClaimsSame
  <2>2. QED
    BY <1>1, <2>1, FlowsSame
<1>8. QED
  BY <1>3, <1>4, <1>5, <1>6, <1>7 DEF LogNext

\* The inductive invariant holds of every behaviour.
THEOREM FlowsInvariance == LogSpec => []FlowsInv
<1>1. LogInit => FlowsInv
  BY LogInitFlows
<1>2. FlowsInv /\ [LogNext]_allVars => FlowsInv'
  BY LogNextFlows
<1>3. QED
  BY <1>1, <1>2, PTL DEF LogSpec

(***************************************************************************)
(* What the log says of a staker's transactions and of its claim adds up to*)
(* what the contract holds for it: a stake is logged with what was kept of *)
(* it, a withdrawal with what was paid, and a claim once.                  *)
(***************************************************************************)
THEOREM FlowsAlwaysReconcile == LogSpec => []FlowsReconcile
<1>1. FlowsInv => FlowsReconcile
  BY FlowsInvReconciles
<1>2. QED
  BY <1>1, FlowsInvariance, PTL

---------------------------------------------------------------------------
(***************************************************************************)
(* The lines of a handler, one after the other                             *)
(***************************************************************************)

\* No line changes nothing.
LEMMA AppliedNone ==
  ASSUME NEW rows, NEW lines, DOMAIN lines = {}
  PROVE  Applied(rows, lines) = rows
<1>1. IsRowsTable(RowsTable(rows, lines, {}), rows, lines, {})
  BY RowsTableExists, FS_EmptySet
<1>2. QED
  BY <1>1, RowsTableAt, AppliedIsTable

\* The m lines of more are the n of lines and one more.
OneMore(n, m, lines, more) ==
  /\ n \in Nat
  /\ m = n + 1
  /\ DOMAIN lines = 1 .. n
  /\ DOMAIN more = 1 .. m
  /\ \A i \in 1 .. n : more[i] = lines[i]

\* The last line is applied last.
LEMMA AppliedLast ==
  ASSUME NEW rows, NEW n, NEW m, NEW lines, NEW more, OneMore(n, m, lines, more)
  PROVE  Applied(rows, more) = Upsert(Applied(rows, lines), more[m])
<1> USE DEF OneMore
<1> DEFINE S == 1 .. n + 1
           R == 1 .. n
           h == RowsTable(rows, more, S)
<1>1. S \in SUBSET Nat /\ R \in SUBSET S /\ R \in SUBSET Nat /\ S \in SUBSET S /\ S # {}
  OBVIOUS
<1>2. IsFiniteSet(S) /\ IsFiniteSet(R)
  BY FS_Interval
<1>3. Max(S) = n + 1 /\ S \ {Max(S)} = R
  <2>1. Max(S) \in S /\ \A y \in S : y <= Max(S)
    BY <1>1, <1>2, MaxIn
  <2>2. n + 1 \in S
    OBVIOUS
  <2>3. Max(S) = n + 1
    BY <2>1, <2>2
  <2>4. QED
    BY <2>3
<1> HIDE DEF S, R
<1>4. IsRowsTable(h, rows, more, S)
  BY <1>1, <1>2, RowsTableExists
<1>5. \A i \in R : lines[i] = more[i]
  BY DEF R
<1>6. IsRowsTable(TableFor(h, R), rows, lines, R)
  <2> HIDE DEF h
  <2>1. QED
    BY ONLY <1>1, <1>2, <1>4, <1>5, RowsTableRestricted
<1>7. IsRowsTable(RowsTable(rows, lines, R), rows, lines, R)
  BY <1>1, <1>2, RowsTableExists
<1>8. RowsTable(rows, lines, R) = TableFor(h, R)
  BY <1>1, <1>2, <1>6, <1>7, RowsTableUnique
<1>9. RowsTable(rows, lines, R)[R] = h[R]
  BY <1>8 DEF TableFor
<1>10. h[S] = Upsert(h[R], more[n + 1])
  <2> HIDE DEF h
  <2>1. h[S] = Upsert(h[S \ {Max(S)}], more[Max(S)])
    BY ONLY <1>1, <1>4, RowsTableAt
  <2>2. QED
    BY <1>3, <2>1
<1>11. Applied(rows, more) = h[S] /\ Applied(rows, lines) = RowsTable(rows, lines, R)[R]
  BY AppliedIsTable DEF S, R
<1>12. QED
  BY <1>9, <1>10, <1>11, m = n + 1

\* A line that may be left out.
Perhaps(condition, rows, line) == IF condition THEN Upsert(rows, line) ELSE rows

\* One more line.
LEMMA AppliedThen ==
  ASSUME NEW rows, NEW T, NEW lines, lines \in Seq(T), NEW line
  PROVE  Applied(rows, lines \o << line >>) = Upsert(Applied(rows, lines), line)
<1> DEFINE n    == Len(lines)
           m    == n + 1
           more == lines \o << line >>
<1>1. n \in Nat /\ DOMAIN lines = 1 .. n /\ m = n + 1
  OBVIOUS
<1>2. DOMAIN more = 1 .. m /\ more[m] = line /\ \A i \in 1 .. n : more[i] = lines[i]
  OBVIOUS
<1> HIDE DEF n, m, more
<1>3. Applied(rows, more) = Upsert(Applied(rows, lines), more[m])
  <2>1. OneMore(n, m, lines, more)
    BY <1>1, <1>2 DEF OneMore
  <2>2. QED
    BY ONLY <2>1, AppliedLast
<1>4. QED
  BY <1>2, <1>3 DEF more

\* Perhaps one more.
LEMMA AppliedOptional ==
  ASSUME NEW rows, NEW T, NEW lines, lines \in Seq(T), NEW line, NEW condition
  PROVE  Applied(rows, lines \o Optional(condition, line))
           = Perhaps(condition, Applied(rows, lines), line)
<1>1. CASE condition
  BY <1>1, AppliedThen DEF Optional, Perhaps
<1>2. CASE ~condition
  <2>1. lines \o << >> = lines
    OBVIOUS
  <2>2. QED
    BY <1>2, <2>1 DEF Optional, Perhaps
<1>3. QED
  BY <1>1, <1>2

\* Two more.
LEMMA AppliedThenTwo ==
  ASSUME NEW rows, NEW T, NEW lines, lines \in Seq(T), NEW x, NEW y
  PROVE  Applied(rows, lines \o << x, y >>) = Upsert(Upsert(Applied(rows, lines), x), y)
<1> DEFINE n    == Len(lines)
           m    == n + 1
           k    == n + 2
           mid  == lines \o << x >>
           more == lines \o << x, y >>
<1>1. n \in Nat /\ m \in Nat /\ m = n + 1 /\ k = m + 1
  OBVIOUS
<1>2. DOMAIN mid = 1 .. m /\ mid[m] = x /\ \A i \in 1 .. n : mid[i] = lines[i]
  OBVIOUS
<1>3. DOMAIN more = 1 .. k /\ more[m] = x /\ more[k] = y
      /\ \A i \in 1 .. n : more[i] = lines[i]
  OBVIOUS
<1>4. Applied(rows, mid) = Upsert(Applied(rows, lines), x)
  BY AppliedThen
<1> HIDE DEF n, m, k, mid, more
<1>5. \A i \in 1 .. m : more[i] = mid[i]
  BY <1>1, <1>2, <1>3
<1>6. Applied(rows, more) = Upsert(Applied(rows, mid), more[k])
  <2>1. OneMore(m, k, mid, more)
    BY <1>1, <1>2, <1>3, <1>5 DEF OneMore
  <2>2. QED
    BY ONLY <2>1, AppliedLast
<1>7. QED
  BY <1>3, <1>4, <1>6 DEF more

\* One line.
LEMMA AppliedOne ==
  ASSUME NEW rows, NEW x
  PROVE  Applied(rows, << x >>) = Upsert(rows, x)
<1> DEFINE none == << >>
           one  == << x >>
<1>1. DOMAIN none = {} /\ 1 .. 0 = {} /\ DOMAIN one = 1 .. 1 /\ one[1] = x
  OBVIOUS
<1> HIDE DEF none, one
<1>2. OneMore(0, 1, none, one)
  BY <1>1 DEF OneMore
<1>3. Applied(rows, one) = Upsert(Applied(rows, none), one[1])
  BY ONLY <1>2, AppliedLast
<1>4. Applied(rows, none) = rows
  BY <1>1, AppliedNone
<1>5. QED
  BY <1>1, <1>3, <1>4 DEF one

\* Three lines.
LEMMA AppliedThree ==
  ASSUME NEW rows, NEW x, NEW y, NEW z
  PROVE  Applied(rows, << x, y, z >>) = Upsert(Upsert(Upsert(rows, x), y), z)
<1> DEFINE one   == << x >>
           two   == << x, y >>
           three == << x, y, z >>
<1>1. DOMAIN one = 1 .. 1 /\ one[1] = x
  OBVIOUS
<1>2. DOMAIN two = 1 .. 2 /\ two[1] = x /\ two[2] = y
  OBVIOUS
<1>3. DOMAIN three = 1 .. 3 /\ three[1] = x /\ three[2] = y /\ three[3] = z
  OBVIOUS
<1>4. Applied(rows, one) = Upsert(rows, x)
  BY AppliedOne
<1> HIDE DEF one, two, three
<1>5. OneMore(1, 2, one, two)
  BY <1>1, <1>2 DEF OneMore
<1>6. OneMore(2, 3, two, three)
  BY <1>2, <1>3 DEF OneMore
<1>7. Applied(rows, two) = Upsert(Applied(rows, one), two[2])
  BY ONLY <1>5, AppliedLast
<1>8. Applied(rows, three) = Upsert(Applied(rows, two), three[3])
  BY ONLY <1>6, AppliedLast
<1>9. QED
  BY <1>2, <1>3, <1>4, <1>7, <1>8 DEF three

\* The lines of a stake.
LEMMA AppliedStake ==
  ASSUME NEW rows, NEW a, NEW b, NEW c, NEW d, NEW e, NEW f, NEW first, NEW full, NEW next
  PROVE  Applied(rows, Optional(first, a) \o << b, c >> \o Optional(full, d)
                         \o Optional(next, e) \o << f >>)
           = Upsert(Perhaps(next, Perhaps(full, Upsert(Upsert(Perhaps(first, rows, a), b), c), d),
                            e), f)
<1> DEFINE T  == {a, b, c, d, e, f}
           s0 == Optional(first, a)
           s2 == s0 \o << b, c >>
           s3 == s2 \o Optional(full, d)
           s4 == s3 \o Optional(next, e)
<1>1. /\ s0 \in Seq(T)
      /\ Optional(full, d) \in Seq(T)
      /\ Optional(next, e) \in Seq(T)
  BY OptionalType
<1>2. << b >> \in Seq(T) /\ << b, c >> \in Seq(T)
  OBVIOUS
<1>3. Applied(rows, s0) = Perhaps(first, rows, a)
  <2>1. CASE first
    BY <2>1, AppliedOne DEF Optional, Perhaps
  <2>2. CASE ~first
    <3>1. DOMAIN s0 = {}
      BY <2>2 DEF Optional
    <3>2. QED
      BY <2>2, <3>1, AppliedNone DEF Perhaps
  <2>3. QED
    BY <2>1, <2>2
<1> HIDE DEF s0, T
<1>4. s2 \in Seq(T)
  BY <1>1, <1>2
<1>5. Applied(rows, s2) = Upsert(Upsert(Applied(rows, s0), b), c)
  BY <1>1, AppliedThenTwo
<1> HIDE DEF s2
<1>7. s3 \in Seq(T)
  BY <1>1, <1>4
<1>8. Applied(rows, s3) = Perhaps(full, Applied(rows, s2), d)
  BY <1>4, AppliedOptional
<1> HIDE DEF s3
<1>9. s4 \in Seq(T)
  BY <1>1, <1>7
<1>10. Applied(rows, s4) = Perhaps(next, Applied(rows, s3), e)
  BY <1>7, AppliedOptional
<1> HIDE DEF s4
<1>11. Applied(rows, s4 \o << f >>) = Upsert(Applied(rows, s4), f)
  BY <1>9, AppliedThen
<1>12. QED
  BY <1>3, <1>5, <1>8, <1>10, <1>11 DEF s0, s2, s3, s4

---------------------------------------------------------------------------
(***************************************************************************)
(* Rows                                                                    *)
(***************************************************************************)

RequestKey(id) == << "dr", id >>
WindowKey(id, r) == << "rw", id, r >>
ConfigKey(i) == << "oc", i >>
WhitelistKey(requester) == << "wl", requester >>

\* The words of a cap_id.
LEMMA KeyWords ==
  ASSUME NEW id, NEW r, NEW o, NEW u
  PROVE  /\ RequestKey(id)[1] = "dr" /\ RequestKey(id)[2] = id
         /\ WindowKey(id, r)[1] = "rw" /\ WindowKey(id, r)[2] = id /\ WindowKey(id, r)[3] = r
         /\ ConfigKey(id)[1] = "oc" /\ ConfigKey(id)[2] = id
         /\ WhitelistKey(id)[1] = "wl" /\ WhitelistKey(id)[2] = id
         /\ ClaimKey(u, id)[1] = "c" /\ ClaimKey(u, id)[2] = u /\ ClaimKey(u, id)[3] = id
BY DEF RequestKey, WindowKey, ConfigKey, WhitelistKey, ClaimKey

\* No two outcomes have the same id: the prefix tells them apart.
LEMMA OutcomeIds ==
  ASSUME NEW o, NEW q, OutcomeToId(o) = OutcomeToId(q)
  PROVE  o = q
<1>1. CASE o = Invalid /\ q # Invalid
  <2>1. << "invalid" >>[1] = "invalid" /\ << "ans_str", q >>[1] = "ans_str"
    OBVIOUS
  <2>2. QED
    BY <1>1, <2>1 DEF OutcomeToId
<1>2. CASE o # Invalid /\ q = Invalid
  <2>1. << "invalid" >>[1] = "invalid" /\ << "ans_str", o >>[1] = "ans_str"
    OBVIOUS
  <2>2. QED
    BY <1>2, <2>1 DEF OutcomeToId
<1>3. CASE o # Invalid /\ q # Invalid
  <2>1. << "ans_str", o >>[2] = o /\ << "ans_str", q >>[2] = q
    OBVIOUS
  <2>2. QED
    BY <1>3, <2>1 DEF OutcomeToId
<1>4. QED
  BY <1>1, <1>2, <1>3

\* The cap_id of a stake names its outcome.
LEMMA OutcomeKeyNames ==
  ASSUME NEW id, NEW r, NEW o, NEW q, OutcomeStakeKey(id, r, q) = OutcomeStakeKey(id, r, o)
  PROVE  q = o
<1>1. OutcomeStakeKey(id, r, q)[4] = OutcomeToId(q) /\ OutcomeStakeKey(id, r, o)[4] = OutcomeToId(o)
  BY DEF OutcomeStakeKey
<1>2. OutcomeToId(q) = OutcomeToId(o)
  BY <1>1
<1>3. QED
  BY <1>2, OutcomeIds

\* So does the one of a user's stake.
LEMMA UserKeyNames ==
  ASSUME NEW id, NEW r, NEW o, NEW u, NEW q, NEW s,
         UserStakeKey(id, r, q, s) = UserStakeKey(id, r, o, u)
  PROVE  q = o /\ s = u
<1>1. /\ UserStakeKey(id, r, q, s)[4] = OutcomeToId(q) /\ UserStakeKey(id, r, o, u)[4] = OutcomeToId(o)
      /\ UserStakeKey(id, r, q, s)[5] = s /\ UserStakeKey(id, r, o, u)[5] = u
  BY DEF UserStakeKey
<1>2. OutcomeToId(q) = OutcomeToId(o) /\ s = u
  BY <1>1
<1>3. QED
  BY <1>2, OutcomeIds

\* A line writes no row but its own.
LEMMA LineElsewhere ==
  ASSUME NEW rows, NEW cap_id, NEW params, NEW key, key # cap_id, NEW condition
  PROVE  /\ SameRow(Upsert(rows, Line(cap_id, params)), rows, key)
         /\ SameRow(Perhaps(condition, rows, Line(cap_id, params)), rows, key)
<1>1. SameRow(Upsert(rows, Line(cap_id, params)), rows, key)
  BY UpsertRows DEF Line
<1>2. QED
  BY <1>1 DEF Perhaps, SameRow

\* A row that stays the same twice stays the same.
LEMMA SameRowTwice ==
  ASSUME NEW a, NEW b, NEW c, NEW key, SameRow(a, b, key), SameRow(b, c, key)
  PROVE  SameRow(a, c, key)
BY DEF SameRow

\* A line writes its fields, and no others.
LEMMA LineFields ==
  ASSUME NEW rows, NEW cap_id, NEW params
  PROVE  /\ \A field \in DOMAIN params :
              Shows(Upsert(rows, Line(cap_id, params)), cap_id, field, params[field])
         /\ \A field, value :
              field \notin DOMAIN params /\ Shows(rows, cap_id, field, value)
                => Shows(Upsert(rows, Line(cap_id, params)), cap_id, field, value)
<1>1. LET after == Upsert(rows, Line(cap_id, params))
      IN  /\ cap_id \in DOMAIN after
          /\ after[cap_id]
               = Written(IF cap_id \in DOMAIN rows THEN rows[cap_id] ELSE << >>, params)
  BY UpsertRows DEF Line
<1>2. QED
  BY <1>1 DEF Shows, Written

RowIs(rows, key, row) == key \in DOMAIN rows /\ rows[key] = row

\* A row that has no fields but those of the line.
Fits(rows, key, params) == key \in DOMAIN rows => DOMAIN rows[key] \subseteq DOMAIN params

\* becomes what the line says.
LEMMA LineRow ==
  ASSUME NEW rows, NEW cap_id, NEW params, Fits(rows, cap_id, params),
         params = [field \in DOMAIN params |-> params[field]]
  PROVE  RowIs(Upsert(rows, Line(cap_id, params)), cap_id, params)
<1> DEFINE old   == IF cap_id \in DOMAIN rows THEN rows[cap_id] ELSE << >>
           after == Upsert(rows, Line(cap_id, params))
<1>1. cap_id \in DOMAIN after /\ after[cap_id] = Written(old, params)
  BY UpsertRows DEF Line
<1>2. DOMAIN old \subseteq DOMAIN params
  BY DEF Fits
<1> HIDE DEF old, after
<1>3. Written(old, params) = [field \in DOMAIN params |-> params[field]]
  <2>1. DOMAIN old \union DOMAIN params = DOMAIN params
    BY <1>2
  <2>2. QED
    BY <2>1 DEF Written
<1>4. QED
  BY <1>1, <1>3 DEF RowIs, after

\* What a row of stakes shows.
StakeShown(rows, key) == IF key \in DOMAIN rows THEN rows[key].total_stake ELSE 0

\* A line of a stake shows it.
LEMMA LineStake ==
  ASSUME NEW rows, NEW cap_id, NEW n
  PROVE  LET line == Line(cap_id, [total_stake |-> n])
         IN  /\ StakeShown(Upsert(rows, line), cap_id) = n
             /\ cap_id \in DOMAIN Upsert(rows, line)
<1> DEFINE params == [total_stake |-> n]
<1>1. "total_stake" \in DOMAIN params /\ params["total_stake"] = n
  OBVIOUS
<1>2. Shows(Upsert(rows, Line(cap_id, params)), cap_id, "total_stake", params["total_stake"])
  BY <1>1, LineFields
<1>3. QED
  BY <1>1, <1>2 DEF Shows, StakeShown

\* Rows that are the same show the same.
LEMMA SameShown ==
  ASSUME NEW rows, NEW others, NEW key, SameRow(rows, others, key)
  PROVE  /\ StakeShown(rows, key) = StakeShown(others, key)
         /\ \A row : RowIs(rows, key, row) <=> RowIs(others, key, row)
         /\ \A field, value : Shows(rows, key, field, value) <=> Shows(others, key, field, value)
         /\ \A params : Fits(rows, key, params) <=> Fits(others, key, params)
BY DEF SameRow, StakeShown, RowIs, Shows, Fits

---------------------------------------------------------------------------
(***************************************************************************)
(* The row of a request                                                    *)
(***************************************************************************)

RequestRow(rows, id, dr) ==
  LET key == RequestKey(id)
  IN  /\ Shows(rows, key, "global_config_id", dr.global_config_id)
      /\ Shows(rows, key, "paid_fee", dr.request_config.paid_fee)
      /\ Shows(rows, key, "finalized_outcome", dr.finalized_outcome)
      /\ IsActive(dr) =>
           /\ Shows(rows, key, "outcomes", dr.outcomes)
           /\ Shows(rows, key, "data_type", dr.data_type)
           /\ Shows(rows, key, "requester", dr.requester)
           /\ Shows(rows, key, "stake_multiplier", dr.request_config.stake_multiplier)
           /\ Shows(rows, key, "initial_challenge_period", dr.initial_challenge_period)
           /\ Shows(rows, key, "final_arbitrator_triggered", dr.final_arbitrator_triggered)

\* What no operation on a request changes.
Lasting(e, dr) ==
  /\ e.global_config_id = dr.global_config_id
  /\ e.request_config = dr.request_config
  /\ e.data_type = dr.data_type

\* The line of a new request shows it.
LEMMA NewRequestRow ==
  ASSUME NEW rows, NEW id, NEW dr, IsActive(dr)
  PROVE  RequestRow(Upsert(rows, LogNewDataRequest(id, dr)), id, dr)
<1> DEFINE params == [ outcomes                   |-> dr.outcomes,
                       requester                  |-> dr.requester,
                       finalized_outcome          |-> NoOutcome,
                       initial_challenge_period   |-> dr.initial_challenge_period,
                       final_arbitrator_triggered |-> dr.final_arbitrator_triggered,
                       paid_fee                   |-> dr.request_config.paid_fee,
                       stake_multiplier           |-> dr.request_config.stake_multiplier,
                       global_config_id           |-> dr.global_config_id,
                       data_type                  |-> dr.data_type ]
           after  == Upsert(rows, Line(RequestKey(id), params))
<1>1. LogNewDataRequest(id, dr) = Line(RequestKey(id), params)
  BY DEF LogNewDataRequest, RequestKey
<1>2. \A field \in DOMAIN params : Shows(after, RequestKey(id), field, params[field])
  BY LineFields
<1>3. DOMAIN params = {"outcomes", "requester", "finalized_outcome", "initial_challenge_period",
                       "final_arbitrator_triggered", "paid_fee", "stake_multiplier",
                       "global_config_id", "data_type"}
  OBVIOUS
<1>4. /\ params["global_config_id"] = dr.global_config_id
      /\ params["paid_fee"] = dr.request_config.paid_fee
      /\ params["finalized_outcome"] = dr.finalized_outcome
      /\ params["outcomes"] = dr.outcomes
      /\ params["data_type"] = dr.data_type
      /\ params["requester"] = dr.requester
      /\ params["stake_multiplier"] = dr.request_config.stake_multiplier
      /\ params["initial_challenge_period"] = dr.initial_challenge_period
      /\ params["final_arbitrator_triggered"] = dr.final_arbitrator_triggered
  BY DEF IsActive
<1> HIDE DEF params, after
<1>5. RequestRow(after, id, dr)
  BY <1>2, <1>3, <1>4 DEF RequestRow
<1>6. QED
  BY <1>1, <1>5 DEF after

\* The line of an active request keeps the rest of the row.
LEMMA ActiveRow ==
  ASSUME NEW rows, NEW id, NEW dr, NEW e, RequestRow(rows, id, dr), IsActive(dr),
         Lasting(e, dr), e.finalized_outcome = dr.finalized_outcome
  PROVE  RequestRow(Upsert(rows, LogUpdateActiveDataRequest(id, e)), id, e)
<1> DEFINE params == [ outcomes                   |-> e.outcomes,
                       requester                  |-> e.requester,
                       initial_challenge_period   |-> e.initial_challenge_period,
                       final_arbitrator_triggered |-> e.final_arbitrator_triggered ]
           key    == RequestKey(id)
           after  == Upsert(rows, Line(key, params))
<1>1. LogUpdateActiveDataRequest(id, e) = Line(key, params)
  BY DEF LogUpdateActiveDataRequest, RequestKey
<1>2. /\ \A field \in DOMAIN params : Shows(after, key, field, params[field])
      /\ \A field, value :
           field \notin DOMAIN params /\ Shows(rows, key, field, value)
             => Shows(after, key, field, value)
  BY LineFields
<1>3. DOMAIN params = {"outcomes", "requester", "initial_challenge_period",
                       "final_arbitrator_triggered"}
  OBVIOUS
<1>4. /\ params["outcomes"] = e.outcomes
      /\ params["requester"] = e.requester
      /\ params["initial_challenge_period"] = e.initial_challenge_period
      /\ params["final_arbitrator_triggered"] = e.final_arbitrator_triggered
  OBVIOUS
<1> HIDE DEF params, after, key
<1>5. /\ Shows(rows, key, "global_config_id", e.global_config_id)
      /\ Shows(rows, key, "paid_fee", e.request_config.paid_fee)
      /\ Shows(rows, key, "finalized_outcome", e.finalized_outcome)
      /\ Shows(rows, key, "data_type", e.data_type)
      /\ Shows(rows, key, "stake_multiplier", e.request_config.stake_multiplier)
  BY DEF RequestRow, Lasting, key
<1>6. /\ Shows(after, key, "global_config_id", e.global_config_id)
      /\ Shows(after, key, "paid_fee", e.request_config.paid_fee)
      /\ Shows(after, key, "finalized_outcome", e.finalized_outcome)
      /\ Shows(after, key, "data_type", e.data_type)
      /\ Shows(after, key, "stake_multiplier", e.request_config.stake_multiplier)
  BY <1>2, <1>3, <1>5
<1>7. /\ Shows(after, key, "outcomes", e.outcomes)
      /\ Shows(after, key, "requester", e.requester)
      /\ Shows(after, key, "initial_challenge_period", e.initial_challenge_period)
      /\ Shows(after, key, "final_arbitrator_triggered", e.final_arbitrator_triggered)
  BY <1>2, <1>3, <1>4
<1>8. RequestRow(after, id, e)
  BY <1>6, <1>7 DEF RequestRow, key
<1>9. QED
  BY <1>1, <1>8 DEF after

\* So does the line of a final one.
LEMMA FinalRow ==
  ASSUME NEW rows, NEW id, NEW dr, NEW e, RequestRow(rows, id, dr), ~IsActive(e), Lasting(e, dr)
  PROVE  RequestRow(Upsert(rows, LogUpdateFinalizedDataRequest(id, e)), id, e)
<1> DEFINE params == [finalized_outcome |-> e.finalized_outcome]
           key    == RequestKey(id)
           after  == Upsert(rows, Line(key, params))
<1>1. LogUpdateFinalizedDataRequest(id, e) = Line(key, params)
  BY DEF LogUpdateFinalizedDataRequest, RequestKey
<1>2. /\ \A field \in DOMAIN params : Shows(after, key, field, params[field])
      /\ \A field, value :
           field \notin DOMAIN params /\ Shows(rows, key, field, value)
             => Shows(after, key, field, value)
  BY LineFields
<1>3. DOMAIN params = {"finalized_outcome"} /\ params["finalized_outcome"] = e.finalized_outcome
  OBVIOUS
<1> HIDE DEF params, after, key
<1>4. /\ Shows(rows, key, "global_config_id", e.global_config_id)
      /\ Shows(rows, key, "paid_fee", e.request_config.paid_fee)
  BY DEF RequestRow, Lasting, key
<1>5. /\ Shows(after, key, "global_config_id", e.global_config_id)
      /\ Shows(after, key, "paid_fee", e.request_config.paid_fee)
      /\ Shows(after, key, "finalized_outcome", e.finalized_outcome)
  BY <1>2, <1>3, <1>4
<1>6. RequestRow(after, id, e)
  BY <1>5 DEF RequestRow, key
<1>7. QED
  BY <1>1, <1>6 DEF after

\* And the line log_update chooses.
LEMMA UpdatedRow ==
  ASSUME NEW rows, NEW id, NEW dr, NEW e, RequestRow(rows, id, dr), Lasting(e, dr),
         e.finalized_outcome = dr.finalized_outcome
  PROVE  RequestRow(Upsert(rows, LogUpdate(id, e)), id, e)
BY ActiveRow, FinalRow DEF LogUpdate, IsActive

\* The first line of a claim adds other fields.
LEMMA ClaimTotalsRow ==
  ASSUME NEW rows, NEW id, NEW dr, RequestRow(rows, id, dr), NEW correct, NEW incorrect
  PROVE  RequestRow(Upsert(rows, Line(RequestKey(id), [ total_correct_bonded_staked |-> correct,
                                                        total_incorrect_staked |-> incorrect ])),
                    id, dr)
<1> DEFINE params == [ total_correct_bonded_staked |-> correct, total_incorrect_staked |-> incorrect ]
           key    == RequestKey(id)
           after  == Upsert(rows, Line(key, params))
<1>1. DOMAIN params = {"total_correct_bonded_staked", "total_incorrect_staked"}
  OBVIOUS
<1>2. \A field, value :
        field \notin DOMAIN params /\ Shows(rows, key, field, value)
          => Shows(after, key, field, value)
  BY LineFields
<1> HIDE DEF params, after, key
<1>3. \A field, value :
        field \notin {"total_correct_bonded_staked", "total_incorrect_staked"}
          /\ Shows(rows, key, field, value)
            => Shows(after, key, field, value)
  BY <1>1, <1>2
<1>4. RequestRow(after, id, dr)
  BY <1>3 DEF RequestRow, key
<1>5. QED
  BY <1>4 DEF after, key, params

\* A row that is the same shows the same request.
LEMMA SameRequestRow ==
  ASSUME NEW rows, NEW others, NEW id, NEW dr, SameRow(rows, others, RequestKey(id))
  PROVE  RequestRow(rows, id, dr) <=> RequestRow(others, id, dr)
BY SameShown DEF RequestRow

---------------------------------------------------------------------------
(***************************************************************************)
(* The rows of a window                                                    *)
(***************************************************************************)

\* Nothing was logged of a round.
BlankRound(rows, id, r) ==
  /\ WindowKey(id, r) \notin DOMAIN rows
  /\ \A o \in Outcomes : OutcomeStakeKey(id, r, o) \notin DOMAIN rows
  /\ \A o \in Outcomes, u \in Stakers : UserStakeKey(id, r, o, u) \notin DOMAIN rows

\* The rows of a window, but for those of its stakers, show it.
RoundShown(rows, id, r, w) ==
  /\ RowIs(rows, WindowKey(id, r), WindowSummary(w))
  /\ \A o \in Outcomes : StakeShown(rows, OutcomeStakeKey(id, r, o)) = w.outcome_to_stake[o]

UserShown(rows, id, r, w, u, o) ==
  StakeShown(rows, UserStakeKey(id, r, o, u)) = w.user_to_outcome_to_stake[u][o]

\* The rows of a round are the same in two tables.
SameRound(rows, others, id, r) ==
  /\ SameRow(rows, others, WindowKey(id, r))
  /\ \A o \in Outcomes : SameRow(rows, others, OutcomeStakeKey(id, r, o))
  /\ \A o \in Outcomes, u \in Stakers : SameRow(rows, others, UserStakeKey(id, r, o, u))

\* Then they show the same.
LEMMA SameRoundShown ==
  ASSUME NEW rows, NEW others, NEW id, NEW r, SameRound(rows, others, id, r)
  PROVE  /\ BlankRound(others, id, r) => BlankRound(rows, id, r)
         /\ \A w : RoundShown(others, id, r, w) => RoundShown(rows, id, r, w)
         /\ \A w : \A u \in Stakers, o \in Outcomes :
              UserShown(others, id, r, w, u, o) => UserShown(rows, id, r, w, u, o)
<1>1. BlankRound(others, id, r) => BlankRound(rows, id, r)
  BY DEF SameRound, BlankRound, SameRow
<1>2. \A w : RoundShown(others, id, r, w) => RoundShown(rows, id, r, w)
  BY SameShown DEF SameRound, RoundShown
<1>3. \A w : \A u \in Stakers, o \in Outcomes :
        UserShown(others, id, r, w, u, o) => UserShown(rows, id, r, w, u, o)
  BY SameShown DEF SameRound, UserShown
<1>4. QED
  BY <1>1, <1>2, <1>3

\* A new window shows in a blank round as soon as its own row is written.
LEMMA BlankShown ==
  ASSUME NEW rows, NEW id, NEW r, BlankRound(rows, id, r), NEW w,
         w.outcome_to_stake = [o \in Outcomes |-> 0],
         w.user_to_outcome_to_stake = [u \in Stakers |-> [o \in Outcomes |-> 0]]
  PROVE  /\ \A o \in Outcomes : StakeShown(rows, OutcomeStakeKey(id, r, o)) = w.outcome_to_stake[o]
         /\ \A u \in Stakers, o \in Outcomes : UserShown(rows, id, r, w, u, o)
BY DEF BlankRound, StakeShown, UserShown

\* The rows of a request and of its windows have keys of their own.
LEMMA RoundKeysDiffer ==
  ASSUME NEW id, NEW r, NEW o, NEW u, NEW key,
         key[1] \notin {"rw", "ots", "us"} \/ key[2] # id \/ key[3] # r
  PROVE  /\ key # WindowKey(id, r)
         /\ key # OutcomeStakeKey(id, r, o)
         /\ key # UserStakeKey(id, r, o, u)
<1> DEFINE a == WindowKey(id, r)
           b == OutcomeStakeKey(id, r, o)
           c == UserStakeKey(id, r, o, u)
<1>1. a[1] = "rw" /\ a[2] = id /\ a[3] = r
  BY KeyWords
<1>2. b[1] = "ots" /\ b[2] = id /\ b[3] = r
  BY DEF OutcomeStakeKey
<1>3. c[1] = "us" /\ c[2] = id /\ c[3] = r
  BY DEF UserStakeKey
<1> HIDE DEF a, b, c
<1>4. key # a /\ key # b /\ key # c
  BY <1>1, <1>2, <1>3
<1>5. QED
  BY <1>4 DEF a, b, c

\* A line that is of no round, or of another one, changes nothing of a round.
LEMMA LineOtherRound ==
  ASSUME NEW rows, NEW id, NEW r, NEW cap_id, NEW params, NEW condition,
         cap_id[1] \notin {"rw", "ots", "us"} \/ cap_id[2] # id \/ cap_id[3] # r
  PROVE  /\ SameRound(Upsert(rows, Line(cap_id, params)), rows, id, r)
         /\ SameRound(Perhaps(condition, rows, Line(cap_id, params)), rows, id, r)
BY RoundKeysDiffer, LineElsewhere DEF SameRound

\* Rounds that are the same twice.
LEMMA SameRoundTwice ==
  ASSUME NEW a, NEW b, NEW c, NEW id, NEW r, SameRound(a, b, id, r), SameRound(b, c, id, r)
  PROVE  SameRound(a, c, id, r)
BY SameRowTwice DEF SameRound

\* The line of a window, in a table that has its row with the fields of a
\* summary or not at all.
LEMMA WindowLine ==
  ASSUME NEW rows, NEW id, NEW r, NEW w, NEW v,
         \/ WindowKey(id, r) \notin DOMAIN rows
         \/ RowIs(rows, WindowKey(id, r), WindowSummary(v))
  PROVE  /\ RowIs(Upsert(rows, LogResolutionWindow(id, r, w)), WindowKey(id, r), WindowSummary(w))
         /\ \A key : key # WindowKey(id, r) =>
              SameRow(Upsert(rows, LogResolutionWindow(id, r, w)), rows, key)
<1> DEFINE params == WindowSummary(w)
<1>1. LogResolutionWindow(id, r, w) = Line(WindowKey(id, r), params)
  BY DEF LogResolutionWindow, WindowKey
<1>2. DOMAIN params = DOMAIN WindowSummary(v) /\ params = [field \in DOMAIN params |-> params[field]]
  BY DEF WindowSummary
<1> HIDE DEF params
<1>3. Fits(rows, WindowKey(id, r), params)
  BY <1>2 DEF Fits, RowIs
<1>4. RowIs(Upsert(rows, Line(WindowKey(id, r), params)), WindowKey(id, r), params)
  BY <1>2, <1>3, LineRow
<1>5. QED
  BY <1>1, <1>4, LineElsewhere DEF params

---------------------------------------------------------------------------
(***************************************************************************)
(* What the lines about one request leave alone                            *)
(***************************************************************************)

\* A row that is there stays, whatever the lines write.
LEMMA RowKept ==
  ASSUME NEW rows, NEW n \in Nat, NEW lines, DOMAIN lines = 1 .. n, NEW key, key \in DOMAIN rows
  PROVE  key \in DOMAIN Applied(rows, lines)
<1> DEFINE S == 1 .. n
<1>1. PICK h : IsHistory(h, rows, lines, S)
  BY LinesTable
<1> DEFINE Good == {s \in SUBSET S : key \in DOMAIN h[s]}
<1> HIDE DEF S
<1>2. {} \in Good
  BY <1>1 DEF IsHistory
<1>3. ASSUME NEW s \in SUBSET S, s # {}, s \ {Max(s)} \in Good
      PROVE  s \in Good
  <2> DEFINE t == h[s \ {Max(s)}]
  <2>1. h[s] = Upsert(t, lines[Max(s)]) /\ key \in DOMAIN t
    BY <1>1, <1>3 DEF IsHistory
  <2> HIDE DEF t
  <2>2. key \in DOMAIN h[s]
    BY <2>1 DEF Upsert
  <2>3. QED
    BY <2>2
<1> HIDE DEF Good
<1>4. S \in Good
  <2>1. S \in SUBSET Nat /\ IsFiniteSet(S)
    BY <1>1 DEF IsHistory
  <2>2. QED
    BY ONLY <1>2, <1>3, <2>1, LinesInduction
<1>5. QED
  BY <1>1, <1>4 DEF Good, IsHistory

RequestWords == {"dr", "rw", "ots", "us"}

\* A line about one request, or about a claim.
LineOf(id, line) ==
  \/ line.cap_id[1] = "c"
  \/ line.cap_id[1] \in RequestWords /\ line.cap_id[2] = id

LinesOf(id, lines) ==
  \E n \in Nat : DOMAIN lines = 1 .. n /\ \A i \in 1 .. n : LineOf(id, lines[i])

\* A row of another request, or of none.
RowElsewhere(id, key) ==
  \/ key[1] \in {"oc", "wl"}
  \/ key[1] \in RequestWords /\ key[2] # id

\* Such rows stay as they are, and no row goes away.
LEMMA RowsElsewhere ==
  ASSUME NEW rows, NEW id, NEW lines, LinesOf(id, lines)
  PROVE  /\ \A key : RowElsewhere(id, key) => SameRow(Applied(rows, lines), rows, key)
         /\ DOMAIN rows \subseteq DOMAIN Applied(rows, lines)
<1>1. PICK n \in Nat : DOMAIN lines = 1 .. n /\ \A i \in 1 .. n : LineOf(id, lines[i])
  BY DEF LinesOf
<1>2. ASSUME NEW key, RowElsewhere(id, key)
      PROVE  SameRow(Applied(rows, lines), rows, key)
  <2>1. \A i \in 1 .. n : lines[i].cap_id # key
    BY <1>1, <1>2 DEF LineOf, RowElsewhere, RequestWords
  <2>2. QED
    BY <1>1, <2>1, RowUntouched
<1>3. DOMAIN rows \subseteq DOMAIN Applied(rows, lines)
  BY <1>1, RowKept
<1>4. QED
  BY <1>2, <1>3

\* The keys of another request, of configurations and of the whitelist.
LEMMA KeysElsewhere ==
  ASSUME NEW id, NEW i, i # id
  PROVE  /\ RowElsewhere(id, RequestKey(i))
         /\ \A r : RowElsewhere(id, WindowKey(i, r))
         /\ \A r, o : RowElsewhere(id, OutcomeStakeKey(i, r, o))
         /\ \A r, o, u : RowElsewhere(id, UserStakeKey(i, r, o, u))
<1>1. RowElsewhere(id, RequestKey(i))
  BY DEF RowElsewhere, RequestKey, RequestWords
<1>2. \A r : RowElsewhere(id, WindowKey(i, r))
  BY DEF RowElsewhere, WindowKey, RequestWords
<1>3. \A r, o : RowElsewhere(id, OutcomeStakeKey(i, r, o))
  BY DEF RowElsewhere, OutcomeStakeKey, RequestWords
<1>4. \A r, o, u : RowElsewhere(id, UserStakeKey(i, r, o, u))
  BY DEF RowElsewhere, UserStakeKey, RequestWords
<1>5. QED
  BY <1>1, <1>2, <1>3, <1>4

\* The keys of governance.
LEMMA GovernanceElsewhere ==
  ASSUME NEW id
  PROVE  /\ \A i : RowElsewhere(id, ConfigKey(i))
         /\ \A requester : RowElsewhere(id, WhitelistKey(requester))
<1>1. \A i : RowElsewhere(id, ConfigKey(i))
  BY DEF RowElsewhere, ConfigKey
<1>2. \A requester : RowElsewhere(id, WhitelistKey(requester))
  BY DEF RowElsewhere, WhitelistKey
<1>3. QED
  BY <1>1, <1>2

---------------------------------------------------------------------------
(***************************************************************************)
(* All rows of a request, and of governance                                *)
(***************************************************************************)

Claims(rows, u, id) == ClaimKey(u, id) \in DOMAIN rows

\* The stakes of a request that is final may have been claimed.
UserAgrees(rows, id, dr, r, u, o) ==
  \/ UserShown(rows, id, r, dr.resolution_windows[r], u, o)
  \/ /\ ~IsActive(dr)
     /\ Claims(rows, u, id)
     /\ IsCorrect(dr.resolution_windows[r], dr.finalized_outcome)

RequestAgrees(rows, id, dr) ==
  /\ RequestRow(rows, id, dr)
  /\ \A r \in DOMAIN dr.resolution_windows : RoundShown(rows, id, r, dr.resolution_windows[r])
  /\ \A r \in DOMAIN dr.resolution_windows : \A u \in Stakers, o \in Outcomes :
       UserAgrees(rows, id, dr, r, u, o)
  /\ \A r \in Nat \ DOMAIN dr.resolution_windows : BlankRound(rows, id, r)

NothingLogged(rows, id) == \A r \in Nat : BlankRound(rows, id, r)

ConfigsAgree(rows, cs, fs) ==
  /\ \A i \in DOMAIN cs : RowIs(rows, ConfigKey(i), [config |-> cs[i], fee |-> fs[i]])
  /\ \A i \in Nat \ DOMAIN cs : ConfigKey(i) \notin DOMAIN rows

ListedRow(multiplier, active) == [stake_multiplier |-> multiplier, active |-> active]

RequesterAgrees(rows, wl, requester) ==
  IF wl # NoWhitelist /\ requester \in DOMAIN wl
    THEN RowIs(rows, WhitelistKey(requester), ListedRow(wl[requester], TRUE))
    ELSE \/ WhitelistKey(requester) \notin DOMAIN rows
         \/ \E m : RowIs(rows, WhitelistKey(requester), ListedRow(m, FALSE))

WhitelistAgrees(rows, wl) == \A requester \in Requesters : RequesterAgrees(rows, wl, requester)

\* Rows of another request show what they did.
LEMMA OthersAgree ==
  ASSUME NEW rows, NEW others, NEW id,
         \A key : RowElsewhere(id, key) => SameRow(rows, others, key),
         DOMAIN others \subseteq DOMAIN rows,
         NEW i, i # id
  PROVE  /\ \A dr : RequestAgrees(others, i, dr) => RequestAgrees(rows, i, dr)
         /\ NothingLogged(others, i) => NothingLogged(rows, i)
<1>1. SameRow(rows, others, RequestKey(i))
  BY KeysElsewhere
<1>2. \A r : SameRound(rows, others, i, r)
  BY KeysElsewhere DEF SameRound
<1>3. \A u : Claims(others, u, i) => Claims(rows, u, i)
  BY DEF Claims
<1>4. ASSUME NEW dr, RequestAgrees(others, i, dr)
      PROVE  RequestAgrees(rows, i, dr)
  <2>1. RequestRow(rows, i, dr)
    BY <1>1, <1>4, SameRequestRow DEF RequestAgrees
  <2>2. \A r \in DOMAIN dr.resolution_windows : RoundShown(rows, i, r, dr.resolution_windows[r])
    BY <1>2, <1>4, SameRoundShown DEF RequestAgrees
  <2>3. ASSUME NEW r \in DOMAIN dr.resolution_windows, NEW u \in Stakers, NEW o \in Outcomes
        PROVE  UserAgrees(rows, i, dr, r, u, o)
    <3>1. UserAgrees(others, i, dr, r, u, o)
      BY <1>4 DEF RequestAgrees
    <3>2. UserShown(others, i, r, dr.resolution_windows[r], u, o)
            => UserShown(rows, i, r, dr.resolution_windows[r], u, o)
      BY <1>2, SameRoundShown
    <3>3. QED
      BY <1>3, <3>1, <3>2 DEF UserAgrees
  <2>4. \A r \in Nat \ DOMAIN dr.resolution_windows : BlankRound(rows, i, r)
    BY <1>2, <1>4, SameRoundShown DEF RequestAgrees
  <2>5. QED
    BY <2>1, <2>2, <2>3, <2>4 DEF RequestAgrees
<1>5. NothingLogged(others, i) => NothingLogged(rows, i)
  BY <1>2, SameRoundShown DEF NothingLogged
<1>6. QED
  BY <1>4, <1>5

\* So do the rows of governance.
LEMMA GovernanceAgrees ==
  ASSUME NEW rows, NEW others, NEW id,
         \A key : RowElsewhere(id, key) => SameRow(rows, others, key)
  PROVE  /\ \A cs, fs : ConfigsAgree(others, cs, fs) => ConfigsAgree(rows, cs, fs)
         /\ \A wl : WhitelistAgrees(others, wl) => WhitelistAgrees(rows, wl)
<1>1. /\ \A i : SameRow(rows, others, ConfigKey(i))
      /\ \A requester : SameRow(rows, others, WhitelistKey(requester))
  BY GovernanceElsewhere
<1>2. \A cs, fs : ConfigsAgree(others, cs, fs) => ConfigsAgree(rows, cs, fs)
  BY <1>1 DEF ConfigsAgree, SameRow, RowIs
<1>3. \A wl, requester : RequesterAgrees(others, wl, requester) => RequesterAgrees(rows, wl, requester)
  BY <1>1 DEF RequesterAgrees, SameRow, RowIs
<1>4. QED
  BY <1>2, <1>3 DEF WhitelistAgrees

---------------------------------------------------------------------------
(***************************************************************************)
(* The inductive invariant of the rows: beyond what ViewAgrees says, that  *)
(* nothing is logged of requests, rounds and configurations to come, and   *)
(* that a row has no fields but those it is read for.                      *)
(***************************************************************************)
ViewInv ==
  /\ Inv
  /\ fees \in Seq(Fees)
  /\ Len(fees) = Len(configs)
  /\ \A id \in DOMAIN data_requests : RequestAgrees(view, id, data_requests[id])
  /\ \A id \in Nat \ DOMAIN data_requests : NothingLogged(view, id)
  /\ ConfigsAgree(view, configs, fees)
  /\ WhitelistAgrees(view, whitelist)

\* The row of a request shows what its summary shows.
LEMMA RequestRowShown ==
  ASSUME NEW id, NEW dr, RequestRow(view, id, dr)
  PROVE  LET row == view[<< "dr", id >>]
             s   == Summarize(dr)
         IN  /\ row.global_config_id = s.global_config_id
             /\ row.paid_fee = s.paid_fee
             /\ row.finalized_outcome = dr.finalized_outcome
             /\ IsActive(dr) =>
                  /\ row.outcomes = s.outcomes
                  /\ row.data_type = s.data_type
                  /\ row.requester = s.requester
                  /\ row.stake_multiplier = s.stake_multiplier
                  /\ row.initial_challenge_period = s.initial_challenge_period
                  /\ row.final_arbitrator_triggered = s.final_arbitrator_triggered
<1>1. CASE IsActive(dr)
  <2>1. Summarize(dr) = ActiveSummary(dr)
    BY <1>1 DEF Summarize
  <2>2. QED
    BY <1>1, <2>1 DEF RequestRow, Shows, ActiveSummary, RequestKey
<1>2. CASE ~IsActive(dr)
  <2>1. Summarize(dr) = FinalizedSummary(dr)
    BY <1>2 DEF Summarize
  <2>2. QED
    BY <1>2, <2>1 DEF RequestRow, Shows, FinalizedSummary, RequestKey
<1>3. QED
  BY <1>1, <1>2

\* The invariant says what ViewAgrees says.
LEMMA ViewInvAgrees ==
  ASSUME ViewInv
  PROVE  ViewAgrees
<1>1. ASSUME NEW id \in DOMAIN data_requests
      PROVE  RequestShown(id)
  <2> DEFINE dr == data_requests[id]
  <2>1. RequestAgrees(view, id, dr)
    BY DEF ViewInv
  <2>2. \A r \in DOMAIN dr.resolution_windows :
          view[<< "rw", id, r >>] = WindowSummary(dr.resolution_windows[r])
    BY <2>1 DEF RequestAgrees, RoundShown, RowIs, WindowKey
  <2>3. Summarize(dr).resolution_windows = WindowSummaries(dr)
    BY DEF Summarize, ActiveSummary, FinalizedSummary
  <2>4. \A r \in DOMAIN Summarize(dr).resolution_windows :
          view[<< "rw", id, r >>] = Summarize(dr).resolution_windows[r]
    BY <2>2, <2>3 DEF WindowSummaries
  <2>5. RequestRow(view, id, dr)
    BY <2>1 DEF RequestAgrees
  <2>6. QED
    BY <2>4, <2>5, RequestRowShown DEF RequestShown
<1>2. ASSUME NEW id \in DOMAIN data_requests,
             NEW r \in DOMAIN data_requests[id].resolution_windows
      PROVE  StakesShown(id, r)
  <2> DEFINE dr == data_requests[id]
             w  == dr.resolution_windows[r]
  <2>1. RequestAgrees(view, id, dr)
    BY DEF ViewInv
  <2>2. \A key : Shown(key) = StakeShown(view, key)
    BY DEF Shown, StakeShown
  <2>3. \A o \in Outcomes : Shown(OutcomeStakeKey(id, r, o)) = w.outcome_to_stake[o]
    BY <2>1, <2>2 DEF RequestAgrees, RoundShown
  <2>4. ASSUME NEW o \in Outcomes, NEW u \in Stakers
        PROVE  \/ Shown(UserStakeKey(id, r, o, u)) = w.user_to_outcome_to_stake[u][o]
               \/ HasClaimed(u, id) /\ IsCorrect(w, dr.finalized_outcome)
    <3>1. UserAgrees(view, id, dr, r, u, o)
      BY <2>1 DEF RequestAgrees
    <3>2. QED
      BY <2>2, <3>1 DEF UserAgrees, UserShown, Claims, HasClaimed
  <2>5. QED
    BY <2>3, <2>4 DEF StakesShown
<1>3. GovernanceShown
  <2>1. \A i \in DOMAIN configs : view[<< "oc", i >>] = [config |-> configs[i], fee |-> fees[i]]
    BY DEF ViewInv, ConfigsAgree, RowIs, ConfigKey
  <2>2. ASSUME NEW requester \in Requesters
        PROVE  LET key == << "wl", requester >>
               IN  IF whitelist # NoWhitelist /\ requester \in DOMAIN whitelist
                     THEN view[key] = [stake_multiplier |-> whitelist[requester], active |-> TRUE]
                     ELSE key \in DOMAIN view => ~view[key].active
    <3>1. RequesterAgrees(view, whitelist, requester)
      BY DEF ViewInv, WhitelistAgrees
    <3>2. \A m : ListedRow(m, FALSE).active = FALSE
      BY DEF ListedRow
    <3>3. QED
      BY <3>1, <3>2 DEF RequesterAgrees, RowIs, ListedRow, WhitelistKey
  <2>3. QED
    BY <2>1, <2>2 DEF GovernanceShown
<1>4. QED
  BY <1>1, <1>2, <1>3 DEF ViewAgrees

\* The numbers of the requests.
LEMMA RequestNumbers ==
  ASSUME Inv
  PROVE  /\ data_requests \in Seq(Request)
         /\ Len(data_requests) \in Nat
         /\ DOMAIN data_requests = 1 .. Len(data_requests)
         /\ \A id \in DOMAIN data_requests :
              /\ id \in Nat
              /\ data_requests[id] \in Request
              /\ Ladder(data_requests[id])
<1>1. data_requests \in Seq(Request)
  BY DEF Inv, TypeOK
<1>2. Len(data_requests) \in Nat /\ DOMAIN data_requests = 1 .. Len(data_requests)
  BY <1>1
<1>3. \A id \in DOMAIN data_requests : data_requests[id] \in Request /\ Ladder(data_requests[id])
  BY RequestFacts
<1>4. QED
  BY <1>1, <1>2, <1>3

\* A step that changes one request and logs lines about it.
LEMMA ViewReplaced ==
  ASSUME ViewInv, Inv', NEW id \in DOMAIN data_requests, NEW e,
         data_requests' = [data_requests EXCEPT ![id] = e],
         fees' = fees, configs' = configs, whitelist' = whitelist,
         NEW lines, LinesOf(id, lines), view' = Applied(view, lines),
         RequestAgrees(view', id, e)
  PROVE  ViewInv'
<1>1. /\ DOMAIN data_requests' = DOMAIN data_requests
      /\ data_requests'[id] = e
      /\ \A i \in DOMAIN data_requests : i # id => data_requests'[i] = data_requests[i]
  <2>1. DOMAIN data_requests = 1 .. Len(data_requests) /\ data_requests \in Seq(Request)
    BY RequestNumbers DEF ViewInv
  <2>2. QED
    BY <2>1
<1>2. /\ \A key : RowElsewhere(id, key) => SameRow(view', view, key)
      /\ DOMAIN view \subseteq DOMAIN view'
  BY RowsElsewhere
<1>3. ASSUME NEW i \in DOMAIN data_requests
      PROVE  RequestAgrees(view', i, data_requests'[i])
  <2>1. CASE i = id
    BY <1>1, <2>1
  <2>2. CASE i # id
    <3>1. RequestAgrees(view, i, data_requests[i])
      BY DEF ViewInv
    <3>2. RequestAgrees(view', i, data_requests[i])
      BY <1>2, <2>2, <3>1, OthersAgree
    <3>3. QED
      BY <1>1, <2>2, <3>2
  <2>3. QED
    BY <2>1, <2>2
<1>4. ASSUME NEW i \in Nat \ DOMAIN data_requests
      PROVE  NothingLogged(view', i)
  <2>1. NothingLogged(view, i) /\ i # id
    BY DEF ViewInv
  <2>2. QED
    BY <1>2, <2>1, OthersAgree
<1>5. ConfigsAgree(view', configs, fees) /\ WhitelistAgrees(view', whitelist)
  BY <1>2, GovernanceAgrees DEF ViewInv
<1>6. /\ \A i \in DOMAIN data_requests' : RequestAgrees(view', i, data_requests'[i])
      /\ \A i \in Nat \ DOMAIN data_requests' : NothingLogged(view', i)
  BY <1>1, <1>3, <1>4
<1>7. QED
  BY <1>5, <1>6 DEF ViewInv

---------------------------------------------------------------------------
(***************************************************************************)
(* Lines about one request                                                 *)
(***************************************************************************)

\* Whatever is logged of a request is about it.
LEMMA LinesAbout ==
  ASSUME NEW id, NEW dr, NEW r, NEW w, NEW o, NEW u
  PROVE  /\ LineOf(id, LogNewDataRequest(id, dr))
         /\ LineOf(id, LogUpdateActiveDataRequest(id, dr))
         /\ LineOf(id, LogUpdateFinalizedDataRequest(id, dr))
         /\ LineOf(id, LogUpdate(id, dr))
         /\ LineOf(id, LogResolutionWindow(id, r, w))
         /\ LineOf(id, LogOutcomeToStake(id, r, w, o))
         /\ LineOf(id, LogUserStake(id, r, w, u, o))
         /\ LineOf(id, LogClaim(id, dr, u)[1])
         /\ LineOf(id, LogClaim(id, dr, u)[2])
<1> USE DEF LineOf, RequestWords, Line
<1>1. LineOf(id, LogNewDataRequest(id, dr))
  BY DEF LogNewDataRequest
<1>2. LineOf(id, LogUpdateActiveDataRequest(id, dr))
  BY DEF LogUpdateActiveDataRequest
<1>3. LineOf(id, LogUpdateFinalizedDataRequest(id, dr))
  BY DEF LogUpdateFinalizedDataRequest
<1>4. LineOf(id, LogUpdate(id, dr))
  BY <1>2, <1>3 DEF LogUpdate
<1>5. LineOf(id, LogResolutionWindow(id, r, w))
  BY DEF LogResolutionWindow
<1>6. LineOf(id, LogOutcomeToStake(id, r, w, o))
  BY DEF LogOutcomeToStake, OutcomeStakeKey
<1>7. LineOf(id, LogUserStake(id, r, w, u, o))
  BY DEF LogUserStake, UserStakeKey
<1>8. LineOf(id, LogClaim(id, dr, u)[1])
  BY DEF LogClaim
<1>9. LineOf(id, LogClaim(id, dr, u)[2])
  BY DEF LogClaim, ClaimKey
<1>10. QED
  BY <1>1, <1>2, <1>3, <1>4, <1>5, <1>6, <1>7, <1>8, <1>9

\* Lists of such lines.
LEMMA ListsAbout ==
  ASSUME NEW id, NEW x, LineOf(id, x)
  PROVE  /\ LinesOf(id, << x >>)
         /\ \A y, z : LineOf(id, y) /\ LineOf(id, z) => LinesOf(id, << x, y, z >>)
<1>1. LinesOf(id, << x >>)
  <2>1. DOMAIN << x >> = 1 .. 1 /\ << x >>[1] = x
    OBVIOUS
  <2>2. QED
    BY <2>1 DEF LinesOf
<1>2. ASSUME NEW y, NEW z, LineOf(id, y), LineOf(id, z)
      PROVE  LinesOf(id, << x, y, z >>)
  <2> DEFINE lines == << x, y, z >>
  <2>1. DOMAIN lines = 1 .. 3 /\ lines[1] = x /\ lines[2] = y /\ lines[3] = z
    OBVIOUS
  <2> HIDE DEF lines
  <2>2. \A i \in 1 .. 3 : LineOf(id, lines[i])
    BY <1>2, <2>1
  <2>3. QED
    BY <2>1, <2>2 DEF LinesOf, lines
<1>3. QED
  BY <1>1, <1>2

\* A list of members of T.
LEMMA ListAbout ==
  ASSUME NEW id, NEW T, NEW lines \in Seq(T), \A line \in T : LineOf(id, line)
  PROVE  LinesOf(id, lines)
<1>1. Len(lines) \in Nat /\ DOMAIN lines = 1 .. Len(lines) /\ \A i \in 1 .. Len(lines) : lines[i] \in T
  OBVIOUS
<1>2. QED
  BY <1>1 DEF LinesOf

\* A line of a request is of none of its rounds.
LEMMA RequestLineRounds ==
  ASSUME NEW rows, NEW id, NEW params
  PROVE  LET after == Upsert(rows, Line(RequestKey(id), params))
         IN  /\ \A r : SameRound(after, rows, id, r)
             /\ DOMAIN rows \subseteq DOMAIN after
<1>1. RequestKey(id)[1] \notin {"rw", "ots", "us"}
  BY DEF RequestKey
<1>2. \A r : SameRound(Upsert(rows, Line(RequestKey(id), params)), rows, id, r)
  BY <1>1, LineOtherRound
<1>3. DOMAIN rows \subseteq DOMAIN Upsert(rows, Line(RequestKey(id), params))
  BY DEF Upsert
<1>4. QED
  BY <1>2, <1>3

\* Which line of a request it is.
LEMMA RequestLines ==
  ASSUME NEW id, NEW dr
  PROVE  /\ \E params : LogNewDataRequest(id, dr) = Line(RequestKey(id), params)
         /\ \E params : LogUpdateActiveDataRequest(id, dr) = Line(RequestKey(id), params)
         /\ \E params : LogUpdateFinalizedDataRequest(id, dr) = Line(RequestKey(id), params)
         /\ \E params : LogUpdate(id, dr) = Line(RequestKey(id), params)
<1>1. \E params : LogNewDataRequest(id, dr) = Line(RequestKey(id), params)
  BY DEF LogNewDataRequest, RequestKey
<1>2. \E params : LogUpdateActiveDataRequest(id, dr) = Line(RequestKey(id), params)
  BY DEF LogUpdateActiveDataRequest, RequestKey
<1>3. \E params : LogUpdateFinalizedDataRequest(id, dr) = Line(RequestKey(id), params)
  BY DEF LogUpdateFinalizedDataRequest, RequestKey
<1>4. \E params : LogUpdate(id, dr) = Line(RequestKey(id), params)
  BY <1>2, <1>3 DEF LogUpdate
<1>5. QED
  BY <1>1, <1>2, <1>3, <1>4

\* A request whose windows stay, and whose rounds are not written.
LEMMA RoundsStay ==
  ASSUME NEW rows, NEW others, NEW id, NEW dr, NEW e,
         RequestAgrees(others, id, dr), RequestRow(rows, id, e),
         e.resolution_windows = dr.resolution_windows,
         e.finalized_outcome = dr.finalized_outcome \/ IsActive(dr),
         \A r : SameRound(rows, others, id, r),
         DOMAIN others \subseteq DOMAIN rows
  PROVE  RequestAgrees(rows, id, e)
<1> DEFINE ws == dr.resolution_windows
<1>1. \A r \in DOMAIN ws : RoundShown(rows, id, r, ws[r])
  BY SameRoundShown DEF RequestAgrees
<1>2. ASSUME NEW r \in DOMAIN ws, NEW u \in Stakers, NEW o \in Outcomes
      PROVE  UserAgrees(rows, id, e, r, u, o)
  <2>1. UserAgrees(others, id, dr, r, u, o)
    BY DEF RequestAgrees
  <2>2. UserShown(others, id, r, ws[r], u, o) => UserShown(rows, id, r, ws[r], u, o)
    BY SameRoundShown
  <2>3. QED
    BY <2>1, <2>2 DEF UserAgrees, Claims, IsActive
<1>3. \A r \in Nat \ DOMAIN ws : BlankRound(rows, id, r)
  BY SameRoundShown DEF RequestAgrees
<1>4. QED
  BY <1>1, <1>2, <1>3 DEF RequestAgrees

\* A final request is shown as final.
LEMMA LogFinalizedView ==
  ASSUME ViewInv, Inv', NEW id \in DOMAIN data_requests, NEW outcome \in Outcomes,
         Decide(id, outcome), LogFinalized(id), configs' = configs, whitelist' = whitelist
  PROVE  ViewInv'
<1> DEFINE dr   == data_requests[id]
           e    == Finalized(dr, outcome)
           line == LogUpdateFinalizedDataRequest(id, e)
<1>1. IsActive(dr) /\ data_requests' = [data_requests EXCEPT ![id] = e]
  BY DEF Decide
<1>2. dr \in Request /\ data_requests'[id] = e
  <2>1. dr \in Request
    BY RequestNumbers DEF ViewInv
  <2>2. QED
    BY <1>1, <2>1
<1>3. /\ ~IsActive(e)
      /\ e.resolution_windows = dr.resolution_windows
      /\ Lasting(e, dr)
  BY <1>2, WindowAssumption DEF Finalized, Request, IsActive, Lasting
<1>4. view' = Applied(view, << line >>) /\ fees' = fees
  BY <1>2 DEF LogFinalized, Logs, Applied
<1>5. LinesOf(id, << line >>)
  BY LinesAbout, ListsAbout
<1>6. view' = Upsert(view, line)
  BY <1>4, AppliedOne
<1>7. RequestAgrees(view, id, dr)
  BY DEF ViewInv
<1> HIDE DEF e, dr
<1>8. RequestRow(view', id, e)
  BY <1>3, <1>6, <1>7, FinalRow DEF RequestAgrees
<1>9. /\ \A r : SameRound(view', view, id, r)
      /\ DOMAIN view \subseteq DOMAIN view'
  BY <1>6, RequestLines, RequestLineRounds
<1>10. RequestAgrees(view', id, e)
  BY <1>1, <1>3, <1>7, <1>8, <1>9, RoundsStay
<1> HIDE DEF line
<1>11. QED
  BY <1>1, <1>4, <1>5, <1>10, ViewReplaced

\* A new request is shown, in the next place.
LEMMA LogDrNewView ==
  ASSUME ViewInv, Inv', NEW token, NEW sender, NEW amount, NEW payload,
         LogDrNew(token, sender, amount, payload)
  PROVE  ViewInv'
<1> DEFINE new  == NewRequest(sender, StakeMultiplier(sender), Len(configs), CurrentConfig,
                              amount - CurrentConfig.validity_bond, payload)
           id   == Len(data_requests) + 1
           line == LogNewDataRequest(id, new)
<1>1. /\ DrNew(token, sender, amount, payload)
      /\ Logs(<< LogNewDataRequest(Len(data_requests'), Last(data_requests')) >>)
      /\ fees' = fees
  BY DEF LogDrNew
<1>2. /\ data_requests' = Append(data_requests, new)
      /\ configs' = configs /\ whitelist' = whitelist
  BY <1>1 DEF DrNew
<1>3. /\ IsActive(new)
      /\ new.resolution_windows = << >>
  BY DEF NewRequest, IsActive
<1>4. /\ data_requests \in Seq(Request)
      /\ Len(data_requests) \in Nat
      /\ DOMAIN data_requests = 1 .. Len(data_requests)
  BY RequestNumbers DEF ViewInv
<1> HIDE DEF new
<1>5. /\ Len(data_requests') = id
      /\ data_requests'[id] = new
      /\ Last(data_requests') = new
      /\ DOMAIN data_requests' = DOMAIN data_requests \union {id}
      /\ id \in Nat \ DOMAIN data_requests
      /\ \A i \in DOMAIN data_requests : data_requests'[i] = data_requests[i] /\ i # id
  <2>1. data_requests' \in Seq(Request)
    BY DEF Inv, TypeOK
  <2>2. /\ Len(data_requests') = id
        /\ data_requests'[id] = new
        /\ \A i \in DOMAIN data_requests : data_requests'[i] = data_requests[i] /\ i # id
    BY <1>2, <1>4
  <2>3. Last(data_requests') = new
    BY <2>2 DEF Last
  <2>4. DOMAIN data_requests' = 1 .. id
    BY <2>1, <2>2
  <2>5. QED
    BY <1>4, <2>2, <2>3, <2>4
<1> HIDE DEF id
<1>6. view' = Applied(view, << line >>)
  BY <1>1, <1>5 DEF Logs, Applied
<1>7. LinesOf(id, << line >>)
  BY LinesAbout, ListsAbout
<1>8. view' = Upsert(view, line)
  BY <1>6, AppliedOne
<1>9. RequestRow(view', id, new)
  BY <1>3, <1>8, NewRequestRow
<1>10. \A r : SameRound(view', view, id, r)
  BY <1>8, RequestLines, RequestLineRounds
<1>11. RequestAgrees(view', id, new)
  <2>1. NothingLogged(view, id)
    BY <1>5 DEF ViewInv
  <2>2. \A r \in Nat : BlankRound(view', id, r)
    BY <1>10, <2>1, SameRoundShown DEF NothingLogged
  <2>3. DOMAIN new.resolution_windows = {}
    BY <1>3
  <2>4. QED
    BY <1>9, <2>2, <2>3 DEF RequestAgrees
<1> HIDE DEF line
<1>12. /\ \A key : RowElsewhere(id, key) => SameRow(view', view, key)
       /\ DOMAIN view \subseteq DOMAIN view'
  BY <1>6, <1>7, RowsElsewhere
<1>13. ASSUME NEW i \in DOMAIN data_requests'
       PROVE  RequestAgrees(view', i, data_requests'[i])
  <2>1. CASE i = id
    BY <1>5, <1>11, <2>1
  <2>2. CASE i # id
    <3>1. RequestAgrees(view, i, data_requests[i])
      BY <1>5, <2>2 DEF ViewInv
    <3>2. RequestAgrees(view', i, data_requests[i])
      BY <1>12, <2>2, <3>1, OthersAgree
    <3>3. QED
      BY <1>5, <2>2, <3>2
  <2>3. QED
    BY <2>1, <2>2
<1>14. ASSUME NEW i \in Nat \ DOMAIN data_requests'
       PROVE  NothingLogged(view', i)
  <2>1. NothingLogged(view, i) /\ i # id
    BY <1>5 DEF ViewInv
  <2>2. QED
    BY <1>12, <2>1, OthersAgree
<1>15. ConfigsAgree(view', configs, fees) /\ WhitelistAgrees(view', whitelist)
  BY <1>12, GovernanceAgrees DEF ViewInv
<1>16. QED
  BY <1>1, <1>2, <1>13, <1>14, <1>15 DEF ViewInv

---------------------------------------------------------------------------
(***************************************************************************)
(* Stakes and withdrawals                                                  *)
(***************************************************************************)

\* The stakes of window w are those of v, but for one of u on o.
OneStakeApart(w, v, u, o) ==
  /\ \A q \in Outcomes : q # o => w.outcome_to_stake[q] = v.outcome_to_stake[q]
  /\ \A s \in Stakers, q \in Outcomes :
       s # u \/ q # o => w.user_to_outcome_to_stake[s][q] = v.user_to_outcome_to_stake[s][q]

\* The rows of outcomes show the stakes of w.
OutcomesShown(rows, id, r, w) ==
  \A q \in Outcomes : StakeShown(rows, OutcomeStakeKey(id, r, q)) = w.outcome_to_stake[q]

\* Where rows showed the stakes of users in v, after shows those in w.
UsersFollow(after, rows, id, r, w, v) ==
  \A s \in Stakers, q \in Outcomes :
    UserShown(rows, id, r, v, s, q) => UserShown(after, id, r, w, s, q)

\* The rows after the two lines of a stake.
StakeLogged(rows, id, r, w, u, o) ==
  Upsert(Upsert(rows, LogOutcomeToStake(id, r, w, o)), LogUserStake(id, r, w, u, o))

\* They leave the rest alone.
LEMMA StakeLoggedElsewhere ==
  ASSUME NEW rows, NEW id, NEW r, NEW w, NEW u, NEW o
  PROVE  LET after == StakeLogged(rows, id, r, w, u, o)
         IN  /\ \A key : key # OutcomeStakeKey(id, r, o) /\ key # UserStakeKey(id, r, o, u)
                           => SameRow(after, rows, key)
             /\ SameRow(after, rows, WindowKey(id, r))
             /\ SameRow(after, rows, RequestKey(id))
             /\ \A i : i # r => SameRound(after, rows, id, i)
             /\ DOMAIN rows \subseteq DOMAIN after
<1> DEFINE a     == OutcomeStakeKey(id, r, o)
           b     == UserStakeKey(id, r, o, u)
           p     == [total_stake |-> w.outcome_to_stake[o]]
           q     == [total_stake |-> w.user_to_outcome_to_stake[u][o]]
           mid   == Upsert(rows, Line(a, p))
           after == Upsert(mid, Line(b, q))
<1>1. StakeLogged(rows, id, r, w, u, o) = after
  BY DEF StakeLogged, LogOutcomeToStake, LogUserStake
<1>2. /\ a[1] = "ots" /\ a[2] = id /\ a[3] = r
      /\ b[1] = "us" /\ b[2] = id /\ b[3] = r
  BY DEF OutcomeStakeKey, UserStakeKey
<1>3. DOMAIN rows \subseteq DOMAIN after
  BY DEF Upsert
<1> HIDE DEF a, b, p, q
<1>4. /\ \A key : key # a => SameRow(mid, rows, key)
      /\ \A key : key # b => SameRow(after, mid, key)
  BY LineElsewhere
<1>5. \A i : i # r => SameRound(mid, rows, id, i) /\ SameRound(after, mid, id, i)
  BY <1>2, LineOtherRound
<1> HIDE DEF mid, after
<1>6. \A key : key # a /\ key # b => SameRow(after, rows, key)
  BY <1>4, SameRowTwice
<1>7. WindowKey(id, r)[1] = "rw" /\ RequestKey(id)[1] = "dr"
  BY DEF WindowKey, RequestKey
<1>8. SameRow(after, rows, WindowKey(id, r)) /\ SameRow(after, rows, RequestKey(id))
  <2>1. /\ WindowKey(id, r) # a /\ WindowKey(id, r) # b
        /\ RequestKey(id) # a /\ RequestKey(id) # b
    BY <1>2, <1>7
  <2>2. QED
    BY <1>6, <2>1
<1>9. \A i : i # r => SameRound(after, rows, id, i)
  BY <1>5, SameRoundTwice
<1>10. QED
  BY <1>1, <1>3, <1>6, <1>8, <1>9 DEF a, b

\* And show the new stakes.
LEMMA StakeLoggedShows ==
  ASSUME NEW rows, NEW id, NEW r, NEW w, NEW v, NEW u \in Stakers, NEW o \in Outcomes,
         OneStakeApart(w, v, u, o)
  PROVE  LET after == StakeLogged(rows, id, r, w, u, o)
         IN  /\ OutcomesShown(rows, id, r, v) => OutcomesShown(after, id, r, w)
             /\ UsersFollow(after, rows, id, r, w, v)
             /\ UserShown(after, id, r, w, u, o)
<1> DEFINE a     == OutcomeStakeKey(id, r, o)
           b     == UserStakeKey(id, r, o, u)
           m     == w.outcome_to_stake[o]
           n     == w.user_to_outcome_to_stake[u][o]
           mid   == Upsert(rows, Line(a, [total_stake |-> m]))
           after == Upsert(mid, Line(b, [total_stake |-> n]))
<1>1. StakeLogged(rows, id, r, w, u, o) = after
  BY DEF StakeLogged, LogOutcomeToStake, LogUserStake
<1>2. /\ \A q : OutcomeStakeKey(id, r, q)[1] = "ots"
      /\ \A q, s : UserStakeKey(id, r, q, s)[1] = "us"
  BY DEF OutcomeStakeKey, UserStakeKey
<1>3. /\ \A q : OutcomeStakeKey(id, r, q) = a => q = o
      /\ \A q, s : UserStakeKey(id, r, q, s) = b => q = o /\ s = u
  BY OutcomeKeyNames, UserKeyNames
<1>4. \A q : OutcomeStakeKey(id, r, q) # b
  BY <1>2
<1>5. StakeShown(mid, a) = m /\ StakeShown(after, b) = n
  BY LineStake
<1>6. \A key : key # a /\ key # b => SameRow(after, rows, key)
  BY <1>1, StakeLoggedElsewhere
<1>7. SameRow(after, mid, a)
  BY <1>4, LineElsewhere
<1> HIDE DEF mid, after
<1>8. StakeShown(after, a) = m
  BY <1>5, <1>7, SameShown
<1>9. \A q \in Outcomes : q # o =>
        StakeShown(after, OutcomeStakeKey(id, r, q)) = StakeShown(rows, OutcomeStakeKey(id, r, q))
  BY <1>3, <1>4, <1>6, SameShown
<1>10. \A s \in Stakers, q \in Outcomes : s # u \/ q # o =>
         StakeShown(after, UserStakeKey(id, r, q, s)) = StakeShown(rows, UserStakeKey(id, r, q, s))
  <2> TAKE s \in Stakers, q \in Outcomes
  <2> HAVE s # u \/ q # o
  <2>1. UserStakeKey(id, r, q, s) # b
    BY <1>3
  <2>2. UserStakeKey(id, r, q, s) # a
    BY <1>2
  <2>3. QED
    BY <1>6, <2>1, <2>2, SameShown
<1>11. UserShown(after, id, r, w, u, o)
  BY <1>5 DEF UserShown
<1>12. ASSUME NEW q \in Outcomes,
              StakeShown(rows, OutcomeStakeKey(id, r, q)) = v.outcome_to_stake[q]
       PROVE  StakeShown(after, OutcomeStakeKey(id, r, q)) = w.outcome_to_stake[q]
  <2>1. CASE q = o
    BY <1>8, <2>1
  <2>2. CASE q # o
    BY <1>9, <1>12, <2>2 DEF OneStakeApart
  <2>3. QED
    BY <2>1, <2>2
<1>13. ASSUME NEW s \in Stakers, NEW q \in Outcomes, UserShown(rows, id, r, v, s, q)
       PROVE  UserShown(after, id, r, w, s, q)
  <2>1. CASE s = u /\ q = o
    BY <1>11, <2>1
  <2>2. CASE s # u \/ q # o
    BY <1>10, <1>13, <2>2 DEF OneStakeApart, UserShown
  <2>3. QED
    BY <2>1, <2>2
<1>14. QED
  BY <1>1, <1>11, <1>12, <1>13 DEF OutcomesShown, UsersFollow

\* A withdrawal shows in the window it is from.
LEMMA LogDrUnstakeView ==
  ASSUME ViewInv, Inv', NEW id \in DOMAIN data_requests, NEW sender \in Stakers,
         NEW round \in DOMAIN data_requests[id].resolution_windows, NEW outcome \in Outcomes,
         NEW amount \in StakeAmounts, NEW succeeds \in TransferResults,
         LogDrUnstake(sender, id, round, outcome, amount, succeeds)
  PROVE  ViewInv'
<1> DEFINE dr    == data_requests[id]
           e     == Unstaked(dr, sender, round, outcome, amount)
           ws    == dr.resolution_windows
           v     == ws[round]
           w     == RemoveStake(v, sender, outcome, amount)
           x     == LogOutcomeToStake(id, round, w, outcome)
           y     == LogUserStake(id, round, w, sender, outcome)
           z     == LogUpdate(id, e)
           after == StakeLogged(view, id, round, w, sender, outcome)
<1>1. /\ data_requests' = [data_requests EXCEPT ![id] = e]
      /\ configs' = configs /\ whitelist' = whitelist /\ fees' = fees
  BY DEF LogDrUnstake, DrUnstake
<1>2. dr \in Request /\ data_requests'[id] = e
  <2>1. dr \in Request
    BY RequestNumbers DEF ViewInv
  <2>2. QED
    BY <1>1, <2>1
<1>3. v \in Window
  BY <1>2 DEF Request
<1>4. /\ DOMAIN e.resolution_windows = DOMAIN ws
      /\ e.resolution_windows[round] = w
      /\ \A r \in DOMAIN ws : r # round => e.resolution_windows[r] = ws[r]
      /\ e.finalized_outcome = dr.finalized_outcome
      /\ Lasting(e, dr)
  BY <1>2 DEF Unstaked, Request, Lasting
<1>5. WindowSummary(w) = WindowSummary(v) /\ OneStakeApart(w, v, sender, outcome)
      /\ w.bonded_outcome = v.bonded_outcome
  BY <1>3 DEF RemoveStake, Window, WindowSummary, OneStakeApart
<1>6. view' = Applied(view, << x, y, z >>)
  BY <1>2, <1>4 DEF LogDrUnstake, Logs, Applied
<1>7. LinesOf(id, << x, y, z >>)
  BY LinesAbout, ListsAbout
<1>8. view' = Upsert(after, z)
  BY <1>6, AppliedThree DEF StakeLogged
<1>9. RequestAgrees(view, id, dr) /\ round \in DOMAIN ws
  BY DEF ViewInv
<1> HIDE DEF e, w, dr, after, x, y, z
<1>10. /\ SameRow(after, view, WindowKey(id, round))
       /\ SameRow(after, view, RequestKey(id))
       /\ \A i : i # round => SameRound(after, view, id, i)
       /\ DOMAIN view \subseteq DOMAIN after
  BY StakeLoggedElsewhere DEF after
<1>11. OutcomesShown(after, id, round, w) /\ UsersFollow(after, view, id, round, w, v)
  <2>1. OutcomesShown(view, id, round, v)
    BY <1>9 DEF RequestAgrees, RoundShown, OutcomesShown, dr
  <2>2. OneStakeApart(w, v, sender, outcome) /\ sender \in Stakers /\ outcome \in Outcomes
    BY <1>5
  <2>3. after = StakeLogged(view, id, round, w, sender, outcome)
    BY DEF after
  <2> HIDE DEF v
  <2>4. QED
    BY ONLY <2>1, <2>2, <2>3, StakeLoggedShows
<1>12. RequestRow(after, id, dr)
  BY <1>9, <1>10, SameRequestRow DEF RequestAgrees
<1>13. RequestRow(view', id, e)
  BY <1>4, <1>8, <1>12, UpdatedRow DEF z
<1>14. /\ \A r : SameRound(view', after, id, r)
       /\ DOMAIN after \subseteq DOMAIN view'
  BY <1>8, RequestLines, RequestLineRounds DEF z
<1>15. ASSUME NEW r \in DOMAIN ws
       PROVE  /\ RoundShown(after, id, r, e.resolution_windows[r])
              /\ \A u \in Stakers, o \in Outcomes : UserAgrees(after, id, e, r, u, o)
  <2>1. /\ RoundShown(view, id, r, ws[r])
        /\ \A u \in Stakers, o \in Outcomes : UserAgrees(view, id, dr, r, u, o)
    BY <1>9 DEF RequestAgrees
  <2>2. IsActive(e) <=> IsActive(dr)
    BY <1>4 DEF IsActive
  <2>3. \A u : Claims(view, u, id) => Claims(after, u, id)
    BY <1>10 DEF Claims
  <2>4. CASE r = round
    <3>1. RowIs(after, WindowKey(id, round), WindowSummary(w))
      BY <1>5, <1>10, <2>1, <2>4, SameShown DEF RoundShown
    <3>2. RoundShown(after, id, r, w)
      BY <1>11, <2>4, <3>1 DEF RoundShown, OutcomesShown
    <3>3. ASSUME NEW u \in Stakers, NEW o \in Outcomes
          PROVE  UserAgrees(after, id, e, r, u, o)
      <4>1. UserAgrees(view, id, dr, r, u, o)
        BY <2>1
      <4>2. QED
        BY <1>4, <1>5, <1>11, <2>2, <2>3, <2>4, <4>1 DEF UserAgrees, UsersFollow, IsCorrect
    <3>4. QED
      BY <1>4, <2>4, <3>2, <3>3
  <2>5. CASE r # round
    <3>1. SameRound(after, view, id, r) /\ e.resolution_windows[r] = ws[r]
      BY <1>4, <1>10, <2>5
    <3>2. RoundShown(after, id, r, ws[r])
      BY <2>1, <3>1, SameRoundShown
    <3>3. ASSUME NEW u \in Stakers, NEW o \in Outcomes
          PROVE  UserAgrees(after, id, e, r, u, o)
      <4>1. UserAgrees(view, id, dr, r, u, o)
        BY <2>1
      <4>2. UserShown(view, id, r, ws[r], u, o) => UserShown(after, id, r, ws[r], u, o)
        BY <3>1, SameRoundShown
      <4>3. QED
        BY <1>4, <2>2, <2>3, <3>1, <4>1, <4>2 DEF UserAgrees
    <3>4. QED
      BY <3>1, <3>2, <3>3
  <2>6. QED
    BY <2>4, <2>5
<1>16. \A r \in Nat \ DOMAIN ws : BlankRound(after, id, r)
  BY <1>9, <1>10, SameRoundShown DEF RequestAgrees
<1>17. RequestAgrees(view', id, e)
  <2>1. \A r \in DOMAIN ws : RoundShown(view', id, r, e.resolution_windows[r])
    BY <1>14, <1>15, SameRoundShown
  <2>2. ASSUME NEW r \in DOMAIN ws, NEW u \in Stakers, NEW o \in Outcomes
        PROVE  UserAgrees(view', id, e, r, u, o)
    <3>1. UserAgrees(after, id, e, r, u, o)
      BY <1>15
    <3>2. UserShown(after, id, r, e.resolution_windows[r], u, o)
            => UserShown(view', id, r, e.resolution_windows[r], u, o)
      BY <1>14, SameRoundShown
    <3>3. QED
      BY <1>14, <3>1, <3>2 DEF UserAgrees, Claims
  <2>3. \A r \in Nat \ DOMAIN ws : BlankRound(view', id, r)
    BY <1>14, <1>16, SameRoundShown
  <2>4. QED
    BY <1>4, <1>13, <2>1, <2>2, <2>3 DEF RequestAgrees
<1>18. QED
  BY <1>1, <1>6, <1>7, <1>17, ViewReplaced

---------------------------------------------------------------------------
(***************************************************************************)
(* Claims                                                                  *)
(***************************************************************************)

\* Two lines.
LEMMA AppliedTwo ==
  ASSUME NEW rows, NEW x, NEW y
  PROVE  Applied(rows, << x, y >>) = Upsert(Upsert(rows, x), y)
<1> DEFINE one == << x >>
           two == << x, y >>
<1>1. DOMAIN one = 1 .. 1 /\ one[1] = x
  OBVIOUS
<1>2. DOMAIN two = 1 .. 2 /\ two[1] = x /\ two[2] = y
  OBVIOUS
<1>3. Applied(rows, one) = Upsert(rows, x)
  BY AppliedOne
<1> HIDE DEF one, two
<1>4. OneMore(1, 2, one, two)
  BY <1>1, <1>2 DEF OneMore
<1>5. Applied(rows, two) = Upsert(Applied(rows, one), two[2])
  BY ONLY <1>4, AppliedLast
<1>6. QED
  BY <1>2, <1>3, <1>5 DEF two

\* Window w is v but for the stakes of the account, if it is correct.
SameButClaimed(w, v, account, f) ==
  /\ WindowSummary(w) = WindowSummary(v)
  /\ w.outcome_to_stake = v.outcome_to_stake
  /\ IsCorrect(w, f) <=> IsCorrect(v, f)
  /\ \A u \in Stakers, o \in Outcomes :
       u # account \/ ~IsCorrect(v, f)
         => w.user_to_outcome_to_stake[u][o] = v.user_to_outcome_to_stake[u][o]

\* A claim leaves everything else of the windows.
LEMMA ClaimedWindows ==
  ASSUME NEW dr \in Request, NEW account \in Stakers
  PROVE  LET e == Claimed(dr, account)
         IN  /\ DOMAIN e.resolution_windows = DOMAIN dr.resolution_windows
             /\ e.finalized_outcome = dr.finalized_outcome
             /\ Lasting(e, dr)
             /\ \A r \in DOMAIN dr.resolution_windows :
                  SameButClaimed(e.resolution_windows[r], dr.resolution_windows[r], account,
                                 dr.finalized_outcome)
<1> DEFINE ws == dr.resolution_windows
           e  == Claimed(dr, account)
           f  == dr.finalized_outcome
<1>1. ws \in Seq(Window)
  BY DEF Request
<1>2. /\ e.resolution_windows = [r \in DOMAIN ws |-> TakeClaimedStake(ws[r], account, f)]
      /\ e.finalized_outcome = f
      /\ Lasting(e, dr)
  BY DEF Claimed, Request, Lasting
<1>3. ASSUME NEW v \in Window
      PROVE  SameButClaimed(TakeClaimedStake(v, account, f), v, account, f)
  <2>1. CASE IsCorrect(v, f)
    <3> DEFINE w == [v EXCEPT !.user_to_outcome_to_stake[account][f] = 0]
    <3>1. TakeClaimedStake(v, account, f) = w
      BY <2>1 DEF TakeClaimedStake
    <3>2. /\ w.start_time = v.start_time /\ w.end_time = v.end_time
          /\ w.bond_size = v.bond_size /\ w.bonded_outcome = v.bonded_outcome
          /\ w.outcome_to_stake = v.outcome_to_stake
      BY DEF Window
    <3>3. \A u \in Stakers, o \in Outcomes :
            u # account => w.user_to_outcome_to_stake[u][o] = v.user_to_outcome_to_stake[u][o]
      BY DEF Window
    <3> HIDE DEF w
    <3>4. QED
      BY <2>1, <3>1, <3>2, <3>3 DEF WindowSummary, IsCorrect, SameButClaimed
  <2>2. CASE ~IsCorrect(v, f)
    BY <2>2 DEF TakeClaimedStake, SameButClaimed
  <2>3. QED
    BY <2>1, <2>2
<1> HIDE DEF e
<1>4. \A r \in DOMAIN ws : ws[r] \in Window /\ e.resolution_windows[r] = TakeClaimedStake(ws[r], account, f)
  BY <1>1, <1>2
<1>5. QED
  BY <1>2, <1>3, <1>4 DEF e

\* A claim shows in the row of the claim; the stakes it takes off the books
\* stay in their rows.
LEMMA LogDrClaimView ==
  ASSUME ViewInv, Inv', NEW id \in DOMAIN data_requests, NEW account \in Stakers,
         NEW stake_succeeds, NEW payment_succeeds,
         LogDrClaim(account, id, stake_succeeds, payment_succeeds)
  PROVE  ViewInv'
<1> DEFINE dr     == data_requests[id]
           e      == Claimed(dr, account)
           ws     == dr.resolution_windows
           x      == LogClaim(id, dr, account)[1]
           y      == LogClaim(id, dr, account)[2]
           z      == LogUpdateFinalizedDataRequest(id, e)
           totals == Upsert(view, x)
           claim  == Upsert(totals, y)
<1>1. /\ data_requests' = [data_requests EXCEPT ![id] = e]
      /\ ~IsActive(dr)
      /\ configs' = configs /\ whitelist' = whitelist /\ fees' = fees
  BY DEF LogDrClaim, DrClaim
<1>2. dr \in Request /\ data_requests'[id] = e
  <2>1. dr \in Request
    BY RequestNumbers DEF ViewInv
  <2>2. QED
    BY <1>1, <2>1
<1>3. LogClaim(id, dr, account) = << x, y >>
  BY DEF LogClaim
<1>4. view' = Applied(view, << x, y >> \o << z >>)
  BY <1>2, <1>3 DEF LogDrClaim, Logs, Applied
<1>5. /\ \E params : x = Line(RequestKey(id), params)
      /\ \A rows : RequestRow(rows, id, dr) => RequestRow(Upsert(rows, x), id, dr)
  <2>1. x = Line(RequestKey(id), [ total_correct_bonded_staked |-> TotalBonds(dr, CorrectRounds(dr)),
                                   total_incorrect_staked |-> TotalBonds(dr, IncorrectRounds(dr)) ])
    BY DEF LogClaim, RequestKey
  <2> HIDE DEF x, dr
  <2>2. QED
    BY <2>1, ClaimTotalsRow
<1>6. \E params : y = Line(ClaimKey(account, id), params)
  BY DEF LogClaim
<1>7. /\ DOMAIN e.resolution_windows = DOMAIN ws
      /\ e.finalized_outcome = dr.finalized_outcome
      /\ Lasting(e, dr)
      /\ \A r \in DOMAIN ws :
           SameButClaimed(e.resolution_windows[r], ws[r], account, dr.finalized_outcome)
  <2> HIDE DEF dr
  <2>1. QED
    BY <1>2, ClaimedWindows
<1>8. LinesOf(id, << x, y >> \o << z >>)
  <2>1. LineOf(id, x) /\ LineOf(id, y) /\ LineOf(id, z)
    BY LinesAbout
  <2> DEFINE T     == {x, y, z}
             lines == << x, y >> \o << z >>
  <2> HIDE DEF x, y, z
  <2>2. lines \in Seq(T) /\ \A line \in T : LineOf(id, line)
    BY <2>1
  <2> HIDE DEF T, lines
  <2>3. LinesOf(id, lines)
    BY <2>2, ListAbout
  <2>4. QED
    BY <2>3 DEF lines
<1>9. RequestAgrees(view, id, dr)
  BY DEF ViewInv
<1> HIDE DEF e, dr, x, y, z
<1>10. view' = Upsert(claim, z)
  <2> DEFINE T   == {x, y}
             two == << x, y >>
  <2>1. two \in Seq(T)
    OBVIOUS
  <2>2. Applied(view, two) = claim
    BY AppliedTwo
  <2>3. view' = Applied(view, two \o << z >>)
    BY <1>4
  <2> HIDE DEF claim, T, two
  <2>4. QED
    BY <2>1, <2>2, <2>3, AppliedThen
<1> HIDE DEF totals
<1>11. /\ \A r : SameRound(totals, view, id, r)
       /\ DOMAIN view \subseteq DOMAIN totals
       /\ RequestRow(totals, id, dr)
  <2>1. /\ \A r : SameRound(totals, view, id, r)
        /\ DOMAIN view \subseteq DOMAIN totals
    BY <1>5, RequestLineRounds DEF totals
  <2>2. RequestRow(totals, id, dr)
    BY <1>5, <1>9 DEF RequestAgrees, totals
  <2>3. QED
    BY <2>1, <2>2
<1>12. /\ \A r : SameRound(claim, totals, id, r)
       /\ DOMAIN totals \subseteq DOMAIN claim
       /\ RequestRow(claim, id, dr)
       /\ Claims(claim, account, id)
  <2>1. PICK params : y = Line(ClaimKey(account, id), params)
    BY <1>6
  <2>2. ClaimKey(account, id)[1] = "c" /\ RequestKey(id)[1] = "dr"
    BY DEF ClaimKey, RequestKey
  <2>3. \A r : SameRound(claim, totals, id, r)
    BY <2>1, <2>2, LineOtherRound
  <2>4. SameRow(claim, totals, RequestKey(id))
    BY <2>1, <2>2, LineElsewhere
  <2>5. DOMAIN totals \subseteq DOMAIN claim /\ Claims(claim, account, id)
    BY <2>1 DEF Upsert, Line, Claims
  <2> HIDE DEF claim
  <2>6. RequestRow(claim, id, dr)
    BY <1>11, <2>4, SameRequestRow
  <2>7. QED
    BY <2>3, <2>5, <2>6
<1> HIDE DEF claim
<1>13. /\ \A r : SameRound(view', claim, id, r)
       /\ DOMAIN claim \subseteq DOMAIN view'
  BY <1>10, RequestLines, RequestLineRounds DEF z
<1>14. RequestRow(view', id, e)
  BY <1>1, <1>7, <1>10, <1>12, FinalRow DEF IsActive, z
<1>15. \A r : SameRound(view', view, id, r)
  BY <1>11, <1>12, <1>13, SameRoundTwice
<1>16. /\ Claims(view', account, id)
       /\ \A u : Claims(view, u, id) => Claims(view', u, id)
  BY <1>11, <1>12, <1>13 DEF Claims
<1>17. ASSUME NEW r \in DOMAIN ws
       PROVE  /\ RoundShown(view', id, r, e.resolution_windows[r])
              /\ \A u \in Stakers, o \in Outcomes : UserAgrees(view', id, e, r, u, o)
  <2>1. /\ RoundShown(view', id, r, ws[r])
        /\ \A u \in Stakers, o \in Outcomes : UserAgrees(view, id, dr, r, u, o)
    BY <1>9, <1>15, SameRoundShown DEF RequestAgrees
  <2>2. RoundShown(view', id, r, e.resolution_windows[r])
    BY <1>7, <2>1 DEF RoundShown, SameButClaimed
  <2>3. ~IsActive(e)
    BY <1>1, <1>7 DEF IsActive
  <2>4. ASSUME NEW u \in Stakers, NEW o \in Outcomes
        PROVE  UserAgrees(view', id, e, r, u, o)
    <3>1. CASE u = account /\ IsCorrect(ws[r], dr.finalized_outcome)
      BY <1>7, <1>16, <2>3, <3>1 DEF UserAgrees, SameButClaimed
    <3>2. CASE u # account \/ ~IsCorrect(ws[r], dr.finalized_outcome)
      <4>1. UserAgrees(view, id, dr, r, u, o)
        BY <2>1
      <4>2. UserShown(view, id, r, ws[r], u, o) => UserShown(view', id, r, ws[r], u, o)
        BY <1>15, SameRoundShown
      <4>3. e.resolution_windows[r].user_to_outcome_to_stake[u][o]
              = ws[r].user_to_outcome_to_stake[u][o]
        BY <1>7, <3>2 DEF SameButClaimed
      <4>4. UserShown(view', id, r, ws[r], u, o)
              => UserShown(view', id, r, e.resolution_windows[r], u, o)
        BY <4>3 DEF UserShown
      <4>5. QED
        BY <1>7, <1>16, <2>3, <4>1, <4>2, <4>4 DEF UserAgrees, SameButClaimed
    <3>3. QED
      BY <3>1, <3>2
  <2>5. QED
    BY <2>2, <2>4
<1>18. \A r \in Nat \ DOMAIN ws : BlankRound(view', id, r)
  BY <1>9, <1>15, SameRoundShown DEF RequestAgrees
<1>19. RequestAgrees(view', id, e)
  BY <1>7, <1>14, <1>17, <1>18 DEF RequestAgrees
<1>20. QED
  BY <1>1, <1>4, <1>8, <1>19, ViewReplaced

---------------------------------------------------------------------------
(***************************************************************************)
(* Stakes                                                                  *)
(***************************************************************************)

UsersShown(rows, id, r, w) ==
  \A u \in Stakers, o \in Outcomes : UserShown(rows, id, r, w, u, o)

\* All rows of a window show it.
FullyShown(rows, id, r, w) ==
  /\ RowIs(rows, WindowKey(id, r), WindowSummary(w))
  /\ OutcomesShown(rows, id, r, w)
  /\ UsersShown(rows, id, r, w)

\* Lines of round n changed nothing else of the request.
OnlyRound(after, rows, id, n) ==
  /\ \A r : r # n => SameRound(after, rows, id, r)
  /\ SameRow(after, rows, RequestKey(id))
  /\ DOMAIN rows \subseteq DOMAIN after

\* Twice.
LEMMA OnlyRoundTwice ==
  ASSUME NEW a, NEW b, NEW c, NEW id, NEW n, OnlyRound(a, b, id, n), OnlyRound(b, c, id, n)
  PROVE  OnlyRound(a, c, id, n)
<1>1. \A r : r # n => SameRound(a, c, id, r)
  BY SameRoundTwice DEF OnlyRound
<1>2. QED
  BY <1>1, SameRowTwice DEF OnlyRound

\* No line, no change.
LEMMA OnlyRoundNone ==
  ASSUME NEW rows, NEW id, NEW n
  PROVE  OnlyRound(rows, rows, id, n)
BY DEF OnlyRound, SameRound, SameRow

\* The line of a window leaves the stakes in it alone, and the rest.
LEMMA WindowLogged ==
  ASSUME NEW rows, NEW id, NEW r, NEW w
  PROVE  LET after == Upsert(rows, LogResolutionWindow(id, r, w))
         IN  /\ OnlyRound(after, rows, id, r)
             /\ \A v : OutcomesShown(rows, id, r, v) => OutcomesShown(after, id, r, v)
             /\ \A v : UsersShown(rows, id, r, v) => UsersShown(after, id, r, v)
<1> DEFINE key    == WindowKey(id, r)
           params == WindowSummary(w)
           after  == Upsert(rows, Line(key, params))
<1>1. LogResolutionWindow(id, r, w) = Line(key, params)
  BY DEF LogResolutionWindow, WindowKey
<1>2. /\ key[1] = "rw" /\ key[2] = id /\ key[3] = r
      /\ RequestKey(id)[1] = "dr"
      /\ \A o : OutcomeStakeKey(id, r, o)[1] = "ots"
      /\ \A o, u : UserStakeKey(id, r, o, u)[1] = "us"
  BY DEF WindowKey, RequestKey, OutcomeStakeKey, UserStakeKey
<1>3. DOMAIN rows \subseteq DOMAIN after
  BY DEF Upsert
<1> HIDE DEF key, params
<1>4. \A i : i # r => SameRound(after, rows, id, i)
  BY <1>2, LineOtherRound
<1>5. SameRow(after, rows, RequestKey(id))
  BY <1>2, LineElsewhere
<1>6. /\ \A o : SameRow(after, rows, OutcomeStakeKey(id, r, o))
      /\ \A o, u : SameRow(after, rows, UserStakeKey(id, r, o, u))
  BY <1>2, LineElsewhere
<1> HIDE DEF after
<1>7. \A v : OutcomesShown(rows, id, r, v) => OutcomesShown(after, id, r, v)
  BY <1>6, SameShown DEF OutcomesShown
<1>8. \A v : UsersShown(rows, id, r, v) => UsersShown(after, id, r, v)
  BY <1>6, SameShown DEF UsersShown, UserShown
<1>9. OnlyRound(after, rows, id, r)
  BY <1>3, <1>4, <1>5 DEF OnlyRound
<1>10. QED
  BY <1>1, <1>7, <1>8, <1>9 DEF after

\* A new window shows once its line is written.
LEMMA WindowOpened ==
  ASSUME NEW rows, NEW id, NEW r, BlankRound(rows, id, r), NEW start, NEW end, NEW bond
  PROVE  LET w     == EmptyWindow(start, end, bond)
             after == Upsert(rows, LogResolutionWindow(id, r, w))
         IN  FullyShown(after, id, r, w) /\ OnlyRound(after, rows, id, r)
<1> DEFINE w     == EmptyWindow(start, end, bond)
           after == Upsert(rows, LogResolutionWindow(id, r, w))
<1>1. /\ w.outcome_to_stake = [o \in Outcomes |-> 0]
      /\ w.user_to_outcome_to_stake = [u \in Stakers |-> [o \in Outcomes |-> 0]]
  BY DEF EmptyWindow
<1> HIDE DEF w
<1>2. OutcomesShown(rows, id, r, w) /\ UsersShown(rows, id, r, w)
  BY <1>1, BlankShown DEF OutcomesShown, UsersShown
<1>3. WindowKey(id, r) \notin DOMAIN rows
  BY DEF BlankRound
<1>4. RowIs(after, WindowKey(id, r), WindowSummary(w))
  BY <1>3, WindowLine
<1>5. /\ OnlyRound(after, rows, id, r)
      /\ OutcomesShown(after, id, r, w)
      /\ UsersShown(after, id, r, w)
  BY <1>2, WindowLogged
<1>6. QED
  BY <1>4, <1>5 DEF FullyShown, w

\* After the lines of a stake, and of the window if it is now full, the rows
\* of the window show it with the stake.
LEMMA WindowStaked ==
  ASSUME NEW rows, NEW id, NEW r, NEW v, NEW w, NEW u \in Stakers, NEW o \in Outcomes,
         FullyShown(rows, id, r, v), OneStakeApart(w, v, u, o),
         NEW full, full \/ WindowSummary(w) = WindowSummary(v)
  PROVE  LET after == Perhaps(full, StakeLogged(rows, id, r, w, u, o),
                              LogResolutionWindow(id, r, w))
         IN  FullyShown(after, id, r, w) /\ OnlyRound(after, rows, id, r)
<1> DEFINE mid   == StakeLogged(rows, id, r, w, u, o)
           after == Upsert(mid, LogResolutionWindow(id, r, w))
<1>1. OnlyRound(mid, rows, id, r)
  BY StakeLoggedElsewhere DEF OnlyRound
<1>2. RowIs(mid, WindowKey(id, r), WindowSummary(v))
  BY StakeLoggedElsewhere, SameShown DEF FullyShown
<1>3. OutcomesShown(mid, id, r, w) /\ UsersFollow(mid, rows, id, r, w, v)
  <2>1. OutcomesShown(rows, id, r, v)
    BY DEF FullyShown
  <2>2. OneStakeApart(w, v, u, o) /\ u \in Stakers /\ o \in Outcomes
    OBVIOUS
  <2>3. QED
    BY ONLY <2>1, <2>2, StakeLoggedShows
<1>4. UsersShown(mid, id, r, w)
  BY <1>3 DEF FullyShown, UsersShown, UsersFollow
<1> HIDE DEF mid
<1>5. CASE full
  <2>1. RowIs(after, WindowKey(id, r), WindowSummary(w))
    BY <1>2, WindowLine
  <2>2. /\ OnlyRound(after, mid, id, r)
        /\ OutcomesShown(after, id, r, w)
        /\ UsersShown(after, id, r, w)
    BY <1>3, <1>4, WindowLogged
  <2> HIDE DEF after
  <2>3. OnlyRound(after, rows, id, r)
    BY <1>1, <2>2, OnlyRoundTwice
  <2>4. QED
    BY <1>5, <2>1, <2>2, <2>3 DEF FullyShown, Perhaps, after, mid
<1>6. CASE ~full
  <2>1. FullyShown(mid, id, r, w)
    BY <1>2, <1>3, <1>4, <1>6 DEF FullyShown
  <2>2. QED
    BY <1>1, <1>6, <2>1 DEF Perhaps, mid
<1>7. QED
  BY <1>5, <1>6

\* How a stake changes the windows of dr: v, in round n, becomes w, and a
\* window may open behind it.
StakeShape(dr, e, v, w, n) ==
  /\ n \in Nat /\ n > 0
  /\ dr.resolution_windows = << >> => n = 1
  /\ dr.resolution_windows # << >> => n = Rounds(dr) /\ v = dr.resolution_windows[n]
  /\ Rounds(e) \in {n, n + 1}
  /\ DOMAIN e.resolution_windows = 1 .. Rounds(e)
  /\ e.resolution_windows[n] = w
  /\ \A r \in 1 .. n : r # n => e.resolution_windows[r] = dr.resolution_windows[r]
  /\ Rounds(e) > n =>
       \E start, end, bond : LastWindow(e) = EmptyWindow(start, end, bond)

\* It changes the windows so.
LEMMA StakeShapes ==
  ASSUME NEW dr \in Request, NEW s \in Stakers, NEW o \in Outcomes, NEW amount \in Nat,
         NEW time \in Nat, Ladder(dr), ~dr.final_arbitrator_triggered,
         CanStakeOnOutcome(dr, o)
  PROVE  LET w == StakedWindow(dr, s, o, amount, time)
         IN  StakeShape(dr, Staked(dr, s, o, amount, time), StakingWindow(dr, time), w,
                        Len(WithStakedWindow(dr, w)))
<1> DEFINE v       == StakingWindow(dr, time)
           w       == StakedWindow(dr, s, o, amount, time)
           windows == WithStakedWindow(dr, w)
           n       == Len(windows)
           e       == Staked(dr, s, o, amount, time)
           next    == NextWindow(dr, w, n, time)
<1>1. /\ windows \in Seq(Window)
      /\ n \in Nat /\ n > 0
      /\ windows[n] = w
      /\ dr.resolution_windows = << >> => n = 1
      /\ dr.resolution_windows # << >> => n = Rounds(dr)
      /\ \A r \in 1 .. n : r < n => windows[r] = dr.resolution_windows[r]
  <2>1. WindowsAfterStake(dr, w, windows, o, time)
    BY StakedWindows
  <2> HIDE DEF w, windows
  <2>2. QED
    BY <2>1 DEF WindowsAfterStake
<1>2. dr.resolution_windows # << >> => v = dr.resolution_windows[n]
  <2>1. dr.resolution_windows # << >> => v = LastWindow(dr)
    BY DEF StakingWindow
  <2>2. QED
    BY <1>1, <2>1 DEF LastWindow
<1>3. \/ e.resolution_windows = windows
      \/ e.resolution_windows = Append(windows, next)
  <2>1. \/ e = [dr EXCEPT !.resolution_windows = windows]
        \/ e = [dr EXCEPT !.resolution_windows = windows, !.final_arbitrator_triggered = TRUE]
        \/ e = [dr EXCEPT !.resolution_windows = Append(windows, next)]
    BY DEF Staked
  <2> HIDE DEF windows, e, next, w, n
  <2>2. QED
    BY <2>1 DEF Request
<1>4. \E start, end, bond : next = EmptyWindow(start, end, bond)
  BY DEF NextWindow, NewWindow
<1> HIDE DEF windows, e, next, w, v
<1>5. CASE e.resolution_windows = windows
  <2>1. Rounds(e) = n /\ DOMAIN e.resolution_windows = 1 .. n
    BY <1>1, <1>5 DEF Rounds
  <2>2. \A r \in 1 .. n : r # n => r < n
    BY <1>1
  <2> HIDE DEF n
  <2>3. QED
    BY <1>1, <1>2, <1>5, <2>1, <2>2 DEF StakeShape, w, v, e, windows, n
<1>6. CASE e.resolution_windows = Append(windows, next)
  <2>1. /\ Rounds(e) = n + 1
        /\ DOMAIN e.resolution_windows = 1 .. n + 1
        /\ e.resolution_windows[n + 1] = next
        /\ \A r \in 1 .. n : e.resolution_windows[r] = windows[r]
    BY <1>1, <1>6 DEF Rounds
  <2>2. n \in 1 .. n /\ \A r \in 1 .. n : r # n => r < n
    BY <1>1
  <2>3. LastWindow(e) = next
    BY <2>1 DEF LastWindow
  <2> HIDE DEF n
  <2>4. QED
    BY <1>1, <1>2, <1>4, <2>1, <2>2, <2>3 DEF StakeShape, w, v, e, windows, n
<1>7. QED
  BY <1>3, <1>5, <1>6

\* The lines of a stake are about its request.
LEMMA StakeLinesAbout ==
  ASSUME NEW id, NEW sender, NEW outcome, NEW amount
  PROVE  LinesOf(id, StakeLines(id, sender, outcome, amount))
<1> DEFINE dr    == data_requests[id]
           next  == Staked(dr, sender, outcome, amount, now)
           w     == StakedWindow(dr, sender, outcome, amount, now)
           round == Len(WithStakedWindow(dr, w))
           opened   == LogResolutionWindow(id, round, StakingWindow(dr, now))
           stakes   == LogOutcomeToStake(id, round, w, outcome)
           user     == LogUserStake(id, round, w, sender, outcome)
           bonded   == LogResolutionWindow(id, round, w)
           later    == LogResolutionWindow(id, round + 1, LastWindow(next))
           updated  == LogUpdateActiveDataRequest(id, next)
           T        == {opened, stakes, user, bonded, later, updated}
           lines    == Optional(dr.resolution_windows = << >>, opened)
                         \o << stakes, user >>
                         \o Optional(w.outcome_to_stake[outcome] = w.bond_size, bonded)
                         \o Optional(Rounds(next) > round, later)
                         \o << updated >>
<1>1. \A line \in T : LineOf(id, line)
  BY LinesAbout
<1>2. StakeLines(id, sender, outcome, amount) = lines
  BY DEF StakeLines
<1>3. lines \in Seq(T)
  <2> HIDE DEF opened, stakes, user, bonded, later, updated
  <2>1. /\ Optional(dr.resolution_windows = << >>, opened) \in Seq(T)
        /\ Optional(w.outcome_to_stake[outcome] = w.bond_size, bonded) \in Seq(T)
        /\ Optional(Rounds(next) > round, later) \in Seq(T)
    BY OptionalType
  <2>2. << stakes, user >> \in Seq(T) /\ << updated >> \in Seq(T)
    OBVIOUS
  <2> HIDE DEF T
  <2>3. QED
    BY <2>1, <2>2
<1> HIDE DEF T, lines
<1>4. QED
  BY <1>1, <1>2, <1>3, ListAbout

\* The rows after a stake, as AppliedStake has them.
RowsStaked(rows, id, e, v, w, n, u, o, first, full, further) ==
  Upsert(Perhaps(further,
           Perhaps(full,
             StakeLogged(Perhaps(first, rows, LogResolutionWindow(id, n, v)), id, n, w, u, o),
             LogResolutionWindow(id, n, w)),
           LogResolutionWindow(id, n + 1, LastWindow(e))),
         LogUpdateActiveDataRequest(id, e))

\* They show the request after the stake.
LEMMA StakeShows ==
  ASSUME NEW rows, NEW id, NEW dr, NEW e, NEW v, NEW w, NEW n, NEW u \in Stakers,
         NEW o \in Outcomes, NEW full,
         RequestAgrees(rows, id, dr), IsActive(dr),
         DOMAIN dr.resolution_windows = 1 .. Rounds(dr), Rounds(dr) \in Nat,
         dr.resolution_windows = << >> <=> Rounds(dr) = 0,
         StakeShape(dr, e, v, w, n), OneStakeApart(w, v, u, o),
         dr.resolution_windows = << >> =>
           \E start, end, bond : v = EmptyWindow(start, end, bond),
         full \/ WindowSummary(w) = WindowSummary(v),
         Lasting(e, dr), e.finalized_outcome = dr.finalized_outcome
  PROVE  RequestAgrees(RowsStaked(rows, id, e, v, w, n, u, o, dr.resolution_windows = << >>, full,
                                  Rounds(e) > n),
                       id, e)
<1> DEFINE ws     == dr.resolution_windows
           first  == dr.resolution_windows = << >>
           opened == Perhaps(first, rows, LogResolutionWindow(id, n, v))
           staked == Perhaps(full, StakeLogged(opened, id, n, w, u, o), LogResolutionWindow(id, n, w))
           longer == Perhaps(Rounds(e) > n, staked, LogResolutionWindow(id, n + 1, LastWindow(e)))
           after  == Upsert(longer, LogUpdateActiveDataRequest(id, e))
<1>1. /\ n \in Nat /\ n > 0
      /\ first => n = 1
      /\ ~first => n = Rounds(dr) /\ v = ws[n]
      /\ Rounds(e) \in {n, n + 1}
      /\ DOMAIN e.resolution_windows = 1 .. Rounds(e)
      /\ e.resolution_windows[n] = w
      /\ \A r \in 1 .. n : r # n => e.resolution_windows[r] = ws[r]
      /\ Rounds(e) > n => \E start, end, bond : LastWindow(e) = EmptyWindow(start, end, bond)
  BY DEF StakeShape
<1>2. /\ \A r \in Nat : r > n => r \notin DOMAIN ws
      /\ \A r \in 1 .. n : r # n => r \in DOMAIN ws
      /\ ~first => n \in DOMAIN ws
      /\ first => n \in Nat \ DOMAIN ws
  BY <1>1
<1>3. FullyShown(opened, id, n, v) /\ OnlyRound(opened, rows, id, n)
  <2>1. CASE first
    <3>1. BlankRound(rows, id, n)
      BY <1>2, <2>1 DEF RequestAgrees
    <3>2. PICK start, end, bond : v = EmptyWindow(start, end, bond)
      BY <2>1
    <3>3. opened = Upsert(rows, LogResolutionWindow(id, n, v))
      BY <2>1 DEF Perhaps
    <3>4. QED
      BY <3>1, <3>2, <3>3, WindowOpened
  <2>2. CASE ~first
    <3>1. opened = rows
      BY <2>2 DEF Perhaps
    <3>2. RoundShown(rows, id, n, v)
      BY <1>1, <1>2, <2>2 DEF RequestAgrees
    <3>3. UsersShown(rows, id, n, v)
      BY <1>1, <1>2, <2>2 DEF RequestAgrees, UserAgrees, UsersShown
    <3>4. QED
      BY <3>1, <3>2, <3>3, OnlyRoundNone DEF FullyShown, RoundShown, OutcomesShown
  <2>3. QED
    BY <2>1, <2>2
<1> HIDE DEF opened
<1>4. FullyShown(staked, id, n, w) /\ OnlyRound(staked, opened, id, n)
  BY <1>3, WindowStaked
<1> HIDE DEF staked
<1>5. OnlyRound(staked, rows, id, n)
  BY <1>3, <1>4, OnlyRoundTwice
<1>6. /\ OnlyRound(longer, staked, id, n + 1)
      /\ Rounds(e) > n => FullyShown(longer, id, n + 1, LastWindow(e))
  <2>1. CASE Rounds(e) > n
    <3>1. n + 1 \in Nat /\ n + 1 > n /\ n + 1 # n
      BY <1>1
    <3>2. BlankRound(rows, id, n + 1)
      BY <1>2, <3>1 DEF RequestAgrees
    <3>3. BlankRound(staked, id, n + 1)
      BY <1>5, <3>1, <3>2, SameRoundShown DEF OnlyRound
    <3>4. PICK start, end, bond : LastWindow(e) = EmptyWindow(start, end, bond)
      BY <1>1, <2>1
    <3>5. longer = Upsert(staked, LogResolutionWindow(id, n + 1, LastWindow(e)))
      BY <2>1 DEF Perhaps
    <3>6. QED
      BY <3>3, <3>4, <3>5, WindowOpened
  <2>2. CASE ~(Rounds(e) > n)
    BY <2>2, OnlyRoundNone DEF Perhaps
  <2>3. QED
    BY <2>1, <2>2
<1> HIDE DEF longer
<1>7. /\ \A r : SameRound(after, longer, id, r)
      /\ DOMAIN longer \subseteq DOMAIN after
  BY RequestLines, RequestLineRounds
<1>8. RequestRow(after, id, e)
  <2>1. RequestRow(longer, id, dr)
    BY <1>5, <1>6, SameRequestRow DEF RequestAgrees, OnlyRound
  <2>2. QED
    BY <2>1, ActiveRow
<1> HIDE DEF after
<1>9. \A r : r # n /\ r # n + 1 => SameRound(after, rows, id, r)
  <2> TAKE r
  <2> HAVE r # n /\ r # n + 1
  <2>1. SameRound(after, longer, id, r) /\ SameRound(longer, staked, id, r) /\ SameRound(staked, rows, id, r)
    BY <1>5, <1>6, <1>7 DEF OnlyRound
  <2>2. QED
    BY <2>1, SameRoundTwice
<1>10. ASSUME NEW r \in DOMAIN e.resolution_windows
       PROVE  /\ RoundShown(after, id, r, e.resolution_windows[r])
              /\ UsersShown(after, id, r, e.resolution_windows[r])
  <2>1. r \in 1 .. Rounds(e) /\ (r \in 1 .. n \/ (r = n + 1 /\ Rounds(e) > n /\ Rounds(e) = n + 1))
    BY <1>1
  <2>2. CASE r = n
    <3>1. SameRound(after, staked, id, n)
      <4>1. n # n + 1
        BY <1>1
      <4>2. QED
        BY <1>6, <1>7, <4>1, SameRoundTwice DEF OnlyRound
    <3>2. RoundShown(staked, id, n, w) /\ UsersShown(staked, id, n, w)
      BY <1>4 DEF FullyShown, RoundShown, OutcomesShown
    <3>3. QED
      BY <1>1, <2>2, <3>1, <3>2, SameRoundShown DEF UsersShown
  <2>3. CASE r = n + 1 /\ Rounds(e) > n /\ Rounds(e) = n + 1
    <3>1. e.resolution_windows[r] = LastWindow(e)
      BY <2>3 DEF LastWindow
    <3>2. RoundShown(longer, id, r, LastWindow(e)) /\ UsersShown(longer, id, r, LastWindow(e))
      BY <1>6, <2>3 DEF FullyShown, RoundShown, OutcomesShown
    <3>3. QED
      BY <1>7, <3>1, <3>2, SameRoundShown DEF UsersShown
  <2>4. CASE r \in 1 .. n /\ r # n
    <3>1. r # n /\ r # n + 1 /\ r \in DOMAIN ws /\ e.resolution_windows[r] = ws[r]
      BY <1>1, <1>2, <2>4
    <3>2. SameRound(after, rows, id, r)
      BY <1>9, <3>1
    <3>3. RoundShown(rows, id, r, ws[r]) /\ UsersShown(rows, id, r, ws[r])
      BY <3>1 DEF RequestAgrees, UserAgrees, UsersShown
    <3>4. QED
      BY <3>1, <3>2, <3>3, SameRoundShown DEF UsersShown
  <2>5. QED
    BY <2>1, <2>2, <2>3, <2>4
<1>11. ASSUME NEW r \in Nat \ DOMAIN e.resolution_windows
       PROVE  BlankRound(after, id, r)
  <2>1. r # n /\ n \in 1 .. Rounds(e)
    BY <1>1
  <2>2. CASE r = n + 1
    <3>1. ~(Rounds(e) > n) /\ r > n
      BY <1>1, <2>2
    <3>2. BlankRound(rows, id, r)
      BY <1>2, <3>1 DEF RequestAgrees
    <3>3. longer = staked
      BY <3>1 DEF longer, Perhaps
    <3>4. SameRound(after, staked, id, r) /\ SameRound(staked, rows, id, r)
      BY <1>5, <1>7, <2>1, <3>3 DEF OnlyRound
    <3>5. QED
      BY <3>2, <3>4, SameRoundShown
  <2>3. CASE r # n + 1
    <3>1. r \in Nat \ DOMAIN ws
      <4>1. r = 0 \/ r > n
        BY <1>1, <2>3
      <4>2. 0 \notin DOMAIN ws
        OBVIOUS
      <4>3. QED
        BY <1>2, <4>1, <4>2
    <3>2. BlankRound(rows, id, r)
      BY <3>1 DEF RequestAgrees
    <3>3. QED
      BY <1>9, <2>1, <2>3, <3>2, SameRoundShown
  <2>4. QED
    BY <2>2, <2>3
<1>12. RequestAgrees(after, id, e)
  BY <1>8, <1>10, <1>11 DEF RequestAgrees, UserAgrees, UsersShown
<1>13. QED
  BY <1>12 DEF RowsStaked, after, longer, staked, opened

\* A stake shows in the window it goes to, and in the one it opens.
LEMMA LogDrStakeView ==
  ASSUME ViewInv, Inv', NEW token \in Tokens, NEW sender \in Stakers, NEW amount \in StakeAmounts,
         NEW id \in DOMAIN data_requests, NEW outcome \in Outcomes,
         LogDrStake(token, sender, amount, id, outcome)
  PROVE  ViewInv'
<1> DEFINE dr    == data_requests[id]
           e     == Staked(dr, sender, outcome, amount, now)
           v     == StakingWindow(dr, now)
           w     == StakedWindow(dr, sender, outcome, amount, now)
           n     == Len(WithStakedWindow(dr, w))
           first == dr.resolution_windows = << >>
           full  == w.outcome_to_stake[outcome] = w.bond_size
           after == RowsStaked(view, id, e, v, w, n, sender, outcome, first, full, Rounds(e) > n)
<1>1. /\ DrStake(token, sender, amount, id, outcome)
      /\ Logs(StakeLines(id, sender, outcome, amount))
      /\ fees' = fees
  BY DEF LogDrStake
<1>2. /\ IsActive(dr)
      /\ ~dr.final_arbitrator_triggered
      /\ CanStakeOnOutcome(dr, outcome)
      /\ data_requests' = [data_requests EXCEPT ![id] = e]
      /\ configs' = configs /\ whitelist' = whitelist
  BY <1>1 DEF DrStake
<1>3. dr \in Request /\ Ladder(dr) /\ now \in Nat /\ amount \in Nat
  BY RequestFacts, OracleAssumption DEF ViewInv
<1>4. view' = Applied(view, StakeLines(id, sender, outcome, amount))
  BY <1>1 DEF Logs, Applied
<1>5. LinesOf(id, StakeLines(id, sender, outcome, amount))
  BY StakeLinesAbout
<1>6. view' = after
  BY <1>4, AppliedStake DEF StakeLines, RowsStaked, StakeLogged
<1>7. StakeShape(dr, e, v, w, n)
  BY <1>2, <1>3, StakeShapes
<1>8. v \in Window /\ FilledToBond(v)
  BY <1>2, <1>3, StakingWindowOpen
<1>9. OneStakeApart(w, v, sender, outcome) /\ (full \/ WindowSummary(w) = WindowSummary(v))
  <2> DEFINE total == v.outcome_to_stake[outcome] + Taken(v, outcome, amount)
             taken == Taken(v, outcome, amount)
  <2>1. w = AddStake(v, sender, outcome, amount)
    BY DEF StakedWindow
  <2> HIDE DEF v, w
  <2>2. /\ w.start_time = v.start_time
        /\ w.end_time = v.end_time
        /\ w.bond_size = v.bond_size
        /\ w.outcome_to_stake = [v.outcome_to_stake EXCEPT ![outcome] = total]
        /\ w.bonded_outcome = IF total = w.bond_size THEN outcome ELSE v.bonded_outcome
    BY <1>3, <1>8, <2>1, AddStakeFields DEF FilledToBond
  <2>3. w.user_to_outcome_to_stake = [v.user_to_outcome_to_stake EXCEPT ![sender][outcome] = @ + taken]
    BY <1>3, <1>8, <2>1, AddStakeUsers
  <2> HIDE DEF total, taken
  <2>4. w.outcome_to_stake[outcome] = total
        /\ \A q \in Outcomes : q # outcome => w.outcome_to_stake[q] = v.outcome_to_stake[q]
    BY <1>8, <2>2 DEF Window
  <2>5. \A s \in Stakers, q \in Outcomes :
          s # sender \/ q # outcome
            => w.user_to_outcome_to_stake[s][q] = v.user_to_outcome_to_stake[s][q]
    BY <1>8, <2>3 DEF Window
  <2>6. ~full => WindowSummary(w) = WindowSummary(v)
    BY <2>2, <2>4 DEF WindowSummary
  <2>7. QED
    BY <2>4, <2>5, <2>6 DEF OneStakeApart
<1>10. first => \E start, end, bond : v = EmptyWindow(start, end, bond)
  BY DEF StakingWindow, NewWindow
<1>11. /\ DOMAIN dr.resolution_windows = 1 .. Rounds(dr)
       /\ Rounds(dr) \in Nat
       /\ dr.resolution_windows = << >> <=> Rounds(dr) = 0
  <2> HIDE DEF dr
  <2>1. /\ DOMAIN dr.resolution_windows = 1 .. Rounds(dr)
        /\ Rounds(dr) \in Nat
        /\ dr.resolution_windows # << >> <=> Rounds(dr) > 0
    BY <1>3, RequestFields
  <2>2. QED
    BY <2>1
<1>12. Lasting(e, dr) /\ e.finalized_outcome = dr.finalized_outcome
  BY <1>3 DEF Staked, Request, Lasting
<1>13. RequestAgrees(view, id, dr)
  BY DEF ViewInv
<1>14. RequestAgrees(after, id, e)
  <2> HIDE DEF dr, e, v, w, n, full
  <2>1. QED
    BY <1>2, <1>7, <1>9, <1>10, <1>11, <1>12, <1>13, StakeShows
<1> HIDE DEF e, after
<1>15. RequestAgrees(view', id, e)
  BY <1>6, <1>14
<1>16. QED
  BY <1>1, <1>2, <1>4, <1>5, <1>15, ViewReplaced

---------------------------------------------------------------------------
(***************************************************************************)
(* Governance                                                              *)
(***************************************************************************)

GovernanceWords == {"oc", "wl"}

\* A line of governance leaves what is shown of the requests.
LEMMA GovernanceLine ==
  ASSUME NEW rows, NEW cap_id, NEW params, cap_id[1] \in GovernanceWords
  PROVE  LET after == Upsert(rows, Line(cap_id, params))
         IN  /\ \A id, dr : RequestAgrees(rows, id, dr) => RequestAgrees(after, id, dr)
             /\ \A id : NothingLogged(rows, id) => NothingLogged(after, id)
<1> DEFINE after == Upsert(rows, Line(cap_id, params))
<1>1. cap_id[1] \notin {"rw", "ots", "us"} /\ cap_id[1] # "dr"
  BY DEF GovernanceWords
<1>2. \A id, r : SameRound(after, rows, id, r)
  BY <1>1, LineOtherRound
<1>3. \A id : SameRow(after, rows, RequestKey(id))
  <2> TAKE id
  <2>1. RequestKey(id)[1] = "dr"
    BY DEF RequestKey
  <2>2. QED
    BY <1>1, <2>1, LineElsewhere
<1>4. DOMAIN rows \subseteq DOMAIN after
  BY DEF Upsert
<1> HIDE DEF after
<1>5. ASSUME NEW id, NEW dr, RequestAgrees(rows, id, dr)
      PROVE  RequestAgrees(after, id, dr)
  <2>1. RequestRow(after, id, dr)
    BY <1>3, <1>5, SameRequestRow DEF RequestAgrees
  <2>2. QED
    BY <1>2, <1>4, <1>5, <2>1, RoundsStay
<1>6. \A id : NothingLogged(rows, id) => NothingLogged(after, id)
  BY <1>2, SameRoundShown DEF NothingLogged
<1>7. QED
  BY <1>5, <1>6 DEF after

\* A step that logs such a line and leaves the requests.
LEMMA ViewGoverned ==
  ASSUME ViewInv, Inv', data_requests' = data_requests,
         NEW cap_id, cap_id[1] \in GovernanceWords, NEW params,
         view' = Applied(view, << Line(cap_id, params) >>),
         fees' \in Seq(Fees), Len(fees') = Len(configs'),
         ConfigsAgree(view', configs', fees'), WhitelistAgrees(view', whitelist')
  PROVE  ViewInv'
<1>1. view' = Upsert(view, Line(cap_id, params))
  BY AppliedOne
<1>2. /\ \A id, dr : RequestAgrees(view, id, dr) => RequestAgrees(view', id, dr)
      /\ \A id : NothingLogged(view, id) => NothingLogged(view', id)
  BY <1>1, GovernanceLine
<1>3. QED
  BY <1>2 DEF ViewInv

\* Configurations differ from those before in at most place i.
OneConfigApart(cs, fs, before, paid, i) ==
  /\ i \in DOMAIN cs
  /\ \A j : j # i => (j \in DOMAIN cs <=> j \in DOMAIN before)
  /\ \A j \in DOMAIN before : j # i => cs[j] = before[j] /\ fs[j] = paid[j]

\* The line of a configuration shows it.
LEMMA ConfigLine ==
  ASSUME NEW rows, NEW cs, NEW fs, NEW before, NEW paid, NEW i \in Nat,
         ConfigsAgree(rows, before, paid), OneConfigApart(cs, fs, before, paid, i)
  PROVE  ConfigsAgree(Upsert(rows, LogOracleConfig(i, cs[i], fs[i])), cs, fs)
<1> DEFINE params == [config |-> cs[i], fee |-> fs[i]]
           key    == ConfigKey(i)
           after  == Upsert(rows, Line(key, params))
<1>1. LogOracleConfig(i, cs[i], fs[i]) = Line(key, params)
  BY DEF LogOracleConfig, ConfigKey
<1>2. params = [field \in DOMAIN params |-> params[field]]
      /\ DOMAIN params = {"config", "fee"}
  OBVIOUS
<1>3. Fits(rows, key, params)
  <2>1. CASE i \in DOMAIN before
    <3>1. RowIs(rows, key, [config |-> before[i], fee |-> paid[i]])
      BY <2>1 DEF ConfigsAgree
    <3>2. DOMAIN [config |-> before[i], fee |-> paid[i]] = {"config", "fee"}
      OBVIOUS
    <3> HIDE DEF params
    <3>3. QED
      BY <1>2, <3>1, <3>2 DEF Fits, RowIs
  <2>2. CASE i \notin DOMAIN before
    BY <2>2 DEF ConfigsAgree, Fits
  <2>3. QED
    BY <2>1, <2>2
<1>4. \A j : j # i => ConfigKey(j) # key
  <2> TAKE j
  <2>1. ConfigKey(j)[2] = j /\ key[2] = i
    BY DEF ConfigKey
  <2>2. QED
    BY <2>1
<1> HIDE DEF params, key
<1>5. RowIs(after, key, params)
  BY <1>2, <1>3, LineRow
<1>6. \A j : j # i => SameRow(after, rows, ConfigKey(j))
  BY <1>4, LineElsewhere
<1> HIDE DEF after
<1>7. ASSUME NEW j \in DOMAIN cs
      PROVE  RowIs(after, ConfigKey(j), [config |-> cs[j], fee |-> fs[j]])
  <2>1. CASE j = i
    BY <1>5, <2>1 DEF key, params
  <2>2. CASE j # i
    <3>1. j \in DOMAIN before /\ cs[j] = before[j] /\ fs[j] = paid[j]
      BY <2>2 DEF OneConfigApart
    <3>2. RowIs(rows, ConfigKey(j), [config |-> before[j], fee |-> paid[j]])
      BY <3>1 DEF ConfigsAgree
    <3>3. SameRow(after, rows, ConfigKey(j))
      BY <1>6, <2>2
    <3>4. QED
      BY <3>1, <3>2, <3>3, SameShown
  <2>3. QED
    BY <2>1, <2>2
<1>8. ASSUME NEW j \in Nat \ DOMAIN cs
      PROVE  ConfigKey(j) \notin DOMAIN after
  <2>1. j # i /\ j \notin DOMAIN before
    BY DEF OneConfigApart
  <2>2. QED
    BY <1>6, <2>1 DEF ConfigsAgree, SameRow
<1>9. ConfigsAgree(after, cs, fs)
  BY <1>7, <1>8 DEF ConfigsAgree
<1>10. QED
  BY <1>1, <1>9 DEF after

\* The lines of the configurations and of the whitelist have rows of their own.
LEMMA ConfigLineWhitelist ==
  ASSUME NEW rows, NEW i, NEW config, NEW fee, NEW wl, WhitelistAgrees(rows, wl)
  PROVE  WhitelistAgrees(Upsert(rows, LogOracleConfig(i, config, fee)), wl)
<1> DEFINE params == [config |-> config, fee |-> fee]
           after  == Upsert(rows, Line(ConfigKey(i), params))
<1>1. LogOracleConfig(i, config, fee) = Line(ConfigKey(i), params)
  BY DEF LogOracleConfig, ConfigKey
<1>2. \A requester : SameRow(after, rows, WhitelistKey(requester))
  <2> TAKE requester
  <2>1. WhitelistKey(requester)[1] = "wl" /\ ConfigKey(i)[1] = "oc"
    BY DEF WhitelistKey, ConfigKey
  <2>2. QED
    BY <2>1, LineElsewhere
<1> HIDE DEF after
<1>3. WhitelistAgrees(after, wl)
  BY <1>2 DEF WhitelistAgrees, RequesterAgrees, SameRow, RowIs
<1>4. QED
  BY <1>1, <1>3 DEF after

\* The line of a requester shows it, and leaves other requesters and the configurations.
LEMMA WhitelistLine ==
  ASSUME NEW rows, NEW wl, NEW requester, NEW multiplier, NEW active,
         RequesterAgrees(rows, wl, requester)
  PROVE  LET after == Upsert(rows, LogWhitelist(requester, multiplier, active))
         IN  /\ RowIs(after, WhitelistKey(requester), ListedRow(multiplier, active))
             /\ \A r : r # requester => SameRow(after, rows, WhitelistKey(r))
             /\ \A cs, fs : ConfigsAgree(rows, cs, fs) => ConfigsAgree(after, cs, fs)
<1> DEFINE params == ListedRow(multiplier, active)
           key    == WhitelistKey(requester)
           after  == Upsert(rows, Line(key, params))
<1>1. LogWhitelist(requester, multiplier, active) = Line(key, params)
  BY DEF LogWhitelist, WhitelistKey, ListedRow
<1>2. params = [field \in DOMAIN params |-> params[field]]
      /\ \A m, a : DOMAIN ListedRow(m, a) = {"stake_multiplier", "active"}
  BY DEF ListedRow
<1>3. \A r : r # requester => WhitelistKey(r) # key
  <2> TAKE r
  <2>1. WhitelistKey(r)[2] = r /\ key[2] = requester
    BY DEF WhitelistKey
  <2>2. QED
    BY <2>1
<1>4. \A i : ConfigKey(i) # key
  <2> TAKE i
  <2>1. ConfigKey(i)[1] = "oc" /\ key[1] = "wl"
    BY DEF ConfigKey, WhitelistKey
  <2>2. QED
    BY <2>1
<1>5. Fits(rows, key, params)
  BY <1>2 DEF RequesterAgrees, RowIs, Fits
<1> HIDE DEF params, key
<1>6. RowIs(after, key, params)
  BY <1>2, <1>5, LineRow
<1>7. \A r : r # requester => SameRow(after, rows, WhitelistKey(r))
  BY <1>3, LineElsewhere
<1>8. \A i : SameRow(after, rows, ConfigKey(i))
  BY <1>4, LineElsewhere
<1> HIDE DEF after
<1>9. \A cs, fs : ConfigsAgree(rows, cs, fs) => ConfigsAgree(after, cs, fs)
  BY <1>8 DEF ConfigsAgree, SameRow, RowIs
<1>10. QED
  BY <1>1, <1>6, <1>7, <1>9 DEF after, key, params

\* set_config adds the row of a configuration.
LEMMA LogSetConfigView ==
  ASSUME ViewInv, Inv', NEW caller, NEW config, NEW fee \in Fees,
         LogSetConfig(caller, config, fee)
  PROVE  ViewInv'
<1> DEFINE i == Len(configs')
<1>1. /\ configs' = Append(configs, config) /\ fees' = Append(fees, fee)
      /\ view' = Applied(view, << LogOracleConfig(i, config, fee) >>)
      /\ data_requests' = data_requests /\ whitelist' = whitelist
  BY DEF LogSetConfig, SetConfig, WithConfig, Logs, Applied
<1>2. /\ configs \in Seq(OracleConfig)
      /\ configs' \in Seq(OracleConfig)
      /\ fees \in Seq(Fees)
      /\ Len(fees) = Len(configs)
  BY DEF ViewInv, Inv, TypeOK
<1>3. /\ fees' \in Seq(Fees)
      /\ Len(fees') = i
      /\ i \in Nat
      /\ configs'[i] = config
      /\ fees'[i] = fee
      /\ DOMAIN configs = 1 .. i - 1
      /\ DOMAIN configs' = 1 .. i
      /\ \A j \in DOMAIN configs : configs'[j] = configs[j] /\ fees'[j] = fees[j]
  BY <1>1, <1>2
<1> HIDE DEF i
<1>4. OneConfigApart(configs', fees', configs, fees, i)
  <2>1. i \in DOMAIN configs'
    <3>1. Len(configs) \in Nat /\ i = Len(configs) + 1
      BY <1>1, <1>2 DEF i
    <3>2. QED
      BY <1>3, <3>1
  <2>2. \A j : j # i => (j \in DOMAIN configs' <=> j \in DOMAIN configs)
    BY <1>3
  <2>3. QED
    BY <1>3, <2>1, <2>2 DEF OneConfigApart
<1>5. view' = Upsert(view, LogOracleConfig(i, configs'[i], fees'[i]))
  BY <1>1, <1>3, AppliedOne
<1>6. ConfigsAgree(view', configs', fees')
  <2>1. ConfigsAgree(view, configs, fees) /\ i \in Nat
    BY <1>3 DEF ViewInv
  <2>2. QED
    BY ONLY <1>4, <1>5, <2>1, ConfigLine
<1>7. WhitelistAgrees(view', whitelist')
  BY <1>1, <1>5, ConfigLineWhitelist DEF ViewInv
<1>8. /\ LogOracleConfig(i, config, fee) = Line(ConfigKey(i), [config |-> config, fee |-> fee])
      /\ ConfigKey(i)[1] \in GovernanceWords
  BY DEF LogOracleConfig, ConfigKey, GovernanceWords
<1>9. Len(fees') = Len(configs')
  BY <1>3 DEF i
<1>10. QED
  BY <1>1, <1>3, <1>6, <1>7, <1>8, <1>9, ViewGoverned

\* update_fee_config rewrites the row of the current one.
LEMMA UpdateFeeConfigView ==
  ASSUME ViewInv, Inv', NEW caller, NEW fee \in Fees, UpdateFeeConfig(caller, fee)
  PROVE  ViewInv'
<1> DEFINE i == Len(configs)
<1>1. /\ fees' = [fees EXCEPT ![i] = fee]
      /\ view' = Applied(view, << LogOracleConfig(i, configs[i], fee) >>)
      /\ data_requests' = data_requests /\ whitelist' = whitelist /\ configs' = configs
  BY DEF UpdateFeeConfig, CurrentConfig, Logs, Applied, vars
<1>2. /\ configs \in Seq(OracleConfig) /\ configs # << >>
      /\ fees \in Seq(Fees)
      /\ Len(fees) = Len(configs)
  BY DEF ViewInv, Inv, TypeOK
<1>3. /\ i \in Nat /\ i \in DOMAIN configs /\ i \in DOMAIN fees
      /\ DOMAIN fees = DOMAIN configs
  BY <1>2
<1>4. /\ fees' \in Seq(Fees)
      /\ Len(fees') = Len(configs)
      /\ fees'[i] = fee
      /\ \A j \in DOMAIN fees : j # i => fees'[j] = fees[j]
  BY <1>1, <1>2, <1>3
<1> HIDE DEF i
<1>5. OneConfigApart(configs', fees', configs, fees, i)
  BY <1>1, <1>3, <1>4 DEF OneConfigApart
<1>6. view' = Upsert(view, LogOracleConfig(i, configs'[i], fees'[i]))
  BY <1>1, <1>4, AppliedOne
<1>7. ConfigsAgree(view', configs', fees')
  <2>1. ConfigsAgree(view, configs, fees) /\ i \in Nat
    BY <1>3 DEF ViewInv
  <2>2. QED
    BY ONLY <1>5, <1>6, <2>1, ConfigLine
<1>8. WhitelistAgrees(view', whitelist')
  BY <1>1, <1>6, ConfigLineWhitelist DEF ViewInv
<1>9. /\ LogOracleConfig(i, configs[i], fee)
           = Line(ConfigKey(i), [config |-> configs[i], fee |-> fee])
      /\ ConfigKey(i)[1] \in GovernanceWords
  BY DEF LogOracleConfig, ConfigKey, GovernanceWords
<1>10. QED
  BY <1>1, <1>4, <1>7, <1>8, <1>9, ViewGoverned

\* A line of the whitelist, after which the requester is as the line says, and
\* the others are as they were.
LEMMA WhitelistedView ==
  ASSUME ViewInv, Inv', NEW requester \in Requesters, NEW multiplier, NEW active \in BOOLEAN,
         Logs(<< LogWhitelist(requester, multiplier, active) >>),
         UNCHANGED << data_requests, configs, fees >>,
         IsWhitelist(whitelist'),
         requester \in DOMAIN whitelist' <=> active,
         active => whitelist'[requester] = multiplier,
         \A r : r # requester =>
           /\ r \in DOMAIN whitelist' <=> whitelist # NoWhitelist /\ r \in DOMAIN whitelist
           /\ r \in DOMAIN whitelist' => whitelist'[r] = whitelist[r]
  PROVE  ViewInv'
<1> DEFINE line == LogWhitelist(requester, multiplier, active)
<1>1. view' = Applied(view, << line >>)
  BY DEF Logs, Applied
<1>2. view' = Upsert(view, line)
  BY <1>1, AppliedOne
<1>3. WhitelistAgrees(view, whitelist) /\ ConfigsAgree(view, configs, fees)
  BY DEF ViewInv
<1>4. /\ RowIs(view', WhitelistKey(requester), ListedRow(multiplier, active))
      /\ \A r : r # requester => SameRow(view', view, WhitelistKey(r))
      /\ \A cs, fs : ConfigsAgree(view, cs, fs) => ConfigsAgree(view', cs, fs)
  BY <1>2, <1>3, WhitelistLine DEF WhitelistAgrees
<1>5. whitelist' # NoWhitelist
  BY WhitelistAssumption
<1>6. ASSUME NEW r \in Requesters
      PROVE  RequesterAgrees(view', whitelist', r)
  <2>1. CASE r = requester
    BY <1>4, <1>5, <2>1 DEF RequesterAgrees
  <2>2. CASE r # requester
    <3>1. RequesterAgrees(view, whitelist, r)
      BY <1>3 DEF WhitelistAgrees
    <3>2. SameRow(view', view, WhitelistKey(r))
      BY <1>4, <2>2
    <3>3. QED
      BY <1>5, <2>2, <3>1, <3>2 DEF RequesterAgrees, SameRow, RowIs
  <2>3. QED
    BY <2>1, <2>2
<1>7. /\ line = Line(WhitelistKey(requester), ListedRow(multiplier, active))
      /\ WhitelistKey(requester)[1] \in GovernanceWords
  BY DEF LogWhitelist, WhitelistKey, ListedRow, GovernanceWords
<1>8. ConfigsAgree(view', configs', fees') /\ WhitelistAgrees(view', whitelist')
  BY <1>3, <1>4, <1>6 DEF WhitelistAgrees
<1>9. fees' \in Seq(Fees) /\ Len(fees') = Len(configs')
  BY DEF ViewInv
<1>10. QED
  BY <1>1, <1>7, <1>8, <1>9, ViewGoverned

\* add_to_whitelist shows the requester as listed,
LEMMA LogAddToWhitelistView ==
  ASSUME ViewInv, Inv', NEW caller, NEW requester \in Requesters, NEW multiplier \in Multipliers,
         LogAddToWhitelist(caller, requester, multiplier)
  PROVE  ViewInv'
<1> DEFINE listed == IF whitelist = NoWhitelist THEN {} ELSE DOMAIN whitelist
<1>1. /\ Logs(<< LogWhitelist(requester, multiplier, TRUE) >>)
      /\ UNCHANGED << data_requests, configs, fees >>
      /\ whitelist' = [r \in listed \union {requester} |->
                         IF r = requester THEN multiplier ELSE whitelist[r]]
  BY DEF LogAddToWhitelist, AddToWhitelist
<1>2. /\ listed \subseteq Requesters
      /\ \A r \in listed : whitelist[r] \in OptionalMultiplier
  BY DEF ViewInv, Inv, TypeOK, IsWhitelist
<1>3. \A r : r \in listed <=> whitelist # NoWhitelist /\ r \in DOMAIN whitelist
  OBVIOUS
<1> HIDE DEF listed
<1>4. IsWhitelist(whitelist')
  <2>1. whitelist' \in [listed \union {requester} -> OptionalMultiplier]
    BY <1>1, <1>2, OracleAssumption
  <2>2. listed \union {requester} \in SUBSET Requesters
    BY <1>2
  <2>3. QED
    BY <2>1, <2>2 DEF IsWhitelist
<1>5. /\ requester \in DOMAIN whitelist' <=> TRUE
      /\ TRUE => whitelist'[requester] = multiplier
      /\ \A r : r # requester =>
           /\ r \in DOMAIN whitelist' <=> whitelist # NoWhitelist /\ r \in DOMAIN whitelist
           /\ r \in DOMAIN whitelist' => whitelist'[r] = whitelist[r]
  BY <1>1, <1>3
<1>6. TRUE \in BOOLEAN
  OBVIOUS
<1>7. QED
  BY <1>1, <1>4, <1>5, <1>6, WhitelistedView

\* and remove_from_whitelist as no longer listed.
LEMMA LogRemoveFromWhitelistView ==
  ASSUME ViewInv, Inv', NEW caller, NEW requester \in Requesters, NEW multiplier,
         LogRemoveFromWhitelist(caller, requester, multiplier)
  PROVE  ViewInv'
<1>1. /\ Logs(<< LogWhitelist(requester, multiplier, FALSE) >>)
      /\ UNCHANGED << data_requests, configs, fees >>
      /\ whitelist # NoWhitelist
      /\ whitelist' = [r \in DOMAIN whitelist \ {requester} |-> whitelist[r]]
  BY DEF LogRemoveFromWhitelist, RemoveFromWhitelist
<1>2. IsWhitelist(whitelist')
  <2>1. PICK S \in SUBSET Requesters : whitelist \in [S -> OptionalMultiplier]
    BY <1>1 DEF ViewInv, Inv, TypeOK, IsWhitelist
  <2>2. whitelist' \in [S \ {requester} -> OptionalMultiplier]
    BY <1>1, <2>1
  <2>3. QED
    BY <2>2 DEF IsWhitelist
<1>3. /\ requester \in DOMAIN whitelist' <=> FALSE
      /\ FALSE => whitelist'[requester] = multiplier
      /\ \A r : r # requester =>
           /\ r \in DOMAIN whitelist' <=> whitelist # NoWhitelist /\ r \in DOMAIN whitelist
           /\ r \in DOMAIN whitelist' => whitelist'[r] = whitelist[r]
  BY <1>1
<1>4. FALSE \in BOOLEAN
  OBVIOUS
<1>5. QED
  BY <1>1, <1>2, <1>3, <1>4, WhitelistedView

---------------------------------------------------------------------------
(***************************************************************************)
(* The first lines                                                         *)
(***************************************************************************)

\* Line k is the only one of 1 to n that writes the row at key.
OnlyWriter(lines, n, k, key) ==
  /\ n \in Nat
  /\ DOMAIN lines = 1 .. n
  /\ k \in 1 .. n
  /\ lines[k].cap_id = key
  /\ \A i \in 1 .. n : i # k => lines[i].cap_id # key

\* A row that was not there is what the only line that writes it says.
LEMMA RowOnce ==
  ASSUME NEW rows, NEW lines, NEW n, NEW k, NEW key, OnlyWriter(lines, n, k, key),
         key \notin DOMAIN rows, NEW params, lines[k] = Line(key, params),
         params = [field \in DOMAIN params |-> params[field]]
  PROVE  RowIs(Applied(rows, lines), key, params)
<1> DEFINE S == 1 .. n
<1>1. PICK h : IsHistory(h, rows, lines, S)
  BY LinesTable DEF OnlyWriter
<1> DEFINE Good == {s \in SUBSET S : IF k \in s THEN RowIs(h[s], key, params)
                                              ELSE key \notin DOMAIN h[s]}
<1>2. k \in S /\ \A i \in S : i # k => lines[i].cap_id # key
  BY DEF OnlyWriter
<1> HIDE DEF S
<1>3. {} \in Good
  <2>1. h[{}] = rows
    BY <1>1 DEF IsHistory
  <2>2. QED
    BY <2>1
<1>4. ASSUME NEW s \in SUBSET S, s # {}, s \ {Max(s)} \in Good
      PROVE  s \in Good
  <2> DEFINE m == Max(s)
             p == s \ {m}
             t == h[p]
  <2>1. h[s] = Upsert(t, lines[m]) /\ m \in s /\ m \in S
    BY <1>1, <1>4 DEF IsHistory
  <2>2. p \in Good
    BY <1>4
  <2>3. IF k \in p THEN RowIs(t, key, params) ELSE key \notin DOMAIN t
    BY <2>2
  <2>4. k \in p <=> k \in s /\ k # m
    OBVIOUS
  <2> HIDE DEF m, p, t
  <2>5. CASE m = k
    <3>1. key \notin DOMAIN t /\ k \in s
      BY <2>1, <2>3, <2>4, <2>5
    <3>2. h[s] = Upsert(t, Line(key, params))
      BY <2>1, <2>5
    <3>3. RowIs(h[s], key, params)
      <4>1. Fits(t, key, params)
        BY <3>1 DEF Fits
      <4>2. QED
        BY <3>2, <4>1, LineRow
    <3>4. QED
      BY <3>1, <3>3
  <2>6. CASE m # k
    <3>1. lines[m].cap_id # key
      BY <1>2, <2>1, <2>6
    <3>2. SameRow(h[s], t, key)
      BY <2>1, <3>1, UpsertRows
    <3>3. k \in p <=> k \in s
      BY <2>4, <2>6
    <3>4. IF k \in s THEN RowIs(h[s], key, params) ELSE key \notin DOMAIN h[s]
      BY <2>3, <3>2, <3>3 DEF SameRow, RowIs
    <3>5. QED
      BY <3>4
  <2>7. QED
    BY <2>5, <2>6
<1> HIDE DEF Good
<1>5. S \in Good
  <2>1. S \in SUBSET Nat /\ IsFiniteSet(S)
    BY <1>1 DEF IsHistory
  <2>2. QED
    BY ONLY <1>3, <1>4, <2>1, LinesInduction
<1>6. RowIs(h[S], key, params)
  BY <1>2, <1>5 DEF Good
<1>7. QED
  BY <1>1, <1>6 DEF IsHistory


IsListed(wl, r) == wl # NoWhitelist /\ r \in DOMAIN wl

\* The line of a configuration, and one of each listed requester.
FirstLines(lines, n, config, fee, wl) ==
  /\ n \in Nat /\ 1 \in 1 .. n
  /\ DOMAIN lines = 1 .. n
  /\ lines[1] = LogOracleConfig(1, config, fee)
  /\ \A i \in 1 .. n : i # 1 =>
       \E r : IsListed(wl, r) /\ lines[i] = LogWhitelist(r, wl[r], TRUE)
  /\ \A r : IsListed(wl, r) =>
       \E k \in 1 .. n :
         /\ k # 1
         /\ lines[k] = LogWhitelist(r, wl[r], TRUE)
         /\ \A i \in 1 .. n : i # k => lines[i].cap_id # WhitelistKey(r)

\* They are what Contract::new and Whitelist::new log.
LEMMA InitLogsFirstLines ==
  ASSUME LogInit
  PROVE  \E lines, n :
           /\ FirstLines(lines, n, CurrentConfig, fees[1], whitelist)
           /\ view = Applied(<< >>, lines)
<1> DEFINE first  == LogOracleConfig(1, CurrentConfig, fees[1])
           listed == SetToSeq(DOMAIN whitelist)
           W(r)   == LogWhitelist(r, whitelist[r], TRUE)
           wl     == [i \in DOMAIN listed |-> W(listed[i])]
           rest   == IF whitelist = NoWhitelist THEN << >> ELSE wl
           lines  == << first >> \o rest
<1>1. view = Applied(<< >>, lines)
  BY DEF LogInit, Applied
<1>2. CASE whitelist = NoWhitelist
  <2>1. rest = << >>
    BY <1>2
  <2>2. lines = << first >>
    <3> HIDE DEF first, rest
    <3>1. QED
      BY <2>1
  <2>3. DOMAIN lines = 1 .. 1 /\ lines[1] = first /\ \A i \in 1 .. 1 : i = 1
    <3> HIDE DEF first, lines
    <3>1. QED
      BY <2>2
  <2>4. FirstLines(lines, 1, CurrentConfig, fees[1], whitelist)
    <3> HIDE DEF lines
    <3>1. QED
      BY <1>2, <2>3 DEF FirstLines, IsListed
  <2>5. QED
    BY <1>1, <2>4
<1>3. CASE whitelist # NoWhitelist
  <2>1. IsFiniteSet(DOMAIN whitelist)
    <3>1. DOMAIN whitelist \subseteq Requesters
      BY <1>3, OracleAssumption DEF LogInit, Init, IsWhitelist
    <3>2. QED
      BY <3>1, EventLogAssumption, FS_Subset
  <2>2. PICK n \in Nat :
          /\ listed \in [1 .. n -> DOMAIN whitelist]
          /\ \A i, j \in 1 .. n : listed[i] = listed[j] => i = j
          /\ \A x \in DOMAIN whitelist : \E i \in 1 .. n : listed[i] = x
    BY <2>1, ListOfAll
  <2>3. rest = wl
    BY <1>3
  <2> HIDE DEF listed
  <2>4. DOMAIN wl = 1 .. n /\ \A i \in 1 .. n : wl[i] = W(listed[i])
    BY <2>2
  <2> DEFINE T == {wl[i] : i \in 1 .. n} \union {first}
             m == n + 1
  <2>5. wl \in Seq(T)
    <3>1. wl \in [1 .. n -> T]
      BY <2>4
    <3> HIDE DEF wl, T
    <3>2. QED
      BY <3>1
  <2>6. Len(wl) = n
    <3> HIDE DEF wl
    <3>1. QED
      BY <2>4, <2>5
  <2>7. << first >> \in Seq(T)
    OBVIOUS
  <2>8. /\ DOMAIN lines = 1 .. m
        /\ lines[1] = first
        /\ \A i \in 1 .. n : lines[i + 1] = wl[i]
    <3> HIDE DEF first, wl, rest, T
    <3>1. QED
      BY <2>3, <2>5, <2>6, <2>7
  <2> HIDE DEF lines, rest, T
  <2>9. \A r : WhitelistKey(r)[1] = "wl" /\ WhitelistKey(r)[2] = r
    BY DEF WhitelistKey
  <2>10. /\ \A r : W(r).cap_id = WhitelistKey(r)
         /\ first.cap_id[1] = "oc"
    BY DEF LogWhitelist, Line, WhitelistKey, LogOracleConfig
  <2>11. /\ m \in Nat /\ 1 \in 1 .. m
         /\ \A i \in 1 .. m : i # 1 => i - 1 \in 1 .. n /\ lines[i] = wl[i - 1]
         /\ \A i \in 1 .. n : i + 1 \in 1 .. m /\ i + 1 # 1
    <3>1. m \in Nat /\ 1 \in 1 .. m
      BY <2>2
    <3>2. ASSUME NEW i \in 1 .. m, i # 1
          PROVE  i - 1 \in 1 .. n /\ lines[i] = wl[i - 1]
      <4>1. i - 1 \in 1 .. n /\ (i - 1) + 1 = i
        BY <2>2, <3>2
      <4>2. lines[(i - 1) + 1] = wl[i - 1]
        BY <2>8, <4>1
      <4>3. QED
        BY <4>1, <4>2
    <3>3. \A i \in 1 .. n : i + 1 \in 1 .. m /\ i + 1 # 1
      BY <2>2
    <3>4. QED
      BY <3>1, <3>2, <3>3
  <2>12. ASSUME NEW i \in 1 .. m, i # 1
         PROVE  \E r : IsListed(whitelist, r) /\ lines[i] = W(r)
    <3>1. i - 1 \in 1 .. n /\ lines[i] = W(listed[i - 1])
      BY <2>4, <2>11, <2>12
    <3>2. listed[i - 1] \in DOMAIN whitelist
      BY <2>2, <3>1
    <3>3. QED
      BY <1>3, <3>1, <3>2 DEF IsListed
  <2>13. ASSUME NEW r, IsListed(whitelist, r)
         PROVE  \E k \in 1 .. m :
                  /\ k # 1
                  /\ lines[k] = W(r)
                  /\ \A i \in 1 .. m : i # k => lines[i].cap_id # WhitelistKey(r)
    <3>1. PICK j \in 1 .. n : listed[j] = r
      BY <2>2, <2>13 DEF IsListed
    <3>2. j + 1 \in 1 .. m /\ j + 1 # 1 /\ lines[j + 1] = W(r)
      BY <2>4, <2>8, <2>11, <3>1
    <3>3. ASSUME NEW i \in 1 .. m, i # j + 1
          PROVE  lines[i].cap_id # WhitelistKey(r)
      <4>1. CASE i = 1
        BY <2>8, <2>9, <2>10, <4>1
      <4>2. CASE i # 1
        <5>1. i - 1 \in 1 .. n /\ lines[i] = W(listed[i - 1])
          BY <2>4, <2>11, <4>2
        <5>2. i - 1 # j
          BY <3>3, <5>1
        <5>3. listed[i - 1] # r
          BY <2>2, <3>1, <5>1, <5>2
        <5>4. lines[i].cap_id = WhitelistKey(listed[i - 1])
          BY <2>10, <5>1
        <5>5. QED
          BY <2>9, <5>3, <5>4
      <4>3. QED
        BY <4>1, <4>2
    <3>4. QED
      BY <3>2, <3>3
  <2>14. FirstLines(lines, m, CurrentConfig, fees[1], whitelist)
    <3> HIDE DEF m
    <3>1. QED
      BY <2>8, <2>11, <2>12, <2>13 DEF FirstLines
  <2>15. QED
    BY <1>1, <2>14
<1>4. QED
  BY <1>2, <1>3

\* The rows after them show the configuration and the whitelist, and nothing else.
LEMMA FirstLinesShow ==
  ASSUME NEW lines, NEW n, NEW config, NEW fee, NEW wl, FirstLines(lines, n, config, fee, wl)
  PROVE  LET rows == Applied(<< >>, lines)
         IN  /\ RowIs(rows, ConfigKey(1), [config |-> config, fee |-> fee])
             /\ \A i : i # 1 => ConfigKey(i) \notin DOMAIN rows
             /\ WhitelistAgrees(rows, wl)
             /\ \A id : NothingLogged(rows, id)
<1> DEFINE none   == << >>
           rows   == Applied(none, lines)
           params == [config |-> config, fee |-> fee]
<1>1. DOMAIN none = {}
  OBVIOUS
<1> HIDE DEF none
<1>2. /\ n \in Nat /\ 1 \in 1 .. n /\ DOMAIN lines = 1 .. n
      /\ lines[1] = Line(ConfigKey(1), params)
      /\ \A i \in 1 .. n : i # 1 => \E r : IsListed(wl, r) /\ lines[i].cap_id = WhitelistKey(r)
  BY DEF FirstLines, LogOracleConfig, ConfigKey, LogWhitelist, WhitelistKey, Line
<1>3. lines[1].cap_id = ConfigKey(1)
  BY <1>2 DEF Line
<1>4. /\ \A r : WhitelistKey(r)[1] = "wl" /\ WhitelistKey(r)[2] = r
      /\ \A i : ConfigKey(i)[1] = "oc" /\ ConfigKey(i)[2] = i
  BY DEF WhitelistKey, ConfigKey
<1>5. RowIs(rows, ConfigKey(1), params)
  <2>1. \A i \in 1 .. n : i # 1 => lines[i].cap_id # ConfigKey(1)
    BY <1>2, <1>4
  <2>2. OnlyWriter(lines, n, 1, ConfigKey(1))
    BY <1>2, <1>3, <2>1 DEF OnlyWriter
  <2>3. ConfigKey(1) \notin DOMAIN none /\ params = [field \in DOMAIN params |-> params[field]]
    BY <1>1
  <2> HIDE DEF params
  <2>4. QED
    BY <1>2, <2>2, <2>3, RowOnce
<1>6. ASSUME NEW key, \A i \in 1 .. n : lines[i].cap_id # key
      PROVE  key \notin DOMAIN rows
  BY <1>1, <1>2, <1>6, RowUntouched DEF SameRow
<1>7. ASSUME NEW i, i # 1
      PROVE  ConfigKey(i) \notin DOMAIN rows
  <2>1. ASSUME NEW j \in 1 .. n
        PROVE  lines[j].cap_id # ConfigKey(i)
    BY <1>2, <1>3, <1>4, <1>7
  <2>2. QED
    BY <1>6, <2>1
<1>8. ASSUME NEW r
      PROVE  RequesterAgrees(rows, wl, r)
  <2>1. CASE IsListed(wl, r)
    <3> DEFINE row == ListedRow(wl[r], TRUE)
    <3>1. PICK k \in 1 .. n :
            /\ lines[k] = LogWhitelist(r, wl[r], TRUE)
            /\ \A i \in 1 .. n : i # k => lines[i].cap_id # WhitelistKey(r)
      BY <2>1 DEF FirstLines
    <3>2. lines[k] = Line(WhitelistKey(r), row)
      BY <3>1 DEF LogWhitelist, WhitelistKey, ListedRow
    <3>3. OnlyWriter(lines, n, k, WhitelistKey(r))
      <4>1. lines[k].cap_id = WhitelistKey(r)
        BY <3>2 DEF Line
      <4>2. QED
        BY <1>2, <3>1, <4>1 DEF OnlyWriter
    <3>4. WhitelistKey(r) \notin DOMAIN none /\ row = [field \in DOMAIN row |-> row[field]]
      BY <1>1 DEF ListedRow
    <3> HIDE DEF row
    <3>5. RowIs(rows, WhitelistKey(r), row)
      BY <3>2, <3>3, <3>4, RowOnce
    <3>6. QED
      BY <2>1, <3>5 DEF RequesterAgrees, IsListed, row
  <2>2. CASE ~IsListed(wl, r)
    <3>1. ASSUME NEW i \in 1 .. n
          PROVE  lines[i].cap_id # WhitelistKey(r)
      <4>1. CASE i = 1
        BY <1>3, <1>4, <4>1
      <4>2. CASE i # 1
        <5>1. PICK q : IsListed(wl, q) /\ lines[i].cap_id = WhitelistKey(q)
          BY <1>2, <4>2
        <5>2. q # r
          BY <2>2, <5>1
        <5>3. QED
          BY <1>4, <5>1, <5>2
      <4>3. QED
        BY <4>1, <4>2
    <3>2. QED
      BY <1>6, <2>2, <3>1 DEF RequesterAgrees, IsListed
  <2>3. QED
    BY <2>1, <2>2
<1>9. ASSUME NEW id, NEW r \in Nat
      PROVE  BlankRound(rows, id, r)
  <2>1. ASSUME NEW key, key[1] \in {"rw", "ots", "us"}
        PROVE  key \notin DOMAIN rows
    <3>1. \A i \in 1 .. n : lines[i].cap_id[1] \in {"oc", "wl"}
      BY <1>2, <1>3, <1>4
    <3>2. \A i \in 1 .. n : lines[i].cap_id # key
      BY <2>1, <3>1
    <3>3. QED
      BY <1>6, <3>2
  <2>2. /\ WindowKey(id, r)[1] = "rw"
        /\ \A o : OutcomeStakeKey(id, r, o)[1] = "ots"
        /\ \A o, u : UserStakeKey(id, r, o, u)[1] = "us"
    BY DEF WindowKey, OutcomeStakeKey, UserStakeKey
  <2> HIDE DEF rows
  <2>3. QED
    BY <2>1, <2>2 DEF BlankRound
<1>10. WhitelistAgrees(rows, wl) /\ \A id : NothingLogged(rows, id)
  BY <1>8, <1>9 DEF WhitelistAgrees, NothingLogged
<1>11. QED
  BY <1>5, <1>7, <1>10 DEF none

\* The invariant holds of a new oracle,
LEMMA LogInitView ==
  ASSUME LogInit
  PROVE  ViewInv
<1>1. PICK lines, n :
        /\ FirstLines(lines, n, CurrentConfig, fees[1], whitelist)
        /\ view = Applied(<< >>, lines)
  BY InitLogsFirstLines
<1>2. /\ RowIs(view, ConfigKey(1), [config |-> CurrentConfig, fee |-> fees[1]])
      /\ \A i : i # 1 => ConfigKey(i) \notin DOMAIN view
      /\ WhitelistAgrees(view, whitelist)
      /\ \A id : NothingLogged(view, id)
  BY <1>1, FirstLinesShow
<1>3. Inv
  BY InitInv DEF LogInit
<1>4. DOMAIN data_requests = {}
  BY DEF LogInit, Init
<1>5. fees \in Seq(Fees) /\ Len(fees) = 1 /\ Len(configs) = 1 /\ DOMAIN configs = {1}
      /\ CurrentConfig = configs[1]
  BY DEF LogInit, Init, CurrentConfig
<1>6. ConfigsAgree(view, configs, fees)
  BY <1>2, <1>5 DEF ConfigsAgree
<1>7. QED
  BY <1>2, <1>3, <1>4, <1>5, <1>6 DEF ViewInv

\* and every step keeps it.
LEMMA LogNextView ==
  ASSUME ViewInv, [LogNext]_allVars
  PROVE  ViewInv'
<1>1. Inv'
  BY LogStep, NextInv DEF ViewInv
<1>2. ASSUME UNCHANGED << data_requests, configs, whitelist, fees, view >>
      PROVE  ViewInv'
  BY <1>1, <1>2 DEF ViewInv
<1>3. CASE UNCHANGED allVars
  BY <1>2, <1>3 DEF allVars, vars, logVars
<1>4. CASE \E token \in Tokens, sender \in Requesters, amount \in Payments, payload \in Payloads :
             LogDrNew(token, sender, amount, payload)
  BY <1>1, <1>4, LogDrNewView
<1>5. CASE \E id \in DOMAIN data_requests : LogRequestNext(id)
  <2>1. PICK id \in DOMAIN data_requests : LogRequestNext(id)
    BY <1>5
  <2>2. CASE \E token \in Tokens, sender \in Stakers, amount \in StakeAmounts, outcome \in Outcomes :
               LogDrStake(token, sender, amount, id, outcome)
    BY <1>1, <2>2, LogDrStakeView
  <2>3. CASE \E sender \in Stakers, round \in DOMAIN data_requests[id].resolution_windows,
                outcome \in Outcomes, amount \in StakeAmounts, succeeds \in TransferResults :
               LogDrUnstake(sender, id, round, outcome, amount, succeeds)
    BY <1>1, <2>3, LogDrUnstakeView
  <2>4. CASE \E succeeds \in TransferResults : DrFinalize(id, succeeds) /\ LogFinalized(id)
    <3>1. FinalOutcome(data_requests[id]) \in Outcomes
      BY <2>4, FinalOutcomeIsOutcome DEF ViewInv
    <3>2. Decide(id, FinalOutcome(data_requests[id])) /\ LogFinalized(id)
          /\ configs' = configs /\ whitelist' = whitelist
      BY <2>4 DEF DrFinalize
    <3>3. QED
      BY <1>1, <3>1, <3>2, LogFinalizedView
  <2>5. CASE \E caller \in Accounts, outcome \in Outcomes :
               \/ DrFinalizeByProvider(caller, id, outcome) /\ LogFinalized(id)
               \/ \E succeeds \in TransferResults :
                    DrFinalArbitratorFinalize(caller, id, outcome, succeeds) /\ LogFinalized(id)
    <3>1. PICK outcome \in Outcomes :
            /\ Decide(id, outcome) /\ LogFinalized(id)
            /\ configs' = configs /\ whitelist' = whitelist
      BY <2>5 DEF DrFinalizeByProvider, DrFinalArbitratorFinalize
    <3>2. QED
      BY <1>1, <3>1, LogFinalizedView
  <2>6. CASE \E account \in Stakers, stake_succeeds, payment_succeeds \in TransferResults :
               LogDrClaim(account, id, stake_succeeds, payment_succeeds)
    BY <1>1, <2>6, LogDrClaimView
  <2>7. QED
    BY <2>1, <2>2, <2>3, <2>4, <2>5, <2>6 DEF LogRequestNext
<1>6. CASE LogGovernanceNext
  <2>1. PICK caller \in Accounts :
          \/ \E config \in Configs, fee \in Fees : LogSetConfig(caller, config, fee)
          \/ \E fee \in Fees : UpdateFeeConfig(caller, fee)
          \/ TogglePause(caller) /\ UNCHANGED logVars
          \/ \E requester \in Requesters, multiplier \in Multipliers :
               \/ LogAddToWhitelist(caller, requester, multiplier)
               \/ LogRemoveFromWhitelist(caller, requester, multiplier)
    BY <1>6 DEF LogGovernanceNext
  <2>2. CASE \E config \in Configs, fee \in Fees : LogSetConfig(caller, config, fee)
    BY <1>1, <2>2, LogSetConfigView
  <2>3. CASE \E fee \in Fees : UpdateFeeConfig(caller, fee)
    BY <1>1, <2>3, UpdateFeeConfigView
  <2>4. CASE TogglePause(caller) /\ UNCHANGED logVars
    BY <1>2, <2>4 DEF TogglePause, logVars
  <2>5. CASE \E requester \in Requesters, multiplier \in Multipliers :
               LogAddToWhitelist(caller, requester, multiplier)
    BY <1>1, <2>5, LogAddToWhitelistView
  <2>6. CASE \E requester \in Requesters, multiplier \in Multipliers :
               LogRemoveFromWhitelist(caller, requester, multiplier)
    BY <1>1, <2>6, LogRemoveFromWhitelistView
  <2>7. QED
    BY <2>1, <2>2, <2>3, <2>4, <2>5, <2>6
<1>7. CASE Tick /\ UNCHANGED logVars
  BY <1>2, <1>7 DEF Tick, logVars
<1>8. QED
  BY <1>3, <1>4, <1>5, <1>6, <1>7 DEF LogNext

\* The inductive invariant of the rows holds of every behaviour.
THEOREM ViewInvariance == LogSpec => []ViewInv
<1>1. LogInit => ViewInv
  BY LogInitView
<1>2. ViewInv /\ [LogNext]_allVars => ViewInv'
  BY LogNextView
<1>3. QED
  BY <1>1, <1>2, PTL DEF LogSpec

(***************************************************************************)
(* An indexer that applied every line holds the contract's state, whatever *)
(* the handlers logged before, between and after their changes, and no two *)
(* rows are taken for each other.                                          *)
(***************************************************************************)
THEOREM ViewAlwaysAgrees == LogSpec => []ViewAgrees
<1>1. ViewInv => ViewAgrees
  BY ViewInvAgrees
<1>2. QED
  BY <1>1, ViewInvariance, PTL

---------------------------------------------------------------------------
(***************************************************************************)
(* Turning pages                                                           *)
(***************************************************************************)

\* The smaller of two numbers.
LEMMA OfTwo ==
  ASSUME NEW m \in Int, NEW n \in Int
  PROVE  Min({m, n}) = IF m <= n THEN m ELSE n
<1>1. \A x \in {m, n} : (\A y \in {m, n} : x =< y) <=> x = (IF m <= n THEN m ELSE n)
  OBVIOUS
<1>2. QED
  BY <1>1 DEF Min

\* A number, or 0 if it is negative.
LEMMA AtLeastZero ==
  ASSUME NEW d \in Int
  PROVE  Max({0, d}) = IF 0 >= d THEN 0 ELSE d
<1>1. \A x \in {0, d} : (\A y \in {0, d} : x >= y) <=> x = (IF 0 >= d THEN 0 ELSE d)
  OBVIOUS
<1>2. QED
  BY <1>1 DEF Max

\* What FlattenSeq has put together after its first i members.
IsFlattening(h, seqs) ==
  h = [i \in 1 .. Len(seqs) |-> IF i = 1 THEN seqs[i] ELSE h[i - 1] \o seqs[i]]

Flattening(seqs) == CHOOSE h : IsFlattening(h, seqs)

\* FlattenSeq is the last of them.
LEMMA FlattenIsTable ==
  ASSUME NEW seqs, Len(seqs) # 0
  PROVE  FlattenSeq(seqs) = Flattening(seqs)[Len(seqs)]
BY DEF FlattenSeq, Flattening, IsFlattening

\* There is no other way to put them together.
LEMMA FlattenedParts ==
  ASSUME NEW seqs, NEW n \in Nat \ {0}, Len(seqs) = n, NEW part, IsFlattening(part, seqs)
  PROVE  FlattenSeq(seqs) = part[n]
<1>1. \A i \in 1 .. n : part[i] = IF i = 1 THEN seqs[i] ELSE part[i - 1] \o seqs[i]
  BY DEF IsFlattening
<1> DEFINE h == Flattening(seqs)
<1>2. IsFlattening(h, seqs)
  BY DEF Flattening
<1> HIDE DEF h
<1>3. \A i \in 1 .. n : h[i] = IF i = 1 THEN seqs[i] ELSE h[i - 1] \o seqs[i]
  BY <1>2 DEF IsFlattening
<1> DEFINE Same == {i \in 1 .. n : h[i] = part[i]}
           Good == {i \in 1 .. n : 1 .. i \subseteq Same}
<1>4. 1 \in Good
  BY <1>1, <1>3
<1>5. \A i \in Good : i < n => i + 1 \in Good
  <2> SUFFICES ASSUME NEW i \in Good, i < n
               PROVE  i + 1 \in Good
    OBVIOUS
  <2>1. i \in 1 .. n /\ i \in Same /\ h[i] = part[i]
    OBVIOUS
  <2>2. i + 1 \in 1 .. n /\ i + 1 \in 2 .. n /\ i + 1 # 1 /\ (i + 1) - 1 = i
    BY <2>1
  <2> HIDE DEF Good, Same
  <2>3. h[i + 1] = h[i] \o seqs[i + 1]
    BY <1>3, <2>2
  <2>4. part[i + 1] = part[i] \o seqs[i + 1]
    BY <1>1, <2>2
  <2>5. h[i + 1] = part[i + 1]
    BY <2>1, <2>3, <2>4
  <2> USE DEF Good, Same
  <2>6. 1 .. (i + 1) = (1 .. i) \union {i + 1}
    BY <2>1
  <2>7. i + 1 \in Same
    BY <2>2, <2>5
  <2>8. QED
    BY <2>2, <2>6, <2>7
<1>6. Good \in SUBSET Nat /\ IsFiniteSet(Good)
  BY FS_Interval, FS_Subset
<1>7. \A i \in Good : i \in 1 .. n /\ h[i] = part[i]
  <2>1. \A i \in Good : i \in 1 .. n /\ i \in 1 .. i /\ 1 .. i \subseteq Same
    OBVIOUS
  <2>2. QED
    BY <2>1
<1> HIDE DEF Good
<1>8. Max(Good) \in Good /\ \A i \in Good : i <= Max(Good)
  BY <1>4, <1>6, MaxIn
<1>9. Max(Good) \in 1 .. n /\ h[Max(Good)] = part[Max(Good)]
  BY <1>8, <1>7
<1>10. Max(Good) = n
  <2>1. ASSUME Max(Good) < n
        PROVE  FALSE
    <3>1. Max(Good) + 1 <= Max(Good)
      BY <1>5, <1>8, <2>1
    <3>2. QED
      BY <1>9, <3>1
  <2>2. QED
    BY <1>9, <2>1
<1>11. h[n] = part[n]
  BY <1>9, <1>10
<1>12. QED
  BY <1>11, FlattenIsTable DEF h

\* A part of a table, and the part of it that follows.
LEMMA PartsOfTable ==
  ASSUME NEW f, NEW m \in Nat, NEW n \in Nat
  PROVE  [i \in 1 .. m |-> f[i]] \o [i \in 1 .. n |-> f[m + i]] = [i \in 1 .. (m + n) |-> f[i]]
<1> DEFINE T == {f[i] : i \in Nat}
           front == [i \in 1 .. m |-> f[i]]
           rest  == [i \in 1 .. n |-> f[m + i]]
<1>1. front \in Seq(T) /\ Len(front) = m
  <2>1. \A i \in 1 .. m : f[i] \in T
    OBVIOUS
  <2> HIDE DEF T
  <2>2. QED
    BY <2>1
<1>2. rest \in Seq(T) /\ Len(rest) = n
  <2>1. \A i \in 1 .. n : f[m + i] \in T
    OBVIOUS
  <2> HIDE DEF T
  <2>2. QED
    BY <2>1
<1>3. \A i \in 1 .. m : front[i] = f[i]
  OBVIOUS
<1>4. \A i \in 1 .. (m + n) : i \notin 1 .. m => i - m \in 1 .. n /\ rest[i - m] = f[i]
  OBVIOUS
<1> HIDE DEF T, front, rest
<1>5. front \o rest = [i \in 1 .. (m + n) |-> IF i <= m THEN front[i] ELSE rest[i - m]]
  <2>1. Len(front \o rest) = m + n /\ front \o rest \in Seq(T)
    BY <1>1, <1>2
  <2>2. \A i \in 1 .. (m + n) : (front \o rest)[i] = IF i <= m THEN front[i] ELSE rest[i - m]
    BY <1>1, <1>2
  <2>3. front \o rest = [i \in 1 .. (m + n) |-> (front \o rest)[i]]
    <3> DEFINE both == front \o rest
    <3>1. both \in Seq(T) /\ Len(both) = m + n
      BY <2>1
    <3> HIDE DEF both
    <3>2. both = [i \in 1 .. Len(both) |-> both[i]]
      BY <3>1
    <3>3. QED
      BY <3>1, <3>2 DEF both
  <2>4. QED
    BY <2>2, <2>3
<1>6. \A i \in 1 .. (m + n) : (IF i <= m THEN front[i] ELSE rest[i - m]) = f[i]
  BY <1>3, <1>4
<1>7. front \o rest = [i \in 1 .. (m + n) |-> f[i]]
  BY <1>5, <1>6
<1>8. QED
  BY <1>7 DEF front, rest

\* The summaries of the first n requests.
FirstSummaries(n) == [id \in 1 .. n |-> Summarize(data_requests[id])]

\* A page continues where the last one ended.
LEMMA PageContinues ==
  ASSUME data_requests \in Seq(Request), NEW from \in Nat, NEW limit \in Nat
  PROVE  FirstSummaries(Min({from, Len(data_requests)})) \o GetRequests(from, limit)
           = FirstSummaries(PageEnd(from, limit))
<1> DEFINE n     == Len(data_requests)
           start == Min({from, n})
           end   == Min({from + limit, n})
           size  == Max({0, end - from})
<1>1. n \in Nat /\ from + limit \in Int
  OBVIOUS
<1>2. end = PageEnd(from, limit)
  BY DEF PageEnd
<1>3. GetRequests(from, limit) = [i \in 1 .. size |-> Summarize(data_requests[from + i])]
  BY DEF GetRequests, PageEnd
<1> HIDE DEF n
<1>4. start = (IF from <= n THEN from ELSE n) /\ start \in Nat
  BY <1>1, OfTwo
<1>5. end = (IF from + limit <= n THEN from + limit ELSE n) /\ end \in Nat
  BY <1>1, OfTwo
<1> HIDE DEF start, end
<1>6. size = IF 0 >= end - from THEN 0 ELSE end - from
  <2>1. end - from \in Int
    BY <1>5
  <2>2. QED
    BY <2>1, AtLeastZero
<1> HIDE DEF size
<1>7. size \in Nat /\ start + size = end /\ (size # 0 => start = from)
  BY <1>1, <1>4, <1>5, <1>6
<1> DEFINE f == [i \in Nat |-> Summarize(data_requests[i])]
<1>8. FirstSummaries(start) = [i \in 1 .. start |-> f[i]]
  BY <1>4 DEF FirstSummaries
<1>9. FirstSummaries(end) = [i \in 1 .. end |-> f[i]]
  BY <1>5 DEF FirstSummaries
<1>10. GetRequests(from, limit) = [i \in 1 .. size |-> f[start + i]]
  <2>1. \A i \in 1 .. size : start + i \in Nat /\ start + i = from + i
    BY <1>4, <1>7
  <2>2. QED
    BY <1>3, <2>1
<1> HIDE DEF f
<1>11. FirstSummaries(start) \o GetRequests(from, limit) = FirstSummaries(end)
  <2>1. [i \in 1 .. start |-> f[i]] \o [i \in 1 .. size |-> f[start + i]]
          = [i \in 1 .. (start + size) |-> f[i]]
    BY <1>4, <1>7, PartsOfTable
  <2>2. QED
    BY <1>7, <1>8, <1>9, <1>10, <2>1
<1>12. QED
  BY <1>2, <1>11 DEF start, n

\* Whatever their size, the pages together are all requests.
LEMMA PagesTogether ==
  ASSUME data_requests \in Seq(Request), NEW limit \in Nat \ {0}
  PROVE  AllPages(limit) = FirstSummaries(Len(data_requests))
<1> DEFINE n == Len(data_requests)
           pages == [page \in 1 .. n |-> GetRequests((page - 1) * limit, limit)]
           End(page) == PageEnd((page - 1) * limit, limit)
           part == [page \in 1 .. n |-> FirstSummaries(End(page))]
<1>1. n \in Nat /\ Len(pages) = n /\ AllPages(limit) = FlattenSeq(pages)
  BY DEF AllPages
<1>2. CASE n = 0
  BY <1>1, <1>2 DEF FlattenSeq, FirstSummaries
<1>3. CASE n # 0
  <2>1. \A page \in 1 .. n : /\ (page - 1) * limit \in Nat
                             /\ (page - 1) * limit + limit = page * limit
                             /\ page * limit \in Nat
                             /\ page * limit >= page
    BY <1>1
  <2>2. \A page \in 1 .. n : End(page) = Min({page * limit, n}) /\ End(page) \in Nat
    <3> SUFFICES ASSUME NEW page \in 1 .. n
                 PROVE  End(page) = Min({page * limit, n}) /\ End(page) \in Nat
      OBVIOUS
    <3>1. End(page) = Min({page * limit, n})
      BY <2>1 DEF PageEnd
    <3>2. Min({page * limit, n}) \in Nat
      BY <1>1, <2>1, OfTwo
    <3>3. QED
      BY <3>1, <3>2
  <2>3. FirstSummaries(0) = << >> /\ Min({0, n}) = 0
    BY <1>1, OfTwo DEF FirstSummaries
  <2> HIDE DEF n
  <2>4. \A page \in 1 .. n : FirstSummaries(Min({(page - 1) * limit, n})) \o pages[page] = part[page]
    BY <2>1, PageContinues DEF n
  <2>5. part[1] = pages[1]
    <3>1. 1 \in 1 .. n /\ (1 - 1) * limit = 0 /\ End(1) \in Nat
      <4> HIDE DEF End
      <4>1. 1 \in 1 .. n /\ (1 - 1) * limit = 0
        BY <1>1, <1>3
      <4>2. QED
        BY <2>2, <4>1
    <3>2. pages[1] = [i \in 1 .. Max({0, End(1) - 0}) |-> Summarize(data_requests[0 + i])]
      BY <3>1 DEF GetRequests
    <3>3. Max({0, End(1) - 0}) = End(1)
      <4> HIDE DEF End
      <4>1. End(1) - 0 = End(1) /\ End(1) \in Int /\ (0 >= End(1) => End(1) = 0)
        BY <3>1
      <4>2. Max({0, End(1)}) = End(1)
        BY <4>1, AtLeastZero
      <4>3. QED
        BY <4>1, <4>2
    <3>4. part[1] = [i \in 1 .. End(1) |-> Summarize(data_requests[i])]
      BY <3>1 DEF FirstSummaries
    <3>5. \A i \in 1 .. End(1) : 0 + i = i
      BY <3>1
    <3>6. QED
      BY <3>2, <3>3, <3>4, <3>5
  <2>6. \A page \in 2 .. n : part[page - 1] \o pages[page] = part[page]
    <3> SUFFICES ASSUME NEW page \in 2 .. n
                 PROVE  part[page - 1] \o pages[page] = part[page]
      OBVIOUS
    <3>1. page \in 1 .. n /\ page - 1 \in 1 .. n
      BY <1>1
    <3>2. part[page - 1] = FirstSummaries(Min({(page - 1) * limit, n}))
      BY <2>2, <3>1
    <3>3. QED
      BY <2>4, <3>1, <3>2
  <2>7. End(n) = n /\ n \in 1 .. n
    <3>1. n \in 1 .. n
      BY <1>1, <1>3
    <3>2. n * limit >= n /\ n * limit \in Nat
      BY <2>1, <3>1
    <3>3. Min({n * limit, n}) = n
      BY <1>1, <3>2, OfTwo
    <3>4. QED
      BY <2>2, <3>1, <3>3
  <2>8. IsFlattening(part, pages)
    <3>1. part = [page \in 1 .. n |-> part[page]]
      OBVIOUS
    <3>2. \A page \in 1 .. n : page # 1 => page \in 2 .. n
      BY <1>1
    <3> HIDE DEF part, pages
    <3>3. \A page \in 1 .. n : part[page] = IF page = 1 THEN pages[page] ELSE part[page - 1] \o pages[page]
      BY <2>5, <2>6, <3>2
    <3>4. QED
      BY <1>1, <3>1, <3>3 DEF IsFlattening
  <2>9. part[n] = FirstSummaries(n)
    BY <2>7
  <2> HIDE DEF part, pages
  <2>10. FlattenSeq(pages) = part[n]
    BY <1>1, <1>3, <2>8, FlattenedParts
  <2>11. QED
    BY <1>1, <2>9, <2>10 DEF n
<1>4. QED
  BY <1>2, <1>3

(***************************************************************************)
(* Who turns the pages of get_requests until one is empty sees each request*)
(* exactly once and in the order they were made, for every size of a page  *)
(* and every number of requests.                                           *)
(***************************************************************************)
THEOREM PagesAlwaysCover == Spec => []PagesCoverRequests
<1>1. TypeOK => PagesCoverRequests
  <2> SUFFICES ASSUME TypeOK, NEW limit \in 1 .. MaxRequests + 1
               PROVE  AllPages(limit) = [id \in DOMAIN data_requests |-> Summarize(data_requests[id])]
    BY DEF PagesCoverRequests
  <2>1. data_requests \in Seq(Request)
    BY DEF TypeOK
  <2>2. limit \in Nat \ {0}
    BY OracleAssumption
  <2>3. AllPages(limit) = FirstSummaries(Len(data_requests))
    BY <2>1, <2>2, PagesTogether
  <2>4. QED
    BY <2>1, <2>3 DEF FirstSummaries
<1>2. QED
  BY <1>1, TypeCorrect, PTL
=================================================================================
