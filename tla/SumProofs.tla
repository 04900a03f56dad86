-------------------------------- MODULE SumProofs --------------------------------
(***************************************************************************)
(* Sums over finite sets.  MapThenSumSet of the community modules adds up  *)
(* in the order of some CHOOSE; these lemmas say that the order does not   *)
(* matter, and how a sum changes with its summands.                        *)
(*                                                                         *)
(* A summand is given as a function f: Total(f, S) is the sum of f[x] for x*)
(* in S.  Induction is by a minimal counterexample among the subsets of S. *)
(***************************************************************************)
EXTENDS FiniteSetsExt, FiniteSetTheorems, WellFoundedInduction, TLAPS

Total(f, S) == MapThenSumSet(LAMBDA x : f[x], S)

---------------------------------------------------------------------------
(***************************************************************************)
(* Induction over the subsets of a finite set                              *)
(***************************************************************************)

\* A set of subsets has one that includes no other.
LEMMA MinimalSubset ==
  ASSUME NEW S, IsFiniteSet(S), NEW T \in SUBSET SUBSET S, T # {}
  PROVE  \E a \in T : \A b \in T : b \subseteq a => b = a
<1>1. IsWellFoundedOn(StrictSubsetOrdering(S), FiniteSubsetsOf(S))
  BY FS_StrictSubsetOrderingWellFounded
<1>2. T \subseteq FiniteSubsetsOf(S)
  BY FS_Subset DEF FiniteSubsetsOf
<1>3. PICK a \in T : \A b \in T : << b, a >> \notin StrictSubsetOrdering(S)
  BY <1>1, <1>2, WFMin
<1>4. QED
  BY <1>3 DEF StrictSubsetOrdering

\* What holds of the empty set, and of a set with one element more, holds of all.
LEMMA SubsetInduction ==
  ASSUME NEW S, IsFiniteSet(S), NEW Good, {} \in Good,
         \A a \in SUBSET S : \A x \in S \ a : a \in Good => a \union {x} \in Good
  PROVE  S \in Good
<1> DEFINE Bad == {a \in SUBSET S : a \notin Good}
<1>1. SUFFICES ASSUME S \notin Good PROVE FALSE
  OBVIOUS
<1>2. Bad \in SUBSET SUBSET S /\ Bad # {}
  BY <1>1
<1> HIDE DEF Bad
<1>3. PICK a \in Bad : \A b \in Bad : b \subseteq a => b = a
  BY <1>2, MinimalSubset
<1> USE DEF Bad
<1>4. PICK x \in a : TRUE
  BY <1>3
<1>5. a \ {x} \in Good
  BY <1>3, <1>4
<1>6. (a \ {x}) \union {x} = a /\ x \in S \ (a \ {x})
  BY <1>4
<1>7. QED
  BY <1>3, <1>5, <1>6

---------------------------------------------------------------------------
(***************************************************************************)
(* The recursion of MapThenSumSet                                          *)
(***************************************************************************)

\* The element that MapThenSumSet takes out first.
Pick(s) == CHOOSE x \in s : TRUE

\* h holds the sum of f over every subset of S.
IsTable(h, f, S) ==
  h = [s \in SUBSET S |-> IF s = {} THEN 0 ELSE f[Pick(s)] + h[s \ {Pick(s)}]]

Table(f, S) == CHOOSE h : IsTable(h, f, S)

\* The sum over S is what the table of the recursion has for S.
LEMMA TotalIsTable ==
  ASSUME NEW f, NEW S
  PROVE  Total(f, S) = Table(f, S)[S]
BY DEF Total, MapThenSumSet, MapThenFoldSet, Table, IsTable, Pick

\* The element that is taken first.
LEMMA PickIn == ASSUME NEW s, s # {} PROVE Pick(s) \in s
BY DEF Pick

\* What a table says of one set.
LEMMA TableAt ==
  ASSUME NEW f, NEW S, NEW h, IsTable(h, f, S), NEW s \in SUBSET S
  PROVE  h[s] = IF s = {} THEN 0 ELSE f[Pick(s)] + h[s \ {Pick(s)}]
BY DEF IsTable

\* There is one table at most.
LEMMA TableUnique ==
  ASSUME NEW f, NEW S, IsFiniteSet(S), NEW h, IsTable(h, f, S), NEW k, IsTable(k, f, S)
  PROVE  h = k
<1> DEFINE Bad == {s \in SUBSET S : h[s] # k[s]}
<1>1. Bad = {}
  <2>1. SUFFICES ASSUME Bad # {} PROVE FALSE
    OBVIOUS
  <2>2. PICK a \in Bad : \A b \in Bad : b \subseteq a => b = a
    <3>1. Bad \in SUBSET SUBSET S
      OBVIOUS
    <3> HIDE DEF Bad
    <3>2. QED
      BY <2>1, <3>1, MinimalSubset
  <2>3. CASE a = {}
    BY <2>2, <2>3, TableAt
  <2>4. CASE a # {}
    <3>1. Pick(a) \in a
      BY <2>4, PickIn
    <3>2. h[a \ {Pick(a)}] = k[a \ {Pick(a)}]
      BY <2>2, <3>1
    <3>3. a \in SUBSET S
      OBVIOUS
    <3>4. h[a] = f[Pick(a)] + h[a \ {Pick(a)}]
      BY <2>4, <3>3, TableAt
    <3>5. k[a] = f[Pick(a)] + k[a \ {Pick(a)}]
      BY <2>4, <3>3, TableAt
    <3>6. QED
      BY <2>2, <3>2, <3>4, <3>5
  <2>5. QED
    BY <2>3, <2>4
<1>2. h = [s \in SUBSET S |-> h[s]] /\ k = [s \in SUBSET S |-> k[s]]
  BY DEF IsTable
<1>3. \A s \in SUBSET S : h[s] = k[s]
  BY <1>1
<1>4. QED
  BY <1>2, <1>3

\* A table for a set has one for every subset in it.
LEMMA TableRestricted ==
  ASSUME NEW f, NEW S, NEW h, IsTable(h, f, S), NEW R \in SUBSET S
  PROVE  IsTable([s \in SUBSET R |-> h[s]], f, R)
<1> DEFINE k == [s \in SUBSET R |-> h[s]]
<1>1. ASSUME NEW s \in SUBSET R
      PROVE  k[s] = IF s = {} THEN 0 ELSE f[Pick(s)] + k[s \ {Pick(s)}]
  <2>1. h[s] = IF s = {} THEN 0 ELSE f[Pick(s)] + h[s \ {Pick(s)}]
    BY TableAt
  <2>2. s \ {Pick(s)} \in SUBSET R
    OBVIOUS
  <2>3. QED
    BY <2>1, <2>2
<1>2. k = [s \in SUBSET R |-> k[s]]
  OBVIOUS
<1> HIDE DEF k
<1>3. k = [s \in SUBSET R |-> IF s = {} THEN 0 ELSE f[Pick(s)] + k[s \ {Pick(s)}]]
  BY <1>1, <1>2
<1>4. QED
  BY <1>3 DEF IsTable, k

\* There is a table.
LEMMA TableExists ==
  ASSUME NEW f, NEW S, IsFiniteSet(S)
  PROVE  IsTable(Table(f, S), f, S)
<1> DEFINE Bad == {s \in SUBSET S : ~ \E h : IsTable(h, f, s)}
<1>1. Bad = {}
  <2>1. SUFFICES ASSUME Bad # {} PROVE FALSE
    OBVIOUS
  <2>2. PICK a \in Bad : \A b \in Bad : b \subseteq a => b = a
    <3>1. Bad \in SUBSET SUBSET S
      OBVIOUS
    <3> HIDE DEF Bad
    <3>2. QED
      BY <2>1, <3>1, MinimalSubset
  <2>3. \A s \in SUBSET a : s # a => IsTable(Table(f, s), f, s)
    BY <2>2 DEF Table
  <2> DEFINE Rest(s) == s \ {Pick(s)}
             h == [s \in SUBSET a |->
                     IF s = {} THEN 0 ELSE f[Pick(s)] + Table(f, Rest(s))[Rest(s)]]
  <2>4. ASSUME NEW s \in SUBSET a, s # {}
        PROVE  h[Rest(s)] = Table(f, Rest(s))[Rest(s)]
    <3> DEFINE u == Rest(s)
               v == Rest(u)
               k == Table(f, u)
    <3>1. u \in SUBSET a /\ u # a /\ IsFiniteSet(u)
      BY <2>4, PickIn, FS_Subset
    <3>2. IsTable(k, f, u)
      BY <2>3, <3>1
    <3>3. k[u] = IF u = {} THEN 0 ELSE f[Pick(u)] + k[v]
      <4> HIDE DEF u, k
      <4>1. u \in SUBSET u
        OBVIOUS
      <4>2. QED
        BY <3>2, <4>1, TableAt
    <3>4. CASE u = {}
      BY <3>1, <3>3, <3>4
    <3>5. CASE u # {}
      <4>1. v \in SUBSET u /\ v # a /\ IsFiniteSet(v) /\ v \in SUBSET a
        BY <3>1, FS_Subset
      <4>2. IsTable([t \in SUBSET v |-> k[t]], f, v)
        BY <3>2, <4>1, TableRestricted
      <4>3. IsTable(Table(f, v), f, v)
        BY <2>3, <4>1
      <4>4. Table(f, v) = [t \in SUBSET v |-> k[t]]
        BY <4>1, <4>2, <4>3, TableUnique
      <4>5. Table(f, v)[v] = k[v]
        BY <4>4
      <4>6. h[u] = f[Pick(u)] + Table(f, v)[v]
        BY <3>1, <3>5
      <4>7. QED
        BY <3>3, <3>5, <4>5, <4>6
    <3>6. QED
      BY <3>4, <3>5
  <2>5. h = [s \in SUBSET a |-> h[s]]
    OBVIOUS
  <2>6. \A s \in SUBSET a : h[s] = IF s = {} THEN 0 ELSE f[Pick(s)] + h[s \ {Pick(s)}]
    BY <2>4
  <2> HIDE DEF h
  <2>7. IsTable(h, f, a)
    BY <2>5, <2>6 DEF IsTable
  <2>8. QED
    BY <2>2, <2>7
<1>2. \E h : IsTable(h, f, S)
  BY <1>1
<1>3. QED
  BY <1>2 DEF Table

---------------------------------------------------------------------------
(***************************************************************************)
(* Sums                                                                    *)
(***************************************************************************)

\* f adds up over S to a number.
Summable(f, S) == IsFiniteSet(S) /\ \A x \in S : f[x] \in Int

\* Nothing to add up.
LEMMA TotalEmpty == ASSUME NEW f PROVE Total(f, {}) = 0
<1>1. IsTable(Table(f, {}), f, {})
  BY TableExists, FS_EmptySet
<1>2. QED
  BY <1>1, TableAt, TotalIsTable

\* One unfolding of the recursion.
LEMMA TotalPicked ==
  ASSUME NEW f, NEW S, IsFiniteSet(S), S # {}
  PROVE  Total(f, S) = f[Pick(S)] + Total(f, S \ {Pick(S)})
<1> DEFINE R == S \ {Pick(S)}
<1>1. R \in SUBSET S /\ IsFiniteSet(R) /\ S \in SUBSET S
  BY FS_Subset
<1>2. IsTable(Table(f, S), f, S) /\ IsTable(Table(f, R), f, R)
  BY <1>1, TableExists
<1>3. Table(f, S)[S] = f[Pick(S)] + Table(f, S)[R]
  BY <1>1, <1>2, TableAt
<1>4. IsTable([s \in SUBSET R |-> Table(f, S)[s]], f, R)
  BY <1>1, <1>2, TableRestricted
<1>5. Table(f, R) = [s \in SUBSET R |-> Table(f, S)[s]]
  BY <1>1, <1>2, <1>4, TableUnique
<1>6. Table(f, R)[R] = Table(f, S)[R]
  BY <1>5
<1>7. QED
  BY <1>3, <1>6, TotalIsTable

\* A sum of numbers is a number.
LEMMA TotalInt ==
  ASSUME NEW f, NEW S, Summable(f, S)
  PROVE  Total(f, S) \in Int
<1> DEFINE Bad == {s \in SUBSET S : Total(f, s) \notin Int}
<1>1. Bad = {}
  <2>1. SUFFICES ASSUME Bad # {} PROVE FALSE
    OBVIOUS
  <2>2. PICK a \in Bad : \A b \in Bad : b \subseteq a => b = a
    <3>1. Bad \in SUBSET SUBSET S /\ IsFiniteSet(S)
      BY DEF Summable
    <3> HIDE DEF Bad
    <3>2. QED
      BY <2>1, <3>1, MinimalSubset
  <2>3. a # {} /\ IsFiniteSet(a)
    <3>1. a # {}
      BY TotalEmpty
    <3>2. QED
      BY <3>1, FS_Subset DEF Summable
  <2>4. Pick(a) \in a /\ f[Pick(a)] \in Int
    BY <2>3, PickIn DEF Summable
  <2>5. Total(f, a \ {Pick(a)}) \in Int
    BY <2>2, <2>4
  <2>6. Total(f, a) = f[Pick(a)] + Total(f, a \ {Pick(a)})
    BY <2>3, TotalPicked
  <2>7. QED
    BY <2>4, <2>5, <2>6
<1>2. QED
  BY <1>1

\* The order does not matter: any element may be taken out.
LEMMA TotalWithout ==
  ASSUME NEW f, NEW S, Summable(f, S), NEW y \in S
  PROVE  Total(f, S) = f[y] + Total(f, S \ {y})
<1> DEFINE Bad == {s \in SUBSET S : \E z \in s : Total(f, s) # f[z] + Total(f, s \ {z})}
<1>1. Bad = {}
  <2>1. SUFFICES ASSUME Bad # {} PROVE FALSE
    OBVIOUS
  <2>2. PICK a \in Bad : \A b \in Bad : b \subseteq a => b = a
    <3>1. Bad \in SUBSET SUBSET S /\ IsFiniteSet(S)
      BY DEF Summable
    <3> HIDE DEF Bad
    <3>2. QED
      BY <2>1, <3>1, MinimalSubset
  <2>3. PICK z \in a : Total(f, a) # f[z] + Total(f, a \ {z})
    OBVIOUS
  <2> DEFINE x == Pick(a)
             both == (a \ {x}) \ {z}
  <2>4. a \in SUBSET S /\ a # {} /\ IsFiniteSet(a) /\ x \in a
    BY <2>3, FS_Subset, PickIn DEF Summable
  <2>5. Total(f, a) = f[x] + Total(f, a \ {x})
    BY <2>4, TotalPicked
  <2>6. x # z
    BY <2>3, <2>5
  <2>7. Total(f, a \ {x}) = f[z] + Total(f, both)
    <3>1. a \ {x} \in SUBSET S /\ a \ {x} # a /\ z \in a \ {x}
      BY <2>4, <2>6
    <3>2. QED
      BY <2>2, <3>1
  <2>8. Total(f, a \ {z}) = f[x] + Total(f, both)
    <3>1. a \ {z} \in SUBSET S /\ a \ {z} # a /\ x \in a \ {z}
      BY <2>4, <2>6
    <3>2. (a \ {z}) \ {x} = both
      OBVIOUS
    <3>3. QED
      BY <2>2, <3>1, <3>2
  <2>9. f[x] \in Int /\ f[z] \in Int /\ Total(f, both) \in Int
    <3>1. Summable(f, both)
      BY <2>4, FS_Subset DEF Summable
    <3>2. QED
      BY <2>4, <3>1, TotalInt DEF Summable
  <2> HIDE DEF x, both
  <2>10. Total(f, a) = f[z] + Total(f, a \ {z})
    BY <2>5, <2>7, <2>8, <2>9
  <2>11. QED
    BY <2>3, <2>10
<1>2. QED
  BY <1>1

\* One element more.
LEMMA TotalWith ==
  ASSUME NEW f, NEW S, Summable(f, S), NEW a \in SUBSET S, NEW x \in S \ a
  PROVE  /\ Summable(f, a)
         /\ f[x] \in Int
         /\ Total(f, a) \in Int
         /\ Total(f, a \union {x}) = f[x] + Total(f, a)
<1>1. Summable(f, a) /\ Summable(f, a \union {x}) /\ f[x] \in Int
  BY FS_Subset, a \union {x} \in SUBSET S DEF Summable
<1>2. (a \union {x}) \ {x} = a
  OBVIOUS
<1>3. QED
  BY <1>1, <1>2, TotalInt, TotalWithout

\* A sum of natural numbers is one.
LEMMA TotalNat ==
  ASSUME NEW f, NEW S, IsFiniteSet(S), \A x \in S : f[x] \in Nat
  PROVE  Total(f, S) \in Nat
<1> DEFINE Good == {a \in SUBSET S : Total(f, a) \in Nat}
<1>1. {} \in Good
  BY TotalEmpty
<1>2. ASSUME NEW a \in SUBSET S, NEW x \in S \ a, a \in Good
      PROVE  a \union {x} \in Good
  <2>1. Summable(f, S)
    BY DEF Summable
  <2>2. Total(f, a \union {x}) = f[x] + Total(f, a)
    BY <2>1, TotalWith
  <2>3. QED
    BY <1>2, <2>2
<1> HIDE DEF Good
<1>3. S \in Good
  BY <1>1, <1>2, SubsetInduction
<1>4. QED
  BY <1>3 DEF Good

\* No summand exceeds a sum of natural numbers.
LEMMA TotalBoundsSummand ==
  ASSUME NEW f, NEW S, IsFiniteSet(S), \A x \in S : f[x] \in Nat, NEW y \in S
  PROVE  f[y] <= Total(f, S)
<1>1. Summable(f, S) /\ IsFiniteSet(S \ {y})
  BY FS_Subset DEF Summable
<1>2. Total(f, S) = f[y] + Total(f, S \ {y})
  BY <1>1, TotalWithout
<1>3. Total(f, S \ {y}) \in Nat
  BY <1>1, TotalNat
<1>4. QED
  BY <1>2, <1>3

\* Only the summands in the set count.
LEMMA TotalSame ==
  ASSUME NEW f, NEW g, NEW S, Summable(f, S), \A x \in S : g[x] = f[x]
  PROVE  Total(g, S) = Total(f, S)
<1> DEFINE Good == {a \in SUBSET S : Total(g, a) = Total(f, a)}
<1>1. {} \in Good
  BY TotalEmpty
<1>2. ASSUME NEW a \in SUBSET S, NEW x \in S \ a, a \in Good
      PROVE  a \union {x} \in Good
  <2>1. Summable(g, S)
    BY DEF Summable
  <2>2. Total(f, a \union {x}) = f[x] + Total(f, a)
    BY TotalWith
  <2>3. Total(g, a \union {x}) = g[x] + Total(g, a)
    BY <2>1, TotalWith
  <2>4. QED
    BY <1>2, <2>2, <2>3
<1> HIDE DEF Good
<1>3. S \in Good
  BY <1>1, <1>2, SubsetInduction DEF Summable
<1>4. QED
  BY <1>3 DEF Good

\* Nothing adds up to nothing.
LEMMA TotalZero ==
  ASSUME NEW f, NEW S, IsFiniteSet(S), \A x \in S : f[x] = 0
  PROVE  Total(f, S) = 0
<1> DEFINE Good == {a \in SUBSET S : Total(f, a) = 0}
<1>1. {} \in Good
  BY TotalEmpty
<1>2. ASSUME NEW a \in SUBSET S, NEW x \in S \ a, a \in Good
      PROVE  a \union {x} \in Good
  <2>1. Summable(f, S)
    BY DEF Summable
  <2>2. Total(f, a \union {x}) = f[x] + Total(f, a)
    BY <2>1, TotalWith
  <2>3. QED
    BY <1>2, <2>2
<1> HIDE DEF Good
<1>3. S \in Good
  BY <1>1, <1>2, SubsetInduction
<1>4. QED
  BY <1>3 DEF Good

\* One summand changes.
LEMMA TotalChanged ==
  ASSUME NEW f, NEW g, NEW S, Summable(f, S), NEW y \in S, g[y] \in Int,
         \A x \in S \ {y} : g[x] = f[x]
  PROVE  Total(g, S) = Total(f, S) + g[y] - f[y]
<1> DEFINE r == S \ {y}
<1>1. Summable(g, S) /\ Summable(f, r) /\ Summable(g, r) /\ f[y] \in Int
  BY FS_Subset DEF Summable
<1>2. Total(f, S) = f[y] + Total(f, r) /\ Total(g, S) = g[y] + Total(g, r)
  BY <1>1, TotalWithout
<1>3. Total(g, r) = Total(f, r)
  BY <1>1, TotalSame
<1>4. Total(f, r) \in Int
  BY <1>1, TotalInt
<1> HIDE DEF r
<1>5. QED
  BY <1>1, <1>2, <1>3, <1>4

\* A set that grows by one element.
LEMMA TotalAdded ==
  ASSUME NEW f, NEW g, NEW S, NEW y, Summable(f, S), y \notin S, g[y] \in Int,
         \A x \in S : g[x] = f[x]
  PROVE  /\ Summable(g, S \union {y})
         /\ Total(g, S \union {y}) = Total(f, S) + g[y]
<1>1. Summable(g, S \union {y})
  BY FS_AddElement DEF Summable
<1>2. Total(g, S \union {y}) = g[y] + Total(g, S)
  BY <1>1, TotalWith
<1>3. Total(g, S) = Total(f, S) /\ Total(f, S) \in Int
  BY TotalSame, TotalInt
<1>4. QED
  BY <1>1, <1>2, <1>3

\* One summand.
LEMMA TotalOne ==
  ASSUME NEW f, NEW x, f[x] \in Int
  PROVE  Total(f, {x}) = f[x]
<1>1. Summable(f, {x}) /\ x \in {x} /\ {x} \ {x} = {}
  BY FS_Singleton DEF Summable
<1>2. Total(f, {x}) = f[x] + Total(f, {x} \ {x})
  BY <1>1, TotalWithout
<1>3. QED
  BY <1>1, <1>2, TotalEmpty

\* Two summands.
LEMMA TotalTwo ==
  ASSUME NEW f, NEW x, NEW y, x # y, f[x] \in Int, f[y] \in Int
  PROVE  Total(f, {x, y}) = f[x] + f[y]
<1>1. {x, y} \ {x} = {y} /\ x \in {x, y}
  OBVIOUS
<1>2. Summable(f, {x, y})
  <2>1. IsFiniteSet({y} \union {x})
    BY FS_Singleton, FS_AddElement
  <2>2. {x, y} = {y} \union {x}
    OBVIOUS
  <2>3. QED
    BY <2>1, <2>2 DEF Summable
<1>3. Total(f, {x, y}) = f[x] + Total(f, {x, y} \ {x})
  BY <1>1, <1>2, TotalWithout
<1>4. QED
  BY <1>1, <1>3, TotalOne

\* Sums add up.
LEMMA TotalPlus ==
  ASSUME NEW f, NEW g, NEW h, NEW S, Summable(f, S), Summable(g, S),
         \A x \in S : h[x] = f[x] + g[x]
  PROVE  /\ Summable(h, S)
         /\ Total(h, S) = Total(f, S) + Total(g, S)
<1> DEFINE Good == {a \in SUBSET S : Total(h, a) = Total(f, a) + Total(g, a)}
<1>1. {} \in Good
  BY TotalEmpty
<1>2. Summable(h, S)
  BY DEF Summable
<1>3. ASSUME NEW a \in SUBSET S, NEW x \in S \ a, a \in Good
      PROVE  a \union {x} \in Good
  <2>1. /\ Total(f, a \union {x}) = f[x] + Total(f, a)
        /\ f[x] \in Int /\ Total(f, a) \in Int
    BY TotalWith
  <2>2. /\ Total(g, a \union {x}) = g[x] + Total(g, a)
        /\ g[x] \in Int /\ Total(g, a) \in Int
    BY TotalWith
  <2>3. Total(h, a \union {x}) = h[x] + Total(h, a)
    BY <1>2, TotalWith
  <2>4. QED
    BY <1>3, <2>1, <2>2, <2>3
<1> HIDE DEF Good
<1>4. S \in Good
  BY <1>1, <1>3, SubsetInduction DEF Summable
<1>5. QED
  BY <1>2, <1>4 DEF Good

\* Summands that are 0 outside a part of the set.
LEMMA TotalPart ==
  ASSUME NEW f, NEW g, NEW S, NEW R \in SUBSET S, IsFiniteSet(S),
         \A x \in R : f[x] \in Int /\ g[x] = f[x],
         \A x \in S \ R : g[x] = 0
  PROVE  /\ Summable(f, R)
         /\ Summable(g, S)
         /\ Total(g, S) = Total(f, R)
<1> DEFINE Good == {a \in SUBSET S : Total(g, a) = Total(f, a \intersect R)}
<1>1. Summable(g, S) /\ Summable(f, R)
  BY FS_Subset DEF Summable
<1>2. {} \in Good
  <2>1. {} \intersect R = {}
    OBVIOUS
  <2>2. QED
    BY <2>1, TotalEmpty
<1>3. ASSUME NEW a \in SUBSET S, NEW x \in S \ a, a \in Good
      PROVE  a \union {x} \in Good
  <2>1. Total(g, a \union {x}) = g[x] + Total(g, a) /\ Total(g, a) \in Int
    BY <1>1, TotalWith
  <2>2. Total(g, a) = Total(f, a \intersect R)
    BY <1>3
  <2>3. CASE x \in R
    <3> DEFINE b == a \intersect R
    <3>1. b \in SUBSET R /\ x \in R \ b /\ (a \union {x}) \intersect R = b \union {x}
      BY <2>3
    <3> HIDE DEF b
    <3>2. Total(f, b \union {x}) = f[x] + Total(f, b)
      BY <1>1, <3>1, TotalWith
    <3>3. QED
      BY <2>1, <2>2, <2>3, <3>1, <3>2 DEF b
  <2>4. CASE x \notin R
    <3>1. (a \union {x}) \intersect R = a \intersect R /\ g[x] = 0
      BY <2>4
    <3>2. QED
      BY <2>1, <2>2, <3>1
  <2>5. QED
    BY <2>3, <2>4
<1> HIDE DEF Good
<1>4. S \in Good
  BY <1>2, <1>3, SubsetInduction
<1>5. S \intersect R = R
  OBVIOUS
<1>6. QED
  BY <1>1, <1>4, <1>5 DEF Good

\* A set falls into a part and the rest.
LEMMA TotalSplit ==
  ASSUME NEW f, NEW S, Summable(f, S), NEW R \in SUBSET S
  PROVE  /\ Summable(f, R)
         /\ Summable(f, S \ R)
         /\ Total(f, R) \in Int
         /\ Total(f, S \ R) \in Int
         /\ Total(f, S) = Total(f, R) + Total(f, S \ R)
<1> DEFINE g == [x \in S |-> IF x \in R THEN f[x] ELSE 0]
           h == [x \in S |-> IF x \in R THEN 0 ELSE f[x]]
           T == S \ R
<1>1. IsFiniteSet(S) /\ \A x \in S : f[x] \in Int
  BY DEF Summable
<1>2. /\ \A x \in R : g[x] = f[x] /\ h[x] = 0
      /\ \A x \in T : g[x] = 0 /\ h[x] = f[x]
      /\ \A x \in S : f[x] = g[x] + h[x]
      /\ T \in SUBSET S
      /\ S \ T = R
  BY <1>1
<1> HIDE DEF g, h, T
<1>3. Summable(f, R) /\ Summable(g, S) /\ Total(g, S) = Total(f, R)
  <2>1. /\ \A x \in R : f[x] \in Int /\ g[x] = f[x]
        /\ \A x \in S \ R : g[x] = 0
    BY <1>1, <1>2 DEF T
  <2>2. QED
    BY <1>1, <2>1, TotalPart
<1>4. Summable(f, T) /\ Summable(h, S) /\ Total(h, S) = Total(f, T)
  <2>1. /\ \A x \in T : f[x] \in Int /\ h[x] = f[x]
        /\ \A x \in S \ T : h[x] = 0
    BY <1>1, <1>2
  <2>2. QED
    BY <1>1, <1>2, <2>1, TotalPart
<1>5. Total(f, S) = Total(g, S) + Total(h, S)
  BY <1>2, <1>3, <1>4, TotalPlus
<1>6. QED
  BY <1>3, <1>4, <1>5, TotalInt DEF T

\* Smaller summands, smaller sum.
LEMMA TotalAtMost ==
  ASSUME NEW f, NEW g, NEW S, Summable(f, S), Summable(g, S), \A x \in S : f[x] <= g[x]
  PROVE  Total(f, S) <= Total(g, S)
<1> DEFINE Good == {a \in SUBSET S : Total(f, a) <= Total(g, a)}
<1>1. {} \in Good
  BY TotalEmpty
<1>2. ASSUME NEW a \in SUBSET S, NEW x \in S \ a, a \in Good
      PROVE  a \union {x} \in Good
  <2>1. /\ Total(f, a \union {x}) = f[x] + Total(f, a)
        /\ f[x] \in Int /\ Total(f, a) \in Int
    BY TotalWith
  <2>2. /\ Total(g, a \union {x}) = g[x] + Total(g, a)
        /\ g[x] \in Int /\ Total(g, a) \in Int
    BY TotalWith
  <2>3. QED
    BY <1>2, <2>1, <2>2
<1> HIDE DEF Good
<1>3. S \in Good
  BY <1>1, <1>2, SubsetInduction DEF Summable
<1>4. QED
  BY <1>3 DEF Good

\* A common factor.
LEMMA TotalScaled ==
  ASSUME NEW f, NEW g, NEW S, NEW c \in Int, Summable(f, S), \A x \in S : g[x] = f[x] * c
  PROVE  /\ Summable(g, S)
         /\ Total(g, S) = Total(f, S) * c
<1> DEFINE Good == {a \in SUBSET S : Total(g, a) = Total(f, a) * c}
<1>1. {} \in Good
  BY TotalEmpty
<1>2. Summable(g, S)
  BY DEF Summable
<1>3. ASSUME NEW a \in SUBSET S, NEW x \in S \ a, a \in Good
      PROVE  a \union {x} \in Good
  <2>1. /\ Total(f, a \union {x}) = f[x] + Total(f, a)
        /\ f[x] \in Int /\ Total(f, a) \in Int
    BY TotalWith
  <2>2. Total(g, a \union {x}) = g[x] + Total(g, a)
    BY <1>2, TotalWith
  <2>3. (f[x] + Total(f, a)) * c = f[x] * c + Total(f, a) * c
    BY <2>1
  <2>4. QED
    BY <1>3, <2>1, <2>2, <2>3
<1> HIDE DEF Good
<1>4. S \in Good
  BY <1>1, <1>3, SubsetInduction DEF Summable
<1>5. QED
  BY <1>2, <1>4 DEF Good

\* The sums of the rows of a table, and of its columns, are the same.
LEMMA TotalSwapped ==
  ASSUME NEW m, NEW R, NEW C, IsFiniteSet(R), IsFiniteSet(C),
         \A r \in R, c \in C : m[r][c] \in Int
  PROVE  Total([r \in R |-> Total(m[r], C)], R)
           = Total([c \in C |-> Total([r \in R |-> m[r][c]], R)], C)
<1> DEFINE rows    == [r \in R |-> Total(m[r], C)]
           cols(a) == [c \in C |-> Total([r \in R |-> m[r][c]], a)]
           Good    == {a \in SUBSET R : Total(rows, a) = Total(cols(a), C)}
<1>1. \A r \in R : Summable(m[r], C) /\ rows[r] \in Int
  BY TotalInt DEF Summable
<1>2. \A c \in C : Summable([r \in R |-> m[r][c]], R)
  BY DEF Summable
<1>3. {} \in Good
  <2>1. \A c \in C : cols({})[c] = 0
    BY TotalEmpty
  <2>2. Total(cols({}), C) = 0
    BY <2>1, TotalZero
  <2>3. QED
    BY <2>2, TotalEmpty
<1>4. ASSUME NEW a \in SUBSET R, NEW x \in R \ a, a \in Good
      PROVE  a \union {x} \in Good
  <2>1. Summable(rows, R)
    BY <1>1 DEF Summable
  <2>2. Total(rows, a \union {x}) = rows[x] + Total(rows, a) /\ rows[x] \in Int
    BY <2>1, TotalWith
  <2>3. ASSUME NEW c \in C
        PROVE  /\ cols(a)[c] \in Int
               /\ m[x][c] \in Int
               /\ cols(a \union {x})[c] = cols(a)[c] + m[x][c]
    <3> DEFINE col == [r \in R |-> m[r][c]]
    <3>1. /\ Total(col, a) \in Int
          /\ col[x] \in Int
          /\ Total(col, a \union {x}) = col[x] + Total(col, a)
      BY <1>2, TotalWith
    <3>2. QED
      BY <3>1
  <2>4. Summable(cols(a), C) /\ Summable(m[x], C)
    BY <2>3 DEF Summable
  <2>5. \A c \in C : cols(a \union {x})[c] = cols(a)[c] + m[x][c]
    BY <2>3
  <2>6. Total(cols(a \union {x}), C) = Total(cols(a), C) + Total(m[x], C)
    <3> DEFINE before == cols(a)
               after  == cols(a \union {x})
               row    == m[x]
    <3>1. Summable(before, C) /\ Summable(row, C)
      BY <2>4
    <3>2. \A c \in C : after[c] = before[c] + row[c]
      BY <2>5
    <3> HIDE DEF before, after, row
    <3>3. Total(after, C) = Total(before, C) + Total(row, C)
      BY <3>1, <3>2, TotalPlus
    <3>4. QED
      BY <3>3 DEF before, after, row
  <2>7. rows[x] = Total(m[x], C) /\ Total(cols(a), C) \in Int
    BY <2>4, TotalInt
  <2> HIDE DEF rows, cols
  <2>8. QED
    BY <1>4, <2>2, <2>6, <2>7
<1> HIDE DEF Good
<1>5. R \in Good
  BY <1>3, <1>4, SubsetInduction
<1>6. QED
  BY <1>5 DEF Good

---------------------------------------------------------------------------
(***************************************************************************)
(* Rounded shares of a pot                                                 *)
(***************************************************************************)

\* As many times c as there are elements.
LEMMA TotalConstant ==
  ASSUME NEW f, NEW S, NEW c \in Int, IsFiniteSet(S), \A x \in S : f[x] = c
  PROVE  Total(f, S) = c * Cardinality(S)
<1> DEFINE Good == {a \in SUBSET S : Total(f, a) = c * Cardinality(a)}
<1>1. {} \in Good
  BY TotalEmpty, FS_EmptySet
<1>2. ASSUME NEW a \in SUBSET S, NEW x \in S \ a, a \in Good
      PROVE  a \union {x} \in Good
  <2> DEFINE n == Cardinality(a)
  <2>1. Summable(f, S)
    BY DEF Summable
  <2>2. Total(f, a \union {x}) = c + Total(f, a)
    BY <2>1, TotalWith
  <2>3. IsFiniteSet(a)
    BY FS_Subset
  <2>4. n \in Nat /\ Cardinality(a \union {x}) = n + 1
    BY <2>3, FS_CardinalityType, FS_AddElement
  <2>5. Total(f, a) = c * n
    BY <1>2
  <2> HIDE DEF n
  <2>6. c * (n + 1) = c + c * n
    BY <2>4
  <2>7. QED
    BY <2>2, <2>4, <2>5, <2>6
<1> HIDE DEF Good
<1>3. S \in Good
  BY <1>1, <1>2, SubsetInduction
<1>4. QED
  BY <1>3 DEF Good

\* A quotient rounded down.
LEMMA QuotientBounds ==
  ASSUME NEW a \in Nat, NEW c \in Nat, c > 0
  PROVE  /\ a \div c \in Nat
         /\ (a \div c) * c <= a
         /\ a <= (a \div c) * c + (c - 1)
OBVIOUS

\* What two products with a positive factor say of the other factors.
LEMMA FactorsCompare ==
  ASSUME NEW a \in Int, NEW b \in Int, NEW c \in Nat, c > 0
  PROVE  /\ a * c <= b * c => a <= b
         /\ a * c < b * c => a < b
OBVIOUS

\* A sum that is not 0 has something to add up.
LEMMA TotalNotEmpty ==
  ASSUME NEW f, NEW S, Total(f, S) # 0
  PROVE  S # {}
BY TotalEmpty

\* Everyone's share of a pot, in proportion to a part of a whole, rounded down.
AreShares(share, part, S, pot, whole) ==
  \A x \in S : part[x] \in Nat /\ share[x] = (part[x] * pot) \div whole

(***************************************************************************)
(* A pot is divided in proportion to what each has in a whole.  Rounded    *)
(* down, the shares never come to more than the pot, and what is left over *)
(* is less than one for each.                                              *)
(***************************************************************************)
LEMMA TotalShares ==
  ASSUME NEW part, NEW share, NEW S, NEW pot \in Nat, NEW whole \in Nat,
         IsFiniteSet(S), whole > 0, Total(part, S) = whole,
         AreShares(share, part, S, pot, whole)
  PROVE  /\ Total(share, S) \in Nat
         /\ Total(share, S) <= pot
         /\ pot - Total(share, S) <= Cardinality(S) - 1
<1> DEFINE n      == Cardinality(S)
           exact  == [x \in S |-> part[x] * pot]
           scaled == [x \in S |-> share[x] * whole]
           rest   == [x \in S |-> whole - 1]
           above  == [x \in S |-> scaled[x] + rest[x]]
           total  == Total(share, S)
<1>1. ASSUME NEW x \in S
      PROVE  /\ share[x] \in Nat
             /\ exact[x] \in Nat
             /\ scaled[x] \in Nat
             /\ scaled[x] <= exact[x]
             /\ exact[x] <= above[x]
             /\ part[x] \in Nat
  <2>0. part[x] \in Nat
    BY DEF AreShares
  <2>1. part[x] * pot \in Nat
    BY <2>0
  <2>2. share[x] = (part[x] * pot) \div whole
    BY DEF AreShares
  <2> DEFINE a == part[x] * pot
  <2>3. a \in Nat
    BY <2>1
  <2> HIDE DEF a
  <2>4. /\ a \div whole \in Nat
        /\ (a \div whole) * whole <= a
        /\ a <= (a \div whole) * whole + (whole - 1)
    BY <2>3, QuotientBounds
  <2>5. exact[x] = a /\ share[x] = a \div whole
    BY <2>2 DEF a
  <2>6. (a \div whole) * whole \in Nat
    BY <2>4
  <2>7. QED
    BY <2>0, <2>3, <2>4, <2>5, <2>6
<1>2. total \in Nat
  BY <1>1, TotalNat
<1>3. Summable(part, S) /\ Summable(share, S) /\ Summable(exact, S) /\ Summable(scaled, S)
  BY <1>1 DEF Summable
<1>4. Total(exact, S) = whole * pot
  <2>1. \A x \in S : exact[x] = part[x] * pot
    OBVIOUS
  <2> HIDE DEF exact
  <2>2. QED
    BY <1>3, <2>1, TotalScaled
<1>5. Total(scaled, S) = total * whole
  <2>1. \A x \in S : scaled[x] = share[x] * whole
    OBVIOUS
  <2> HIDE DEF scaled
  <2>2. QED
    BY <1>3, <2>1, TotalScaled
<1>6. Summable(rest, S) /\ Total(rest, S) = (whole - 1) * n
  <2>1. \A x \in S : rest[x] = whole - 1
    OBVIOUS
  <2> HIDE DEF rest
  <2>2. QED
    BY <2>1, TotalConstant DEF Summable
<1>7. Summable(above, S) /\ Total(above, S) = total * whole + (whole - 1) * n
  <2>1. \A x \in S : above[x] = scaled[x] + rest[x]
    OBVIOUS
  <2> HIDE DEF above, exact, scaled, rest, n, total
  <2>2. Summable(above, S) /\ Total(above, S) = Total(scaled, S) + Total(rest, S)
    BY <1>3, <1>6, <2>1, TotalPlus
  <2>3. QED
    BY <1>5, <1>6, <2>2
<1>8. Total(scaled, S) <= Total(exact, S)
  <2> HIDE DEF scaled, exact
  <2> QED
    BY <1>1, <1>3, TotalAtMost
<1>9. Total(exact, S) <= Total(above, S)
  <2> HIDE DEF above, exact
  <2> QED
    BY <1>1, <1>3, <1>7, TotalAtMost
<1> HIDE DEF exact, scaled, rest, above
<1>10. n \in Nat /\ n > 0
  <2>1. S # {}
    BY TotalNotEmpty
  <2>2. QED
    BY <2>1, FS_CardinalityType, FS_EmptySet
<1> HIDE DEF n, total
<1>11. total <= pot
  <2>1. total * whole <= pot * whole
    BY <1>4, <1>5, <1>8
  <2>2. QED
    BY <1>2, <2>1, FactorsCompare
<1>12. pot - total < n
  <2>1. pot * whole <= total * whole + (whole - 1) * n
    BY <1>4, <1>7, <1>9
  <2>2. (whole - 1) * n = n * whole - n /\ (pot - total) * whole = pot * whole - total * whole
    BY <1>2, <1>10
  <2>3. /\ pot * whole \in Int
        /\ total * whole \in Int
        /\ n * whole \in Int
    BY <1>2, <1>10
  <2>4. (pot - total) * whole < n * whole
    BY <1>10, <2>1, <2>2, <2>3
  <2>5. pot - total \in Int
    BY <1>2
  <2>6. QED
    BY <1>10, <2>4, <2>5, FactorsCompare
<1>13. QED
  BY <1>2, <1>10, <1>11, <1>12 DEF n, total
=================================================================================
