------------------------- MODULE SymbolicTaskLemmas -------------------------
(***************************************************************************)
(* Facts about the operators of SymbolicTask and Abstraction that proofs   *)
(* about the engines cite: least elements, repeated application, sums of   *)
(* ints, transition costs, distances in a task and in its abstractions.    *)
(***************************************************************************)
EXTENDS Abstraction, Sequences, TLAPS, WellFoundedInduction, FiniteSetTheorems

\* The order of the naturals as a relation.
NatLess == {p \in Nat \X Nat : p[1] < p[2]}

\* A non-empty set of naturals has a least element, which Least denotes.
LEMMA NatHasLeast ==
    ASSUME NEW S \in SUBSET Nat, S # {}
    PROVE  /\ Least(S) \in S
           /\ \A y \in S : Least(S) <= y
<1>1. IsWellFoundedOn(NatLess, Nat)
  BY NatLessThanWellFounded DEF OpToRel, NatLess
<1>2. PICK x \in S : \A y \in S : ~ (<<y, x>> \in NatLess)
  BY <1>1, WFMin
<1>3. ASSUME NEW y \in S PROVE x <= y
  <2>1. x \in Nat /\ y \in Nat
    OBVIOUS
  <2>2. y < x => <<y, x>> \in NatLess
    BY <2>1 DEF NatLess
  <2>3. ~ (y < x)
    BY <1>2, <2>2
  <2>4. QED
    BY <2>1, <2>3
<1>4. QED
  BY <1>3 DEF Least

-----------------------------------------------------------------------------
(* One function after the other *)

\* f lists what the functions Do[ops[1]], Do[ops[2]], ... make of v.
Chain(f, V, Do, v, ops) ==
    /\ f \in [0 .. Len(ops) -> V]
    /\ f[0] = v
    /\ \A n \in 1 .. Len(ops) : f[n] = Do[ops[n]][f[n - 1]]

\* Applied to v one after the other, they yield x.
Leads(V, Do, v, ops, x) == \E f : Chain(f, V, Do, v, ops) /\ f[Len(ops)] = x

\* a starts and continues in the same way, as long as it stays in V.
Follows(a, V, Do, v, ops) ==
    /\ a[0] = v
    /\ \A n \in 1 .. Len(ops) : a[n - 1] \in V => a[n] = Do[ops[n]][a[n - 1]]

\* The elements of a sequence.
LEMMA ElementFacts ==
    ASSUME NEW I, NEW ops \in Seq(I)
    PROVE  /\ Len(ops) \in Nat /\ DOMAIN ops = 1 .. Len(ops)
           /\ \A n \in 1 .. Len(ops) : ops[n] \in I
OBVIOUS

\* ... so it is a sequence over any larger set.
LEMMA SeqMonotone ==
    ASSUME NEW I, NEW J, I \subseteq J, NEW ops \in Seq(I)
    PROVE  ops \in Seq(J)
<1>1. ops = [n \in 1 .. Len(ops) |-> ops[n]] /\ Len(ops) \in Nat
  OBVIOUS
<1>2. \A n \in 1 .. Len(ops) : ops[n] \in J
  BY ElementFacts
<1>3. [n \in 1 .. Len(ops) |-> ops[n]] \in Seq(J)
  BY <1>1, <1>2
<1>4. QED
  BY <1>1, <1>3

\* Every sequence of functions has a list of what it makes of v.
LEMMA ChainExists ==
    ASSUME NEW V, NEW I, NEW Do \in [I -> [V -> V]], NEW v \in V, NEW ops \in Seq(I)
    PROVE  \E f : Chain(f, V, Do, v, ops)
<1> DEFINE Upto(n, f) == /\ f \in [0 .. n -> V]
                         /\ f[0] = v
                         /\ \A m \in 1 .. n : f[m] = Do[ops[m]][f[m - 1]]
           Bad == {n \in 0 .. Len(ops) : ~ \E f : Upto(n, f)}
           least == Least(Bad)
<1>1. Len(ops) \in Nat /\ \A n \in 1 .. Len(ops) : ops[n] \in I
  OBVIOUS
<1>2. ASSUME Bad # {} PROVE FALSE
  <2>1. least \in Bad /\ \A n \in Bad : least <= n
    <3>1. Bad \in SUBSET Nat /\ Bad # {}
      BY <1>1, <1>2
    <3> HIDE DEF Bad
    <3>2. QED
      BY <3>1, NatHasLeast
  <2>2. 0 \notin Bad
    <3>1. Upto(0, [n \in 0 .. 0 |-> v])
      OBVIOUS
    <3>2. QED
      BY <3>1
  <2> HIDE DEF least
  <2>3. least \in Nat /\ least # 0 /\ least <= Len(ops) /\ least - 1 \in 0 .. Len(ops)
    <3>1. least \in 0 .. Len(ops) /\ least # 0
      BY <2>1, <2>2
    <3> HIDE DEF Bad
    <3>2. QED
      BY <1>1, <3>1
  <2>4. ~ (least - 1 \in Bad)
    <3> HIDE DEF Bad
    <3>1. QED
      BY <2>1, <2>3
  <2>5. PICK f : Upto(least - 1, f)
    BY <2>3, <2>4
  <2> HIDE DEF least, Bad
  <2> DEFINE g == [n \in 0 .. least |->
                      IF n = least THEN Do[ops[least]][f[least - 1]] ELSE f[n]]
  <2>6. f[least - 1] \in V /\ ops[least] \in I
    BY <1>1, <2>3, <2>5
  <2>7. g \in [0 .. least -> V]
    BY <2>3, <2>5, <2>6
  <2>8. g[0] = v
    BY <2>3, <2>5
  <2>9. ASSUME NEW m \in 1 .. least PROVE g[m] = Do[ops[m]][g[m - 1]]
    <3>1. m - 1 \in 0 .. least /\ m - 1 # least /\ g[m - 1] = f[m - 1]
      BY <2>3
    <3>2. CASE m = least
      BY <3>1, <3>2
    <3>3. CASE m # least
      BY <2>3, <2>5, <3>1, <3>3
    <3>4. QED
      BY <3>2, <3>3
  <2>10. Upto(least, g)
    BY <2>7, <2>8, <2>9
  <2>11. QED
    BY <2>1, <2>10 DEF Bad
<1>3. \E f : Upto(Len(ops), f)
  BY <1>1, <1>2
<1>4. QED
  BY <1>3 DEF Chain

\* What follows the functions ends like the list.
LEMMA ChainUnique ==
    ASSUME NEW V, NEW I, NEW Do \in [I -> [V -> V]], NEW v \in V, NEW ops \in Seq(I),
           NEW f, Chain(f, V, Do, v, ops),
           NEW a, Follows(a, V, Do, v, ops)
    PROVE  a[Len(ops)] = f[Len(ops)]
<1> DEFINE Bad == {n \in 0 .. Len(ops) : a[n] # f[n]}
           least == Least(Bad)
<1>1. Len(ops) \in Nat /\ Bad \in SUBSET Nat
  OBVIOUS
<1>2. ASSUME Bad # {} PROVE FALSE
  <2>1. least \in Bad /\ \A n \in Bad : least <= n
    <3> HIDE DEF Bad
    <3>1. QED
      BY <1>1, <1>2, NatHasLeast
  <2> HIDE DEF least
  <2>2. least \in 1 .. Len(ops) /\ least - 1 \in 0 .. Len(ops) /\ ~ (least - 1 \in Bad)
    <3>1. 0 \notin Bad
      BY DEF Chain, Follows
    <3>2. least \in 0 .. Len(ops) /\ least # 0
      BY <2>1, <3>1
    <3> HIDE DEF Bad
    <3>3. QED
      BY <1>1, <2>1, <3>2
  <2>3. a[least - 1] = f[least - 1] /\ f[least - 1] \in V
    <3>1. a[least - 1] = f[least - 1]
      BY <2>2
    <3> HIDE DEF Bad
    <3>2. QED
      BY <2>2, <3>1 DEF Chain
  <2>4. a[least] = f[least]
    BY <2>2, <2>3 DEF Chain, Follows
  <2>5. QED
    BY <2>1, <2>4
<1>3. Len(ops) \in 0 .. Len(ops)
  BY <1>1
<1>4. QED
  BY <1>2, <1>3

\* f starts with v, and continues as step says.
IsRecursion(f, n, V, v, step) ==
    /\ f \in [0 .. n -> V]
    /\ f[0] = v
    /\ \A k \in 1 .. n : f[k] = step[k][f[k - 1]]

\* A recursion that stays in V has a result.
LEMMA RecursionExists ==
    ASSUME NEW V, NEW n \in Nat, NEW v \in V, NEW step,
           \A k \in 1 .. n : step[k] \in [V -> V]
    PROVE  \E f : IsRecursion(f, n, V, v, step)
<1>1. PICK ops \in Seq(1 .. n) : Len(ops) = n /\ \A k \in 1 .. n : ops[k] = k
  <2>1. PICK ops : ops = [k \in 1 .. n |-> k]
    OBVIOUS
  <2>2. ops \in Seq(1 .. n) /\ Len(ops) = n /\ \A k \in 1 .. n : ops[k] = k
    BY <2>1
  <2>3. QED
    BY <2>2
<1>2. PICK Do : Do = [k \in 1 .. n |-> step[k]]
  OBVIOUS
<1>3. Do \in [1 .. n -> [V -> V]] /\ \A k \in 1 .. n : Do[k] = step[k]
  BY <1>2
<1>4. PICK f : Chain(f, V, Do, v, ops)
  BY <1>3, ChainExists
<1>5. f \in [0 .. n -> V] /\ f[0] = v
  BY <1>1, <1>4 DEF Chain
<1>6. ASSUME NEW k \in 1 .. n PROVE f[k] = step[k][f[k - 1]]
  <2>1. k \in 1 .. Len(ops) /\ ops[k] = k
    BY <1>1
  <2>2. f[k] = Do[ops[k]][f[k - 1]]
    BY <1>4, <2>1 DEF Chain
  <2>3. QED
    BY <1>3, <2>1, <2>2
<1>7. IsRecursion(f, n, V, v, step)
  BY <1>5, <1>6 DEF IsRecursion
<1>8. QED
  BY <1>7

\* g starts with v, and continues as step says as long as it stays in V.
Continues(g, n, V, v, step) ==
    /\ g[0] = v
    /\ \A k \in 1 .. n : g[k - 1] \in V => g[k] = step[k][g[k - 1]]

\* They are the same up to n.
SameUpTo(f, g, n) == \A k \in 0 .. n : f[k] = g[k]

\* A recursion has no other result.
LEMMA RecursionUnique ==
    ASSUME NEW V, NEW n \in Nat, NEW v, NEW step, NEW f, IsRecursion(f, n, V, v, step),
           NEW g, Continues(g, n, V, v, step)
    PROVE  SameUpTo(f, g, n)
<1> DEFINE Bad == {k \in 0 .. n : g[k] # f[k]}
<1> SUFFICES ASSUME Bad # {} PROVE FALSE
  BY DEF SameUpTo
<1>1. Bad \in SUBSET Nat
  OBVIOUS
<1>2. PICK k \in Bad : \A j \in Bad : k <= j
  <2> HIDE DEF Bad
  <2>1. Least(Bad) \in Bad /\ \A j \in Bad : Least(Bad) <= j
    BY <1>1, NatHasLeast
  <2>2. QED
    BY <2>1
<1>3. k \in 1 .. n /\ k - 1 \in 0 .. n
  BY DEF IsRecursion, Continues
<1>4. g[k - 1] = f[k - 1]
  BY <1>2, <1>3
<1>5. f[k - 1] \in V
  BY <1>3 DEF IsRecursion
<1>6. f[k] = step[k][f[k - 1]]
  BY <1>3 DEF IsRecursion
<1>7. g[k] = step[k][g[k - 1]]
  BY <1>3, <1>4, <1>5 DEF Continues
<1>8. QED
  BY <1>4, <1>6, <1>7

-----------------------------------------------------------------------------
(* Costs *)

\* The sum of two costs is exact, or negative if it does not fit an int.
LEMMA PlusFacts ==
    ASSUME NEW a \in Level, NEW b \in Level
    PROVE  /\ Plus(a, b) \in Int
           /\ Plus(a, b) <= INT_MAX
           /\ a + b <= INT_MAX => Plus(a, b) = a + b
           /\ a + b > INT_MAX => Plus(a, b) < 0
BY IntMaxAssumption DEF Level, Plus

\* min_transition_cost bounds the cost of every operator from below.
LEMMA MinTransitionCostFacts ==
    ASSUME NEW t, IsTask(t)
    PROVE  /\ MinTransitionCost(t) \in Level
           /\ \A c \in DOMAIN t.ops : c \in Nat /\ MinTransitionCost(t) <= c
<1>1. DOMAIN t.ops \in SUBSET Nat /\ DOMAIN t.ops \subseteq 0 .. INT_MAX - 1
  BY IntMaxAssumption DEF IsTask
<1>2. CASE DOMAIN t.ops = {}
  BY <1>2, IntMaxAssumption DEF MinTransitionCost, Level
<1>3. CASE DOMAIN t.ops # {}
  <2>1. /\ Least(DOMAIN t.ops) \in DOMAIN t.ops
        /\ \A y \in DOMAIN t.ops : Least(DOMAIN t.ops) <= y
    BY <1>1, <1>3, NatHasLeast
  <2>2. QED
    BY <1>1, <1>3, <2>1, IntMaxAssumption DEF MinTransitionCost, Level
<1>4. QED
  BY <1>2, <1>3
-----------------------------------------------------------------------------
(* Distances *)

\* Opposite exchanges the two directions, for edges as well.
LEMMA OppositeFacts ==
    ASSUME NEW d \in Dir
    PROVE  /\ Opposite(d) \in Dir
           /\ Opposite(Opposite(d)) = d
           /\ Opposite(d) # d
           /\ \A t, c, x, y : Edge(t, d, c, x, y) <=> Edge(t, Opposite(d), c, y, x)
<1>1. CASE d = "fw"
  BY <1>1 DEF Dir, Opposite, Edge
<1>2. CASE d = "bw"
  BY <1>2 DEF Dir, Opposite, Edge
<1>3. QED
  BY <1>1, <1>2 DEF Dir

\* Among some states there is one of least rank.
LEMMA LeastRank ==
    ASSUME NEW S \in SUBSET State, S # {}, NEW r \in [State -> Nat]
    PROVE  \E x \in S : \A y \in S : r[x] <= r[y]
<1> DEFINE ranks == {r[x] : x \in S}
<1>1. ranks \in SUBSET Nat /\ ranks # {}
  OBVIOUS
<1>2. Least(ranks) \in ranks /\ \A k \in ranks : Least(ranks) <= k
  BY <1>1, NatHasLeast
<1>3. PICK x \in S : r[x] = Least(ranks)
  BY <1>2
<1>4. QED
  BY <1>2, <1>3

\* The parts of IsDistance, in both directions, and the sum of the distances.
LEMMA DistanceFacts ==
    ASSUME NEW t, IsTask(t), NEW d \in Dir, NEW s \in State
    PROVE  /\ t.dist[d][s] \in Level /\ t.dist[d][s] \in Nat
           /\ t.rank[d] \in [State -> Nat]
           /\ s \in Source(t, d) => t.dist[d][s] = 0
           /\ CostThrough(t, s) = t.dist[d][s] + t.dist[Opposite(d)][s]
           /\ OptimalCost(t) \in Level /\ OptimalCost(t) \in Nat
           /\ Source(t, d) \in SUBSET State
<1>1. IsDistance(t, "fw") /\ IsDistance(t, "bw") /\ IsDistance(t, d)
  BY DEF IsTask, Dir
<1>2. t.dist["fw"][s] \in Level /\ t.dist["bw"][s] \in Level
  BY <1>1 DEF IsDistance
<1>3. t.dist["fw"][s] \in Nat /\ t.dist["bw"][s] \in Nat
  BY <1>2, IntMaxAssumption DEF Level
<1>4. CostThrough(t, s) = t.dist[d][s] + t.dist[Opposite(d)][s]
  BY <1>3 DEF CostThrough, Opposite, Dir
<1>5. OptimalCost(t) \in Level /\ OptimalCost(t) \in Nat
  BY <1>1, IntMaxAssumption DEF OptimalCost, IsTask, IsDistance, Level
<1>6. QED
  BY <1>1, <1>2, <1>3, <1>4, <1>5 DEF IsDistance, Dir, Source, IsTask

\* A state that is no source has a predecessor on a cheapest walk to it: one of
\* smaller rank, on plans that cost no more.
LEMMA CheapestPredecessor ==
    ASSUME NEW t, IsTask(t), NEW d \in Dir,
           NEW x \in State \ Source(t, d), t.dist[d][x] < INT_MAX
    PROVE  \E c \in DOMAIN t.ops : \E p \in State :
              /\ c \in Nat
              /\ Edge(t, d, c, p, x)
              /\ t.dist[d][x] = t.dist[d][p] + c
              /\ t.rank[d][p] < t.rank[d][x]
              /\ CostThrough(t, p) <= CostThrough(t, x)
<1>1. IsDistance(t, d) /\ IsDistance(t, Opposite(d))
  BY OppositeFacts DEF IsTask
<1>2. PICK c \in DOMAIN t.ops : \E p \in State :
         /\ Edge(t, d, c, p, x)
         /\ t.dist[d][x] = t.dist[d][p] + c
         /\ t.rank[d][p] < t.rank[d][x]
  BY <1>1 DEF IsDistance
<1>3. PICK p \in State :
         /\ Edge(t, d, c, p, x)
         /\ t.dist[d][x] = t.dist[d][p] + c
         /\ t.rank[d][p] < t.rank[d][x]
  BY <1>2
<1>4. Edge(t, Opposite(d), c, x, p)
  BY <1>3, OppositeFacts
<1>5. t.dist[Opposite(d)][p] <= t.dist[Opposite(d)][x] + c
  BY <1>1, <1>4 DEF IsDistance
<1>6. c \in Nat
  BY MinTransitionCostFacts
<1>7. CostThrough(t, p) <= CostThrough(t, x)
  <2>1. /\ CostThrough(t, p) = t.dist[d][p] + t.dist[Opposite(d)][p]
        /\ CostThrough(t, x) = t.dist[d][x] + t.dist[Opposite(d)][x]
    BY DistanceFacts
  <2>2. /\ t.dist[d][p] \in Nat /\ t.dist[Opposite(d)][p] \in Nat
        /\ t.dist[d][x] \in Nat /\ t.dist[Opposite(d)][x] \in Nat
    BY DistanceFacts, OppositeFacts
  <2>3. QED
    BY <1>3, <1>5, <1>6, <2>1, <2>2
<1>8. QED
  BY <1>3, <1>6, <1>7

\* No plan through any state is cheaper than the optimum.
LEMMA OptimumIsLeast ==
    ASSUME NEW t, IsTask(t), NEW s \in State
    PROVE  OptimalCost(t) <= CostThrough(t, s)
<1> DEFINE Cheaper == {x \in State : CostThrough(t, x) < OptimalCost(t)}
<1>1. \A x \in State :
         /\ t.dist["fw"][x] \in Nat /\ t.dist["bw"][x] \in Nat
         /\ t.rank["fw"] \in [State -> Nat]
         /\ OptimalCost(t) \in Nat /\ OptimalCost(t) <= INT_MAX
         /\ CostThrough(t, x) = t.dist["fw"][x] + t.dist["bw"][x]
  <2> TAKE x \in State
  <2>1. "fw" \in Dir /\ "bw" \in Dir
    BY DEF Dir
  <2>2. OptimalCost(t) \in Level
    BY <2>1, DistanceFacts
  <2>3. QED
    BY <2>1, <2>2, DistanceFacts, IntMaxAssumption DEF Level, CostThrough
<1>2. Cheaper = {}
  <2> SUFFICES ASSUME Cheaper # {} PROVE FALSE
    OBVIOUS
  <2>1. PICK x \in Cheaper : \A y \in Cheaper : t.rank["fw"][x] <= t.rank["fw"][y]
    BY <1>1, LeastRank
  <2>2. t.dist["fw"][x] < INT_MAX
    BY <1>1, IntMaxAssumption
  <2>3. x \notin Source(t, "fw")
    <3> SUFFICES ASSUME x \in Source(t, "fw") PROVE FALSE
      OBVIOUS
    <3>1. x = t.init
      BY DEF Source
    <3>2. CostThrough(t, x) >= OptimalCost(t)
      BY <1>1, <3>1 DEF OptimalCost
    <3>3. QED
      BY <1>1, <3>2
  <2>4. PICK p \in State : /\ t.rank["fw"][p] < t.rank["fw"][x]
                           /\ CostThrough(t, p) <= CostThrough(t, x)
    BY <2>2, <2>3, CheapestPredecessor DEF Dir
  <2>5. p \in Cheaper
    BY <1>1, <2>4
  <2>6. t.rank["fw"][p] \in Nat /\ t.rank["fw"][x] \in Nat
    BY <1>1
  <2>7. QED
    BY <2>1, <2>4, <2>5, <2>6
<1>3. QED
  BY <1>1, <1>2

\* Either direction has a source on a cheapest plan.
LEMMA CheapestSource ==
    ASSUME NEW t, IsTask(t), OptimalCost(t) < INT_MAX, NEW d \in Dir
    PROVE  \E s \in Source(t, d) : CostThrough(t, s) = OptimalCost(t)
<1> DEFINE OnPlan == {x \in State : CostThrough(t, x) <= OptimalCost(t)}
<1>1. \A x \in State :
         /\ t.dist[d][x] \in Nat /\ t.dist[Opposite(d)][x] \in Nat
         /\ t.rank[d] \in [State -> Nat]
         /\ OptimalCost(t) \in Nat
         /\ CostThrough(t, x) = t.dist[d][x] + t.dist[Opposite(d)][x]
  BY DistanceFacts, OppositeFacts
<1>2. t.init \in OnPlan
  <2>1. t.init \in State /\ "fw" \in Dir
    BY DEF IsTask, Dir
  <2>2. t.init \in Source(t, "fw")
    BY DEF Source
  <2>3. t.dist["fw"][t.init] = 0
    BY <2>1, <2>2, DistanceFacts
  <2>4. QED
    BY <1>1, <2>1, <2>3 DEF CostThrough, OptimalCost
<1>3. PICK x \in OnPlan : \A y \in OnPlan : t.rank[d][x] <= t.rank[d][y]
  BY <1>1, <1>2, LeastRank
<1>4. x \in Source(t, d)
  <2> SUFFICES ASSUME x \notin Source(t, d) PROVE FALSE
    OBVIOUS
  <2>1. t.dist[d][x] < INT_MAX
    BY <1>1, IntMaxAssumption
  <2>2. PICK p \in State : /\ t.rank[d][p] < t.rank[d][x]
                           /\ CostThrough(t, p) <= CostThrough(t, x)
    BY <2>1, CheapestPredecessor
  <2>3. p \in OnPlan
    BY <1>1, <2>2
  <2>4. t.rank[d][p] \in Nat /\ t.rank[d][x] \in Nat
    BY <1>1
  <2>5. QED
    BY <1>3, <2>2, <2>3, <2>4
<1>5. OptimalCost(t) <= CostThrough(t, x)
  BY OptimumIsLeast
<1>6. QED
  BY <1>1, <1>4, <1>5

\* No mutex excludes a state that is on a plan.
LEMMA PlansAvoidMutexes ==
    ASSUME NEW t, IsTask(t), NEW d \in Dir, NEW s \in State, CostThrough(t, s) < INT_MAX
    PROVE  s \in t.notMutex[d]
<1>1. \A e \in Dir : t.dist[e][s] # INT_MAX
  <2> TAKE e \in Dir
  <2>1. /\ CostThrough(t, s) = t.dist[e][s] + t.dist[Opposite(e)][s]
        /\ t.dist[e][s] \in Nat /\ t.dist[Opposite(e)][s] \in Nat
    BY DistanceFacts, OppositeFacts
  <2>2. QED
    BY <2>1, IntMaxAssumption
<1>2. QED
  BY <1>1 DEF IsTask, MutexesAreSound

\* Values that are zero on the sources, and grow along an operator by no more
\* than its cost, are at most the distance.  Of the states of which this is
\* not true, one of least rank would have a predecessor of which it is.
LEMMA ConsistentIsAdmissible ==
    ASSUME NEW t, IsTask(t), NEW d \in Dir, NEW v \in [State -> Level],
           \A s \in Source(t, d) : v[s] = 0,
           \A c \in DOMAIN t.ops : \A x, y \in State : Edge(t, d, c, x, y) => v[y] <= v[x] + c,
           NEW s \in State
    PROVE  v[s] <= t.dist[d][s]
<1> DEFINE Wrong == {x \in State : ~ v[x] <= t.dist[d][x]}
<1> SUFFICES ASSUME Wrong # {} PROVE FALSE
  OBVIOUS
<1>1. t.rank[d] \in [State -> Nat]
  BY DistanceFacts
<1>2. PICK x \in Wrong : \A y \in Wrong : t.rank[d][x] <= t.rank[d][y]
  BY <1>1, LeastRank
<1>3. /\ t.dist[d][x] \in Nat /\ v[x] \in Nat /\ v[x] <= INT_MAX
      /\ x \in Source(t, d) => t.dist[d][x] = 0
  BY DistanceFacts, IntMaxAssumption DEF Level
<1>4. x \in State \ Source(t, d) /\ t.dist[d][x] < INT_MAX
  BY <1>3, IntMaxAssumption
<1>5. PICK c \in DOMAIN t.ops : \E p \in State :
         /\ c \in Nat
         /\ Edge(t, d, c, p, x)
         /\ t.dist[d][x] = t.dist[d][p] + c
         /\ t.rank[d][p] < t.rank[d][x]
  BY <1>4, CheapestPredecessor
<1>6. PICK p \in State : /\ c \in Nat
                         /\ Edge(t, d, c, p, x)
                         /\ t.dist[d][x] = t.dist[d][p] + c
                         /\ t.rank[d][p] < t.rank[d][x]
  BY <1>5
<1>7. v[p] <= t.dist[d][p]
  <2>1. t.rank[d][p] \in Nat /\ t.rank[d][x] \in Nat
    BY <1>1
  <2>2. p \notin Wrong
    BY <1>2, <1>6, <2>1
  <2>3. QED
    BY <2>2
<1>8. v[x] <= v[p] + c
  BY <1>6
<1>9. v[p] \in Nat /\ t.dist[d][p] \in Nat
  BY DistanceFacts, IntMaxAssumption DEF Level
<1>10. QED
  BY <1>2, <1>3, <1>6, <1>7, <1>8, <1>9

-----------------------------------------------------------------------------
(* Distances in an abstraction *)

\* What one round makes of the costs found so far: they never grow, an arc adds
\* no more than its cost, and what is new is the end of an arc.
Round(arcs, near, next) ==
    /\ \A p \in near : \E q \in next : q[1] = p[1] /\ q[2] <= p[2]
    /\ \A p \in near : \A arc \in arcs : arc[1] = p[1] =>
          \E q \in next : q[1] = arc[3] /\ q[2] <= p[2] + arc[2]
    /\ \A p \in next \ near : \E q \in near : \E arc \in arcs :
          arc[1] = q[1] /\ p = <<arc[3], q[2] + arc[2]>>
    /\ \A p \in next : \A q \in near : q[1] = p[1] => p[2] <= q[2]

\* Relaxed does one round.
LEMMA RelaxedFacts ==
    ASSUME NEW Y, NEW arcs \in SUBSET (Y \X Nat \X Y), NEW near \in SUBSET (Y \X Nat)
    PROVE  /\ Relaxed(arcs, near) \in SUBSET (Y \X Nat)
           /\ Round(arcs, near, Relaxed(arcs, near))
<1> DEFINE added == UNION {{<<arc[3], p[2] + arc[2]>> : arc \in {r \in arcs : r[1] = p[1]}} :
                           p \in near}
           all == near \cup added
<1>1. \A p \in near : \A arc \in arcs : arc[1] = p[1] => <<arc[3], p[2] + arc[2]>> \in added
  OBVIOUS
<1>2. \A x \in added : \E p \in near : \E arc \in arcs :
         arc[1] = p[1] /\ x = <<arc[3], p[2] + arc[2]>>
  OBVIOUS
<1>3. \A arc \in arcs : arc[1] \in Y /\ arc[2] \in Nat /\ arc[3] \in Y
  OBVIOUS
<1>4. \A p \in near : p[1] \in Y /\ p[2] \in Nat
  OBVIOUS
<1>5. added \in SUBSET (Y \X Nat)
  <2> SUFFICES ASSUME NEW x \in added PROVE x \in Y \X Nat
    OBVIOUS
  <2>1. PICK p \in near : \E arc \in arcs : arc[1] = p[1] /\ x = <<arc[3], p[2] + arc[2]>>
    BY <1>2
  <2>2. PICK arc \in arcs : arc[1] = p[1] /\ x = <<arc[3], p[2] + arc[2]>>
    BY <2>1
  <2>3. p[2] + arc[2] \in Nat
    BY <1>3, <1>4
  <2>4. QED
    BY <1>3, <2>2, <2>3
<1>6. Relaxed(arcs, near) = Nearest(all)
  BY DEF Relaxed
<1> HIDE DEF added
<1>7. all \in SUBSET (Y \X Nat)
  BY <1>5
<1>8. \A x \in all : x = <<x[1], x[2]>> /\ x[1] \in Y /\ x[2] \in Nat
  BY <1>7
<1> HIDE DEF all
<1>9. ASSUME NEW p \in all PROVE \E q \in Nearest(all) : q[1] = p[1] /\ q[2] <= p[2]
  <2> DEFINE costs == {x[2] : x \in {y \in all : y[1] = p[1]}}
  <2>1. costs \in SUBSET Nat /\ p[2] \in costs
    BY <1>8
  <2>2. Least(costs) \in costs /\ \A k \in costs : Least(costs) <= k
    <3> HIDE DEF costs
    <3>1. QED
      BY <2>1, NatHasLeast
  <2>3. PICK q \in all : q[1] = p[1] /\ q[2] = Least(costs)
    BY <2>2
  <2>4. \A x \in all : x[1] = q[1] => q[2] <= x[2]
    BY <2>2, <2>3
  <2>5. q \in Nearest(all)
    BY <2>4 DEF Nearest
  <2>6. QED
    BY <2>1, <2>2, <2>3, <2>5
<1>10. Nearest(all) \subseteq all
  BY DEF Nearest
<1>11. \A p \in near : p \in all
  BY DEF all
<1>12. \A p \in near : \E q \in Nearest(all) : q[1] = p[1] /\ q[2] <= p[2]
  BY <1>9, <1>11
<1>13. ASSUME NEW p \in near, NEW arc \in arcs, arc[1] = p[1]
       PROVE  \E q \in Nearest(all) : q[1] = arc[3] /\ q[2] <= p[2] + arc[2]
  <2>1. PICK x \in all : x = <<arc[3], p[2] + arc[2]>>
    BY <1>1, <1>13 DEF all
  <2>2. PICK q \in Nearest(all) : q[1] = x[1] /\ q[2] <= x[2]
    BY <1>9
  <2>3. x[1] = arc[3] /\ x[2] = p[2] + arc[2]
    BY <2>1
  <2>4. QED
    BY <2>2, <2>3
<1>14. \A p \in Nearest(all) \ near : p \in added
  BY DEF Nearest, all
<1>15. \A p \in Nearest(all) : \A q \in near : q[1] = p[1] => p[2] <= q[2]
  BY <1>11 DEF Nearest
<1>17. Nearest(all) \in SUBSET (Y \X Nat)
  BY <1>7, <1>10
<1>18. QED
  BY <1>2, <1>6, <1>12, <1>13, <1>14, <1>15, <1>17 DEF Round

\* f lists what the rounds make of the costs.
Rounds(f, n, Y, arcs) ==
    /\ f \in [0 .. n -> SUBSET (Y \X Nat)]
    /\ \A k \in 1 .. n : f[k] = Relaxed(arcs, f[k - 1])

\* What is new after some rounds is farther than as many others: it is the end
\* of an arc whose beginning was new one round before.
LEMMA NewIsFar ==
    ASSUME NEW Y, NEW arcs \in SUBSET (Y \X Nat \X Y), NEW n \in Nat,
           NEW f, Rounds(f, n, Y, arcs),
           NEW m \in 0 .. n, NEW p \in Relaxed(arcs, f[m]) \ f[m]
    PROVE  \E U \in SUBSET Y : IsFiniteSet(U) /\ Cardinality(U) >= m + 1
<1> DEFINE Wide(k, x) ==
               \E U \in SUBSET Y :
                  /\ IsFiniteSet(U) /\ Cardinality(U) >= k + 1
                  /\ \A u \in U : \E q \in f[k] : q[1] = u /\ q[2] <= x[2]
           Bad == {k \in 0 .. n : \E x \in Relaxed(arcs, f[k]) \ f[k] : ~Wide(k, x)}
           least == Least(Bad)
<1>1. \A k \in 0 .. n : f[k] \in SUBSET (Y \X Nat)
  BY DEF Rounds
<1>2. ASSUME Bad # {} PROVE FALSE
  <2>1. Bad \in SUBSET Nat
    OBVIOUS
  <2>2. least \in Bad /\ \A k \in Bad : least <= k
    <3> HIDE DEF Bad
    <3>1. QED
      BY <1>2, <2>1, NatHasLeast
  <2> HIDE DEF least
  <2>3. PICK k \in 0 .. n : k = least
    BY <2>2
  <2>4. PICK x \in Relaxed(arcs, f[k]) \ f[k] : ~Wide(k, x)
    BY <2>2, <2>3
  <2>5. \A j \in 0 .. n : j < k => \A y \in Relaxed(arcs, f[j]) \ f[j] : Wide(j, y)
    <3> SUFFICES ASSUME NEW j \in 0 .. n, j < k PROVE j \notin Bad
      OBVIOUS
    <3> HIDE DEF Bad
    <3>1. QED
      BY <2>2, <2>3
  <2> HIDE DEF Bad
  <2>6. f[k] \in SUBSET (Y \X Nat) /\ Round(arcs, f[k], Relaxed(arcs, f[k]))
    BY <1>1, RelaxedFacts
  <2>7. PICK q \in f[k] : \E arc \in arcs : arc[1] = q[1] /\ x = <<arc[3], q[2] + arc[2]>>
    BY <2>6 DEF Round
  <2>8. PICK arc \in arcs : arc[1] = q[1] /\ x = <<arc[3], q[2] + arc[2]>>
    BY <2>7
  <2>9. /\ q[1] \in Y /\ q[2] \in Nat /\ arc[2] \in Nat
        /\ x[1] = arc[3] /\ x[2] = q[2] + arc[2]
    BY <2>6, <2>8
  <2>10. q[2] <= x[2] /\ x[2] \in Nat
    BY <2>9
  <2>11. CASE k = 0
    <3>1. IsFiniteSet({q[1]}) /\ Cardinality({q[1]}) = 1
      BY FS_Singleton
    <3>2. \A u \in {q[1]} : \E r \in f[k] : r[1] = u /\ r[2] <= x[2]
      BY <2>10
    <3>3. Cardinality({q[1]}) >= k + 1
      BY <2>11, <3>1
    <3>4. {q[1]} \in SUBSET Y
      BY <2>9
    <3>5. QED
      BY <2>4, <3>1, <3>2, <3>3, <3>4
  <2>12. CASE k # 0
    <3>1. PICK j \in 0 .. n : j = k - 1
      BY <2>12
    <3>2. /\ f[k] = Relaxed(arcs, f[j])
          /\ f[j] \in SUBSET (Y \X Nat)
          /\ Round(arcs, f[j], f[k])
      <4>1. k \in 1 .. n
        BY <2>12
      <4>2. f[k] = Relaxed(arcs, f[j]) /\ f[j] \in SUBSET (Y \X Nat)
        BY <1>1, <3>1, <4>1 DEF Rounds
      <4>3. QED
        BY <4>2, RelaxedFacts
    <3>3. q \notin f[j]
      <4> SUFFICES ASSUME q \in f[j] PROVE FALSE
        OBVIOUS
      <4>1. PICK r \in f[k] : r[1] = arc[3] /\ r[2] <= q[2] + arc[2]
        BY <2>8, <3>2 DEF Round
      <4>2. x[2] <= r[2]
        BY <2>6, <2>9, <4>1 DEF Round
      <4>3. r = <<r[1], r[2]>> /\ r[2] \in Nat
        BY <2>6
      <4>4. r[2] = q[2] + arc[2]
        BY <2>9, <2>10, <4>1, <4>2, <4>3
      <4>5. r = x
        BY <2>8, <4>1, <4>3, <4>4
      <4>6. QED
        BY <4>5
    <3>4. Wide(j, q)
      BY <2>5, <3>1, <3>2, <3>3
    <3>5. PICK U \in SUBSET Y :
             /\ IsFiniteSet(U) /\ Cardinality(U) >= j + 1
             /\ \A u \in U : \E r \in f[j] : r[1] = u /\ r[2] <= q[2]
      BY <3>4
    <3>6. q[1] \notin U
      <4> SUFFICES ASSUME q[1] \in U PROVE FALSE
        OBVIOUS
      <4>1. PICK r \in f[j] : r[1] = q[1] /\ r[2] <= q[2]
        BY <3>5
      <4>2. q[2] <= r[2]
        BY <3>2, <4>1 DEF Round
      <4>3. r = <<r[1], r[2]>> /\ r[2] \in Nat
        BY <3>2
      <4>4. q = <<q[1], q[2]>>
        BY <2>6
      <4>5. r[2] = q[2]
        BY <2>9, <4>1, <4>2, <4>3
      <4>6. r = q
        BY <4>1, <4>3, <4>4, <4>5
      <4>7. QED
        BY <3>3, <4>6
    <3>7. PICK V : V = U \cup {q[1]}
      OBVIOUS
    <3>8. IsFiniteSet(V) /\ Cardinality(V) = Cardinality(U) + 1
      BY <3>5, <3>6, <3>7, FS_AddElement
    <3>9. Cardinality(U) \in Nat
      BY <3>5, FS_CardinalityType
    <3>10. Cardinality(V) >= k + 1
      BY <3>1, <3>5, <3>8, <3>9
    <3>11. ASSUME NEW u \in V PROVE \E r \in f[k] : r[1] = u /\ r[2] <= x[2]
      <4>1. CASE u = q[1]
        BY <2>10, <4>1
      <4>2. CASE u # q[1]
        <5>1. PICK r \in f[j] : r[1] = u /\ r[2] <= q[2]
          BY <3>5, <3>7, <4>2
        <5>2. PICK z \in f[k] : z[1] = r[1] /\ z[2] <= r[2]
          BY <3>2 DEF Round
        <5>3. z[2] \in Nat /\ r[2] \in Nat
          BY <2>6, <3>2
        <5>4. QED
          BY <2>9, <2>10, <5>1, <5>2, <5>3
      <4>3. QED
        BY <4>1, <4>2
    <3>12. V \in SUBSET Y
      BY <2>9, <3>7
    <3>13. QED
      BY <2>4, <3>8, <3>10, <3>11, <3>12
  <2>13. QED
    BY <2>11, <2>12
<1>3. Wide(m, p)
  BY <1>2
<1>4. QED
  BY <1>3

\* After as many rounds as there are abstract states nothing is new.
LEMMA RoundsEnd ==
    ASSUME NEW Y, IsFiniteSet(Y), NEW arcs \in SUBSET (Y \X Nat \X Y),
           NEW n \in Nat, Cardinality(Y) <= n,
           NEW f, Rounds(f, n, Y, arcs)
    PROVE  Relaxed(arcs, f[n]) \subseteq f[n]
<1> SUFFICES ASSUME NEW p \in Relaxed(arcs, f[n]) \ f[n] PROVE FALSE
  OBVIOUS
<1>1. n \in 0 .. n
  OBVIOUS
<1>2. PICK U \in SUBSET Y : IsFiniteSet(U) /\ Cardinality(U) >= n + 1
  BY <1>1, NewIsFar
<1>3. Cardinality(U) <= Cardinality(Y)
  BY FS_Subset
<1>4. Cardinality(U) \in Nat /\ Cardinality(Y) \in Nat
  BY <1>2, FS_CardinalityType
<1>5. QED
  BY <1>2, <1>3, <1>4

\* The recursive function of AbstractDistance,
RoundsFrom(n, arcs, base) ==
    CHOOSE g : g = [k \in 0 .. n |-> IF k = 0 THEN base ELSE Relaxed(arcs, g[k - 1])]

\* ... which lists the rounds.
LEMMA RoundsExist ==
    ASSUME NEW Y, NEW arcs \in SUBSET (Y \X Nat \X Y), NEW base \in SUBSET (Y \X Nat),
           NEW n \in Nat,
           NEW near, near = RoundsFrom(n, arcs, base)
    PROVE  Rounds(near, n, Y, arcs) /\ near[0] = base
<1> DEFINE V == SUBSET (Y \X Nat)
           ops == [k \in 1 .. n |-> 1]
           Do == [i \in {1} |-> [S \in V |-> Relaxed(arcs, S)]]
           Eqn(g) == g = [k \in 0 .. n |-> IF k = 0 THEN base ELSE Relaxed(arcs, g[k - 1])]
<1>1. \A S \in V : Relaxed(arcs, S) \in V
  BY RelaxedFacts
<1>2. Do \in [{1} -> [V -> V]]
  BY <1>1
<1>3. ops \in Seq({1}) /\ Len(ops) = n /\ \A k \in 1 .. n : ops[k] = 1
  OBVIOUS
<1>4. \A S \in V : Do[1][S] = Relaxed(arcs, S)
  OBVIOUS
<1> HIDE DEF V, ops, Do
<1>5. base \in V
  BY DEF V
<1>6. PICK f : Chain(f, V, Do, base, ops)
  BY <1>2, <1>3, <1>5, ChainExists
<1>7. f \in [0 .. n -> V] /\ f[0] = base /\ \A k \in 1 .. n : f[k] = Relaxed(arcs, f[k - 1])
  <2>1. /\ f \in [0 .. n -> V] /\ f[0] = base
        /\ \A k \in 1 .. n : f[k] = Do[1][f[k - 1]]
    BY <1>3, <1>6 DEF Chain
  <2>2. \A k \in 1 .. n : f[k - 1] \in V
    BY <2>1
  <2>3. QED
    BY <1>4, <2>1, <2>2
<1>8. Eqn(f)
  <2>1. \A k \in 0 .. n : f[k] = IF k = 0 THEN base ELSE Relaxed(arcs, f[k - 1])
    BY <1>7
  <2>2. f = [k \in 0 .. n |-> f[k]]
    BY <1>7
  <2>3. QED
    BY <2>1, <2>2
<1>9. Eqn(near)
  BY <1>8 DEF RoundsFrom
<1>10. /\ near[0] = base
       /\ \A k \in 1 .. n : near[k] = Relaxed(arcs, near[k - 1])
       /\ near = [k \in 0 .. n |-> near[k]]
  BY <1>9
<1>11. \A k \in 0 .. n : near[k] \in V
  <2> DEFINE Bad == {k \in 0 .. n : near[k] \notin V}
  <2> SUFFICES ASSUME Bad # {} PROVE FALSE
    OBVIOUS
  <2>1. Bad \in SUBSET Nat
    OBVIOUS
  <2>2. PICK k \in Bad : \A j \in Bad : k <= j
    <3> HIDE DEF Bad
    <3>1. Least(Bad) \in Bad /\ \A j \in Bad : Least(Bad) <= j
      BY <2>1, NatHasLeast
    <3>2. QED
      BY <3>1
  <2>3. k # 0
    BY <1>5, <1>10
  <2>4. near[k - 1] \in V
    BY <2>2, <2>3
  <2>5. near[k] = Relaxed(arcs, near[k - 1])
    <3>1. k \in 1 .. n
      BY <2>3
    <3>2. QED
      BY <1>10, <3>1
  <2>6. QED
    BY <1>1, <2>4, <2>5
<1>12. near \in [0 .. n -> V]
  BY <1>10, <1>11
<1>13. QED
  BY <1>10, <1>12 DEF Rounds, V

\* The arcs of an abstraction lead from abstract states to abstract states.
LEMMA ArcsFacts ==
    ASSUME NEW t, IsTask(t), NEW a, NEW d \in Dir
    PROVE  /\ Arcs(t, a, d) \in SUBSET ({a[s] : s \in State} \X Nat \X {a[s] : s \in State})
           /\ \A c \in DOMAIN t.ops : \A x, y \in State :
                 Edge(t, d, c, x, y) => <<a[x], c, a[y]>> \in Arcs(t, a, d)
<1> DEFINE Y == {a[s] : s \in State}
<1>1. \A c \in DOMAIN t.ops : c \in Nat /\ \A e \in t.ops[c] : e[1] \in State /\ e[2] \in State
  BY MinTransitionCostFacts DEF IsTask
<1>2. ASSUME NEW x \in Arcs(t, a, d) PROVE x \in Y \X Nat \X Y
  <2>1. PICK c \in DOMAIN t.ops : \E e \in t.ops[c] :
           x = IF d = "fw" THEN <<a[e[1]], c, a[e[2]]>> ELSE <<a[e[2]], c, a[e[1]]>>
    BY <1>2 DEF Arcs
  <2>2. PICK e \in t.ops[c] :
           x = IF d = "fw" THEN <<a[e[1]], c, a[e[2]]>> ELSE <<a[e[2]], c, a[e[1]]>>
    BY <2>1
  <2>3. a[e[1]] \in Y /\ a[e[2]] \in Y /\ c \in Nat
    BY <1>1
  <2> HIDE DEF Y
  <2>4. QED
    BY <2>2, <2>3
<1>3. ASSUME NEW c \in DOMAIN t.ops, NEW x \in State, NEW y \in State, Edge(t, d, c, x, y)
      PROVE  <<a[x], c, a[y]>> \in Arcs(t, a, d)
  <2>1. CASE d = "fw"
    <3>1. <<x, y>> \in t.ops[c]
      BY <1>3, <2>1 DEF Edge
    <3>2. QED
      BY <2>1, <3>1 DEF Arcs
  <2>2. CASE d # "fw"
    <3>1. <<y, x>> \in t.ops[c]
      BY <1>3, <2>2 DEF Edge
    <3>2. QED
      BY <2>2, <3>1 DEF Arcs
  <2>3. QED
    BY <2>1, <2>2
<1>4. QED
  BY <1>2, <1>3

\* The distances in an abstraction are consistent, for every abstraction: when
\* the rounds end, no arc leads to anything cheaper.
LEMMA AbstractDistanceIsConsistent ==
    ASSUME NEW t, IsTask(t), NEW a, NEW d \in Dir
    PROVE  /\ IsConsistent(t, d, AbstractDistance(t, a, d))
           /\ \A x, y \in State : a[x] = a[y] =>
                 AbstractDistance(t, a, d)[x] = AbstractDistance(t, a, d)[y]
<1> DEFINE Y == {a[s] : s \in State}
           n == Cardinality(State)
           base == {<<a[s], 0>> : s \in Source(t, d)}
<1>1. PICK arcs : arcs = Arcs(t, a, d)
  OBVIOUS
<1>2. PICK near : near = RoundsFrom(n, arcs, base)
  OBVIOUS
<1> DEFINE v == [s \in State |-> Least({INT_MAX} \cup {p[2] : p \in {q \in near[n] : q[1] = a[s]}})]
<1>3. AbstractDistance(t, a, d) = v
  BY <1>1, <1>2 DEF AbstractDistance, RoundsFrom
<1>4. arcs \in SUBSET (Y \X Nat \X Y)
  BY <1>1, ArcsFacts
<1>5. n \in Nat
  BY StatesAssumption, FS_CardinalityType
<1>6. IsFiniteSet(Y) /\ Cardinality(Y) <= n
  <2>1. [s \in State |-> a[s]] \in Surjection(State, Y)
    BY DEF Surjection
  <2>2. QED
    BY <2>1, StatesAssumption, FS_Surjection
<1>7. base \in SUBSET (Y \X Nat)
  BY DistanceFacts DEF IsTask, Source
<1> HIDE DEF Y, n, base
<1>8. Rounds(near, n, Y, arcs) /\ near[0] = base
  BY <1>2, <1>4, <1>5, <1>7, RoundsExist
<1>9. Relaxed(arcs, near[n]) \subseteq near[n]
  BY <1>4, <1>5, <1>6, <1>8, RoundsEnd
<1>10. /\ near[n] \in SUBSET (Y \X Nat)
       /\ Round(arcs, near[n], Relaxed(arcs, near[n]))
  <2>1. near[n] \in SUBSET (Y \X Nat)
    BY <1>5, <1>8 DEF Rounds
  <2>2. QED
    BY <1>4, <2>1, RelaxedFacts
<1>11. ASSUME NEW k \in 0 .. n, NEW s \in Source(t, d)
       PROVE  \E p \in near[k] : p[1] = a[s] /\ p[2] = 0
  <2> DEFINE Bad == {j \in 0 .. n : ~ \E p \in near[j] : p[1] = a[s] /\ p[2] = 0}
  <2> SUFFICES ASSUME Bad # {} PROVE FALSE
    OBVIOUS
  <2>1. Bad \in SUBSET Nat
    BY <1>5
  <2>2. PICK j \in Bad : \A i \in Bad : j <= i
    <3> HIDE DEF Bad
    <3>1. Least(Bad) \in Bad /\ \A i \in Bad : Least(Bad) <= i
      BY <2>1, NatHasLeast
    <3>2. QED
      BY <3>1
  <2>3. j # 0
    <3>1. <<a[s], 0>> \in near[0]
      BY <1>8 DEF base
    <3>2. QED
      BY <3>1
  <2>4. PICK i \in 0 .. n : i = j - 1 /\ j \in 1 .. n
    BY <1>5, <2>2, <2>3
  <2>5. PICK p \in near[i] : p[1] = a[s] /\ p[2] = 0
    BY <2>2, <2>4
  <2>6. near[i] \in SUBSET (Y \X Nat) /\ near[j] \in SUBSET (Y \X Nat)
    BY <1>8, <2>4 DEF Rounds
  <2>7. near[j] = Relaxed(arcs, near[i])
    BY <1>8, <2>4 DEF Rounds
  <2>8. Round(arcs, near[i], near[j])
    BY <1>4, <2>6, <2>7, RelaxedFacts
  <2>9. PICK q \in near[j] : q[1] = p[1] /\ q[2] <= p[2]
    BY <2>5, <2>8 DEF Round
  <2>10. q[2] = 0
    BY <2>5, <2>6, <2>9
  <2>11. QED
    BY <2>2, <2>5, <2>9, <2>10
<1>12. PICK last : last = near[n]
  OBVIOUS
<1>13. /\ last \in SUBSET (Y \X Nat)
       /\ \A s \in Source(t, d) : \E p \in last : p[1] = a[s] /\ p[2] = 0
       /\ \A p \in last : \A arc \in arcs : arc[1] = p[1] =>
             \E q \in last : q[1] = arc[3] /\ q[2] <= p[2] + arc[2]
  <2>1. \A p \in last : \A arc \in arcs : arc[1] = p[1] =>
           \E q \in last : q[1] = arc[3] /\ q[2] <= p[2] + arc[2]
    BY <1>9, <1>10, <1>12 DEF Round
  <2>2. QED
    BY <1>5, <1>10, <1>11, <1>12, <2>1
<1> DEFINE Costs(s) == {INT_MAX} \cup {p[2] : p \in {q \in last : q[1] = a[s]}}
<1>14. v = [s \in State |-> Least(Costs(s))]
  BY <1>12
<1> HIDE DEF v
<1>15. \A s \in State : /\ Costs(s) \in SUBSET Nat /\ INT_MAX \in Costs(s)
                        /\ \A p \in last : p[1] = a[s] => p[2] \in Costs(s)
                        /\ \A k \in Costs(s) : k = INT_MAX \/ \E p \in last : p[1] = a[s] /\ p[2] = k
  BY <1>13, IntMaxAssumption
<1> HIDE DEF Costs
<1>16. \A s \in State : v[s] \in Costs(s) /\ \A k \in Costs(s) : v[s] <= k
  <2> TAKE s \in State
  <2>1. PICK S : S = Costs(s)
    OBVIOUS
  <2>2. S \in SUBSET Nat /\ S # {}
    BY <1>15, <2>1
  <2>3. Least(S) \in S /\ \A k \in S : Least(S) <= k
    BY <2>2, NatHasLeast
  <2>4. QED
    BY <1>14, <2>1, <2>3
<1>17. \A s \in State : v[s] \in Nat /\ v[s] <= INT_MAX
  BY <1>15, <1>16
<1>18. v \in [State -> Level]
  BY <1>14, <1>17, IntMaxAssumption DEF Level
<1>19. \A s \in Source(t, d) : v[s] = 0
  <2> TAKE s \in Source(t, d)
  <2>1. s \in State
    BY DEF IsTask, Source
  <2>2. 0 \in Costs(s)
    BY <1>13, <1>15, <2>1
  <2>3. QED
    BY <1>16, <1>17, <2>1, <2>2
<1>20. ASSUME NEW c \in DOMAIN t.ops, NEW x \in State, NEW y \in State, Edge(t, d, c, x, y)
       PROVE  v[y] <= v[x] + c
  <2>1. c \in Nat /\ v[x] \in Nat /\ v[y] \in Nat /\ v[y] <= INT_MAX
    BY <1>17, MinTransitionCostFacts
  <2>2. CASE v[x] = INT_MAX
    BY <2>1, <2>2, IntMaxAssumption
  <2>3. CASE v[x] # INT_MAX
    <3>1. PICK p \in last : p[1] = a[x] /\ p[2] = v[x]
      BY <1>15, <1>16, <2>3
    <3>2. PICK arc \in arcs : arc = <<a[x], c, a[y]>>
      BY <1>1, <1>20, ArcsFacts
    <3>3. PICK q \in last : q[1] = arc[3] /\ q[2] <= p[2] + arc[2]
      BY <1>13, <3>1, <3>2
    <3>4. q[2] \in Costs(y) /\ q[2] \in Nat
      BY <1>13, <1>15, <3>2, <3>3
    <3>5. v[y] <= q[2]
      BY <1>16, <3>4
    <3>6. QED
      BY <2>1, <3>1, <3>2, <3>3, <3>4, <3>5
  <2>4. QED
    BY <2>2, <2>3
<1>21. \A x, y \in State : a[x] = a[y] => v[x] = v[y]
  BY <1>14 DEF Costs
<1>22. IsConsistent(t, d, v)
  BY <1>18, <1>19, <1>20 DEF IsConsistent
<1>23. QED
  BY <1>3, <1>21, <1>22
=============================================================================
