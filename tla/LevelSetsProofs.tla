-------------------------- MODULE LevelSetsProofs --------------------------
(***************************************************************************)
(* Proofs about LevelSets: for every task, every domain of its variables   *)
(* and all values of the options, level sets that are used are a           *)
(* consistent heuristic.                                                   *)
(***************************************************************************)
EXTENDS LevelSets, SymbolicTaskLemmas

-----------------------------------------------------------------------------
(* States and maps of states *)

\* Variables are numbered from 1 on, and every state has a value for each.
LEMMA FactFacts ==
    /\ Len(Domain) \in Nat /\ Len(Domain) >= 1
    /\ Var = 1 .. Len(Domain)
    /\ \A v \in Var : Domain[v] \in Nat /\ Domain[v] >= 1 /\ 0 \in ValuesOf(v)
    /\ \A s \in State : \A v \in Var : s[v] \in ValuesOf(v)
    /\ \A s \in State : \A v \in Var : \A i \in ValuesOf(v) :
          /\ [s EXCEPT ![v] = i] \in State
          /\ [s EXCEPT ![v] = i][v] = i
          /\ \A w \in Var \ {v} : [s EXCEPT ![v] = i][w] = s[w]
<1>1. Domain \in Seq(Nat \ {0}) /\ Domain # <<>>
  BY FactsAssumption
<1>2. /\ Len(Domain) \in Nat /\ Len(Domain) >= 1
      /\ DOMAIN Domain = 1 .. Len(Domain)
      /\ \A v \in 1 .. Len(Domain) : Domain[v] \in Nat \ {0}
  BY <1>1
<1>3. \A v \in Var : Domain[v] \in Nat /\ Domain[v] >= 1 /\ 0 \in ValuesOf(v)
  BY <1>2 DEF Var, ValuesOf
<1>4. QED
  BY <1>2, <1>3, FactsAssumption DEF Var

\* A task has a state.
LEMMA StatesExist ==
    ASSUME NEW t \in Tasks
    PROVE  /\ IsTask(t) /\ t.init \in State
           /\ \A d \in Dir : Source(t, d) \subseteq State
BY TasksAssumption DEF IsTask, Source, Dir

\* A map has nonempty sets of states.
IsStateMap(map) == \A id \in DOMAIN map : map[id] \in (SUBSET State) \ {{}}

\* The sets of a map contain with a state the states with any other value of v.
IsFree(map, v) ==
    \A id \in DOMAIN map : \A s \in map[id] : \A i \in ValuesOf(v) :
        [s EXCEPT ![v] = i] \in map[id]

\* The sets of a map are those of the states that a maps to the same.
Agrees(map, a) ==
    \A s \in State : {id \in DOMAIN map : s \in map[id]} = {a[s]}

\* The map of a leaf has a nonempty set for each value that its table has, and
\* depends on no other variable.
LEMMA LeafMapFacts ==
    ASSUME NEW t \in Tasks, NEW v \in Var, NEW table, DOMAIN table = ValuesOf(v)
    PROVE  /\ IsStateMap(LeafMap(v, table))
           /\ \A w \in Var \ {v} : IsFree(LeafMap(v, table), w)
           /\ Agrees(LeafMap(v, table), [s \in State |-> table[s[v]]])
<1> DEFINE map == LeafMap(v, table)
<1>1. /\ DOMAIN map = {table[i] : i \in ValuesOf(v)}
      /\ \A id \in DOMAIN map : map[id] = {s \in State : table[s[v]] = id}
  BY DEF LeafMap
<1>2. ASSUME NEW id \in DOMAIN map PROVE map[id] \in (SUBSET State) \ {{}}
  <2>1. PICK i \in ValuesOf(v) : table[i] = id
    BY <1>1
  <2>2. PICK s : s = [t.init EXCEPT ![v] = i]
    OBVIOUS
  <2>3. s \in State /\ s[v] = i
    BY <2>2, FactFacts, StatesExist
  <2>4. s \in map[id]
    BY <1>1, <2>1, <2>3
  <2>5. QED
    BY <1>1, <2>4
<1>3. ASSUME NEW w \in Var \ {v}, NEW id \in DOMAIN map, NEW s \in map[id], NEW i \in ValuesOf(w)
      PROVE  [s EXCEPT ![w] = i] \in map[id]
  <2>1. s \in State /\ table[s[v]] = id
    BY <1>1
  <2>2. [s EXCEPT ![w] = i] \in State /\ [s EXCEPT ![w] = i][v] = s[v]
    BY <2>1, FactFacts
  <2>3. QED
    BY <1>1, <2>1, <2>2
<1>4. ASSUME NEW s \in State
      PROVE  {id \in DOMAIN map : s \in map[id]} = {table[s[v]]}
  <2>1. s[v] \in ValuesOf(v)
    BY FactFacts
  <2>2. QED
    BY <1>1, <2>1
<1> HIDE DEF map
<1>5. /\ IsStateMap(map) /\ \A w \in Var \ {v} : IsFree(map, w)
      /\ Agrees(map, [s \in State |-> table[s[v]]])
  BY <1>2, <1>3, <1>4 DEF IsStateMap, IsFree, Agrees
<1>6. QED
  BY <1>5 DEF map

\* A merged set holds the states that are in both sets of one of its pairs.
IsMerge(map, left, right, table, done) ==
    /\ \A id : id \in DOMAIN map <=>
          \E i \in done, j \in DOMAIN right : table[<<i, j>>] = id
    /\ \A id \in DOMAIN map : \A s : s \in map[id] <=>
          \E i \in done, j \in DOMAIN right :
             table[<<i, j>>] = id /\ s \in left[i] /\ s \in right[j]

\* MergeMaps merges.
LEMMA MergeMapsFacts ==
    ASSUME NEW left, NEW right, NEW table, NEW done
    PROVE  IsMerge(MergeMaps(left, right, table, done), left, right, table, done)
<1>0. PICK map : map = MergeMaps(left, right, table, done)
  OBVIOUS
<1>1. DOMAIN map = {table[p] : p \in done \X DOMAIN right}
  BY <1>0 DEF MergeMaps
<1>2. ASSUME NEW id \in DOMAIN map
      PROVE  map[id] = UNION {left[p[1]] \cap right[p[2]] :
                              p \in {q \in done \X DOMAIN right : table[q] = id}}
  BY <1>0, <1>1 DEF MergeMaps
<1>3. ASSUME NEW id
      PROVE  id \in DOMAIN map <=> \E i \in done, j \in DOMAIN right : table[<<i, j>>] = id
  <2>1. ASSUME id \in DOMAIN map
        PROVE  \E i \in done, j \in DOMAIN right : table[<<i, j>>] = id
    <3>1. PICK p \in done \X DOMAIN right : table[p] = id
      BY <1>1, <2>1
    <3>2. p = <<p[1], p[2]>> /\ p[1] \in done /\ p[2] \in DOMAIN right
      OBVIOUS
    <3>3. QED
      BY <3>1, <3>2
  <2>2. ASSUME NEW i \in done, NEW j \in DOMAIN right, table[<<i, j>>] = id
        PROVE  id \in DOMAIN map
    BY <1>1, <2>2
  <2>3. QED
    BY <2>1, <2>2
<1>4. ASSUME NEW id \in DOMAIN map, NEW s
      PROVE  s \in map[id] <=> \E i \in done, j \in DOMAIN right :
                 table[<<i, j>>] = id /\ s \in left[i] /\ s \in right[j]
  <2>1. ASSUME s \in map[id]
        PROVE  \E i \in done, j \in DOMAIN right :
                   table[<<i, j>>] = id /\ s \in left[i] /\ s \in right[j]
    <3>1. PICK p \in done \X DOMAIN right : table[p] = id /\ s \in left[p[1]] \cap right[p[2]]
      BY <1>2, <2>1
    <3>2. p = <<p[1], p[2]>> /\ p[1] \in done /\ p[2] \in DOMAIN right
      OBVIOUS
    <3>3. QED
      BY <3>1, <3>2
  <2>2. ASSUME NEW i \in done, NEW j \in DOMAIN right,
               table[<<i, j>>] = id, s \in left[i], s \in right[j]
        PROVE  s \in map[id]
    <3>1. PICK p : p = <<i, j>>
      OBVIOUS
    <3>2. p \in done \X DOMAIN right /\ table[p] = id /\ s \in left[p[1]] \cap right[p[2]]
      BY <2>2, <3>1
    <3>3. QED
      BY <1>2, <3>2
  <2>3. QED
    BY <2>1, <2>2
<1>5. QED
  BY <1>0, <1>3, <1>4 DEF IsMerge

\* Merging keeps the sets nonempty and independent of the variables to come.
LEMMA MergedIsFree ==
    ASSUME NEW t \in Tasks, NEW v \in Var, NEW leaf, DOMAIN leaf = ValuesOf(v),
           NEW left, IsStateMap(left), IsFree(left, v), NEW table,
           NEW done, done \subseteq DOMAIN left
    PROVE  /\ IsStateMap(MergeMaps(left, LeafMap(v, leaf), table, done))
           /\ \A w \in Var \ {v} : IsFree(left, w) =>
                 IsFree(MergeMaps(left, LeafMap(v, leaf), table, done), w)
<1>1. PICK right : right = LeafMap(v, leaf)
  OBVIOUS
<1>2. PICK map : map = MergeMaps(left, right, table, done)
  OBVIOUS
<1>2a. IsMerge(map, left, right, table, done)
  BY <1>2, MergeMapsFacts
<1>3. /\ \A id : id \in DOMAIN map <=>
            \E i \in done, j \in DOMAIN right : table[<<i, j>>] = id
      /\ \A id \in DOMAIN map : \A s : s \in map[id] <=>
            \E i \in done, j \in DOMAIN right :
               table[<<i, j>>] = id /\ s \in left[i] /\ s \in right[j]
  BY <1>2a DEF IsMerge
<1>4. /\ DOMAIN right = {leaf[i] : i \in ValuesOf(v)}
      /\ \A id \in DOMAIN right : right[id] = {s \in State : leaf[s[v]] = id}
  BY <1>1 DEF LeafMap
<1>5. \A w \in Var \ {v} : IsFree(right, w)
  BY <1>1, LeafMapFacts
<1>6. ASSUME NEW id \in DOMAIN map PROVE map[id] \in (SUBSET State) \ {{}}
  <2>1. PICK i \in done, j \in DOMAIN right : table[<<i, j>>] = id
    BY <1>3
  <2>2. PICK s \in left[i] : s \in State
    <3>1. i \in DOMAIN left
      OBVIOUS
    <3>2. left[i] \in (SUBSET State) \ {{}}
      BY <3>1 DEF IsStateMap
    <3>3. QED
      BY <3>2
  <2>3. PICK x \in ValuesOf(v) : leaf[x] = j
    BY <1>4
  <2>4. PICK y : y = [s EXCEPT ![v] = x]
    OBVIOUS
  <2>5. y \in State /\ y[v] = x
    <3>1. s \in State
      BY <2>2
    <3>2. \A q \in State : \A z \in ValuesOf(v) :
              [q EXCEPT ![v] = z] \in State /\ [q EXCEPT ![v] = z][v] = z
      BY FactFacts
    <3>3. [s EXCEPT ![v] = x] \in State /\ [s EXCEPT ![v] = x][v] = x
      BY <3>1, <3>2, Zenon
    <3>4. QED
      BY <2>4, <3>3, Zenon
  <2>6. y \in left[i] /\ y \in right[j]
    BY <1>4, <2>2, <2>3, <2>4, <2>5 DEF IsFree
  <2>7. y \in map[id]
    BY <1>3, <2>1, <2>6
  <2>8. ASSUME NEW z \in map[id] PROVE z \in State
    <3>1. PICK k \in done, l \in DOMAIN right :
              table[<<k, l>>] = id /\ z \in left[k] /\ z \in right[l]
      BY <1>3
    <3>2. QED
      BY <1>4, <3>1
  <2>9. QED
    BY <2>7, <2>8
<1>7. ASSUME NEW w \in Var \ {v}, IsFree(left, w) PROVE IsFree(map, w)
  <2>1. ASSUME NEW id \in DOMAIN map, NEW s \in map[id], NEW x \in ValuesOf(w)
        PROVE  [s EXCEPT ![w] = x] \in map[id]
    <3>1. PICK i \in done, j \in DOMAIN right :
              table[<<i, j>>] = id /\ s \in left[i] /\ s \in right[j]
      BY <1>3
    <3>2. PICK y : y = [s EXCEPT ![w] = x]
      OBVIOUS
    <3>3. y \in left[i] /\ y \in right[j]
      BY <1>5, <1>7, <3>1, <3>2 DEF IsFree
    <3>4. QED
      BY <1>3, <3>1, <3>2, <3>3
  <2>2. QED
    BY <2>1 DEF IsFree
<1>8. QED
  BY <1>1, <1>2, <1>6, <1>7 DEF IsStateMap

\* The whole merge of maps that agree with two lookups agrees with theirs.
LEMMA MergedAgrees ==
    ASSUME NEW left, NEW right, NEW a, NEW b, Agrees(left, a), Agrees(right, b), NEW table
    PROVE  Agrees(MergeMaps(left, right, table, DOMAIN left),
                  [s \in State |-> table[<<a[s], b[s]>>]])
<1>2. PICK map : map = MergeMaps(left, right, table, DOMAIN left)
  OBVIOUS
<1>2a. IsMerge(map, left, right, table, DOMAIN left)
  BY <1>2, MergeMapsFacts
<1>3. /\ \A id : id \in DOMAIN map <=>
            \E i \in DOMAIN left, j \in DOMAIN right : table[<<i, j>>] = id
      /\ \A id \in DOMAIN map : \A s : s \in map[id] <=>
            \E i \in DOMAIN left, j \in DOMAIN right :
               table[<<i, j>>] = id /\ s \in left[i] /\ s \in right[j]
  BY <1>2a DEF IsMerge
<1>4. ASSUME NEW s \in State
      PROVE  {id \in DOMAIN map : s \in map[id]} = {table[<<a[s], b[s]>>]}
  <2>1. /\ a[s] \in DOMAIN left /\ s \in left[a[s]]
        /\ \A i \in DOMAIN left : s \in left[i] => i = a[s]
    BY DEF Agrees
  <2>2. /\ b[s] \in DOMAIN right /\ s \in right[b[s]]
        /\ \A j \in DOMAIN right : s \in right[j] => j = b[s]
    BY DEF Agrees
  <2>3. PICK i \in DOMAIN left, j \in DOMAIN right : i = a[s] /\ j = b[s]
    BY <2>1, <2>2
  <2>4. table[<<i, j>>] \in DOMAIN map /\ s \in map[table[<<i, j>>]]
    <3>1. table[<<i, j>>] \in DOMAIN map
      BY <1>3
    <3>2. QED
      BY <1>3, <2>1, <2>2, <2>3, <3>1
  <2>5. ASSUME NEW id \in DOMAIN map, s \in map[id] PROVE id = table[<<i, j>>]
    <3>1. PICK k \in DOMAIN left, l \in DOMAIN right :
              table[<<k, l>>] = id /\ s \in left[k] /\ s \in right[l]
      BY <1>3, <2>5
    <3>2. k = i /\ l = j
      BY <2>1, <2>2, <2>3, <3>1
    <3>3. QED
      BY <3>1, <3>2
  <2>6. {id \in DOMAIN map : s \in map[id]} = {table[<<i, j>>]}
    BY <2>4, <2>5
  <2>7. QED
    BY <2>3, <2>6
<1>5. QED
  BY <1>2, <1>4 DEF Agrees
-----------------------------------------------------------------------------
(* Level sets and the values they stand for *)

\* L has the states of each value of f.
IsLevels(L, f) ==
    /\ DOMAIN L = {f[s] : s \in State}
    /\ \A x \in DOMAIN L : L[x] = {s \in State : f[s] = x}

\* f can guide direction d: it is 0 where the direction ends, INT_MAX for dead
\* ends, and consistent.
IsHeuristic(t, d, f) ==
    /\ f \in [State -> Level]
    /\ \A s \in Source(t, Opposite(d)) : f[s] = 0
    /\ \A c \in DOMAIN t.ops : \A x, y \in State :
          Edge(t, d, c, x, y) /\ f[y] # INT_MAX => f[x] <= c + f[y]

\* GroupBy makes the level sets of the value that each state has by its lookup.
LEMMA GroupByFacts ==
    ASSUME NEW map, IsStateMap(map), NEW a, Agrees(map, a), NEW value,
           NEW f, f = [s \in State |-> value[a[s]]]
    PROVE  IsLevels(GroupBy(map, value), f)
<1> DEFINE L == GroupBy(map, value)
<1>1. /\ DOMAIN L = {value[id] : id \in DOMAIN map}
      /\ \A x \in DOMAIN L : L[x] = UNION {map[id] : id \in {i \in DOMAIN map : value[i] = x}}
  BY DEF GroupBy
<1>2. ASSUME NEW s \in State
      PROVE  /\ a[s] \in DOMAIN map /\ s \in map[a[s]]
             /\ \A id \in DOMAIN map : s \in map[id] => id = a[s]
  BY DEF Agrees
<1>3. ASSUME NEW id \in DOMAIN map PROVE \E s \in State : s \in map[id] /\ a[s] = id
  <2>1. map[id] \in (SUBSET State) \ {{}}
    BY DEF IsStateMap
  <2>2. QED
    BY <1>2, <2>1
<1>4. DOMAIN L = {f[s] : s \in State}
  <2>1. ASSUME NEW x \in DOMAIN L PROVE \E s \in State : f[s] = x
    <3>1. PICK id \in DOMAIN map : value[id] = x
      BY <1>1
    <3>2. QED
      BY <1>3, <3>1
  <2>2. ASSUME NEW s \in State PROVE f[s] \in DOMAIN L
    BY <1>1, <1>2
  <2>3. QED
    BY <2>1, <2>2
<1>5. ASSUME NEW x \in DOMAIN L PROVE L[x] = {s \in State : f[s] = x}
  <2>1. ASSUME NEW s \in L[x] PROVE s \in State /\ f[s] = x
    <3>1. PICK id \in DOMAIN map : value[id] = x /\ s \in map[id]
      BY <1>1
    <3>2. s \in State
      BY <3>1 DEF IsStateMap
    <3>3. QED
      BY <1>2, <3>1, <3>2
  <2>2. ASSUME NEW s \in State, f[s] = x PROVE s \in L[x]
    BY <1>1, <1>2, <2>2
  <2>3. QED
    BY <2>1, <2>2
<1> HIDE DEF L
<1>6. QED
  BY <1>4, <1>5 DEF IsLevels, L

\* The table has for an abstract state the distance of the states it stands for.
LEMMA TableDistanceFacts ==
    ASSUME task \in Tasks, NEW a, NEW d \in Dir, NEW s \in State
    PROVE  /\ DOMAIN TableDistance(a, d) = {a[x] : x \in State}
           /\ TableDistance(a, d)[a[s]] = AbstractDistance(task, a, d)[s]
<1>1. PICK dist : dist = AbstractDistance(task, a, d)
  OBVIOUS
<1>2. \A x, y \in State : a[x] = a[y] => dist[x] = dist[y]
  BY <1>1, StatesExist, AbstractDistanceIsConsistent
<1>3. PICK rep : rep = CHOOSE x \in State : a[x] = a[s]
  OBVIOUS
<1>4. rep \in State /\ a[rep] = a[s]
  BY <1>3
<1>5. DOMAIN TableDistance(a, d) = {a[x] : x \in State}
  BY DEF TableDistance
<1>6. TableDistance(a, d)[a[s]] = dist[CHOOSE x \in State : a[x] = a[s]]
  BY <1>1 DEF TableDistance
<1>7. dist[rep] = dist[s]
  BY <1>2, <1>4
<1>8. QED
  BY <1>1, <1>3, <1>5, <1>6, <1>7

\* The distances of the opposite direction guide a direction.
LEMMA DistancesAreHeuristic ==
    ASSUME NEW t \in Tasks, NEW a, NEW d \in Dir
    PROVE  IsHeuristic(t, d, AbstractDistance(t, a, Opposite(d)))
<1>1. PICK v : v = AbstractDistance(t, a, Opposite(d))
  OBVIOUS
<1>2. Opposite(d) \in Dir /\ IsTask(t)
  BY OppositeFacts, StatesExist
<1>3. IsConsistent(t, Opposite(d), v)
  BY <1>1, <1>2, AbstractDistanceIsConsistent
<1>4. ASSUME NEW c \in DOMAIN t.ops, NEW x \in State, NEW y \in State, Edge(t, d, c, x, y)
      PROVE  v[x] <= c + v[y]
  <2>1. Edge(t, Opposite(d), c, y, x)
    BY <1>4, OppositeFacts
  <2>2. v[x] <= v[y] + c
    BY <1>3, <2>1 DEF IsConsistent
  <2>3. v[y] \in Level /\ c \in Nat
    BY <1>2, <1>3, MinTransitionCostFacts DEF IsConsistent
  <2>4. QED
    BY <2>2, <2>3, IntMaxAssumption DEF Level
<1>5. QED
  BY <1>1, <1>3, <1>4 DEF IsConsistent, IsHeuristic

\* They still do when finite ones are capped, if sums of them fit an int.
LEMMA CappedIsHeuristic ==
    ASSUME task \in Tasks, opt.value_cap \in -1 .. INT_MAX, NEW a, SumsFit(a), NEW d \in Dir,
           NEW f, f = [s \in State |-> Capped(AbstractDistance(task, a, Opposite(d))[s])]
    PROVE  IsHeuristic(task, d, f)
<1>1. PICK v : v = AbstractDistance(task, a, Opposite(d))
  OBVIOUS
<1>2. IsHeuristic(task, d, v)
  BY <1>1, DistancesAreHeuristic
<1>3. v \in [State -> Level] /\ \A s \in Source(task, Opposite(d)) : v[s] = 0
  BY <1>2 DEF IsHeuristic
<1>4. PICK cap \in -1 .. INT_MAX : cap = opt.value_cap
  OBVIOUS
<1>5. f = [s \in State |-> IF v[s] # INT_MAX /\ cap >= 0 THEN LesserOf(v[s], cap) ELSE v[s]]
  BY <1>1, <1>4 DEF Capped
<1>6. f \in [State -> Level]
  BY <1>3, <1>5, IntMaxAssumption DEF Level, LesserOf
<1>7. ASSUME NEW s \in Source(task, Opposite(d)) PROVE f[s] = 0
  <2>1. s \in State
    BY OppositeFacts, StatesExist
  <2>2. QED
    BY <1>3, <1>5, <2>1, IntMaxAssumption DEF LesserOf
<1>8. ASSUME NEW c \in DOMAIN task.ops, NEW x \in State, NEW y \in State,
             Edge(task, d, c, x, y), f[y] # INT_MAX
      PROVE  f[x] <= c + f[y]
  <2>1. c \in Nat /\ v[x] \in Level /\ v[y] \in Level
    BY <1>3, StatesExist, MinTransitionCostFacts
  <2>2. v[y] # INT_MAX
    BY <1>5, <1>8, <2>1
  <2>3. v[x] <= c + v[y]
    BY <1>2, <1>8, <2>2 DEF IsHeuristic
  <2>4. v[y] < INT_MAX => v[y] + c < INT_MAX
    <3>1. Opposite(d) \in Dir
      BY OppositeFacts
    <3>2. QED
      BY <1>1, <3>1 DEF SumsFit
  <2>5. v[x] # INT_MAX
    BY <2>1, <2>2, <2>3, <2>4, IntMaxAssumption DEF Level
  <2>6. QED
    BY <1>5, <2>1, <2>2, <2>3, <2>5, IntMaxAssumption DEF Level, LesserOf
<1>9. QED
  BY <1>6, <1>7, <1>8 DEF IsHeuristic
\* The facts of a task.
Facts == UNION {{v} \X ValuesOf(v) : v \in Var}

\* The recursive function of RawPotential.
SumsFrom(n, potential, s) ==
    CHOOSE sum : sum = [k \in 0 .. n |->
        IF k = 0 THEN 0 ELSE sum[k - 1] + potential[<<k, s[k]>>]]

\* Sums of integers are integers.
LEMMA SumsFacts ==
    ASSUME NEW n \in Nat, NEW potential, NEW s,
           \A k \in 1 .. n : potential[<<k, s[k]>>] \in Int,
           NEW g, g = SumsFrom(n, potential, s)
    PROVE  g[n] \in Int
<1> DEFINE Eqn(h) == h = [k \in 0 .. n |->
                             IF k = 0 THEN 0 ELSE h[k - 1] + potential[<<k, s[k]>>]]
<1>2. PICK term : term = [k \in 1 .. n |-> potential[<<k, s[k]>>]]
  OBVIOUS
<1>3. \A k \in 1 .. n : term[k] = potential[<<k, s[k]>>] /\ term[k] \in Int
  BY <1>2
<1>4. PICK V : V = Int
  OBVIOUS
<1>4a. PICK zero : zero = 0
  OBVIOUS
<1>5. PICK step \in [1 .. n -> [V -> V]] :
          \A k \in 1 .. n : \A x \in V : step[k][x] = x + term[k]
  <2>1. PICK step : step = [k \in 1 .. n |-> [x \in V |-> x + term[k]]]
    OBVIOUS
  <2>2. \A k \in 1 .. n : \A x \in V : x + term[k] \in V
    <3>1. ASSUME NEW k \in 1 .. n, NEW x \in Int PROVE x + term[k] \in Int
      <4>1. term[k] \in Int
        BY <1>3
      <4>2. QED
        BY <4>1
    <3>2. QED
      BY <1>4, <3>1
  <2>3. QED
    BY <2>1, <2>2
<1>6. PICK f : IsRecursion(f, n, V, zero, step)
  <2>1. zero \in V
    BY <1>4, <1>4a
  <2>2. QED
    BY <2>1, RecursionExists
<1>7. f \in [0 .. n -> V] /\ f[0] = zero /\ \A k \in 1 .. n : f[k] = step[k][f[k - 1]]
  BY <1>6 DEF IsRecursion
<1>8. Eqn(f)
  <2>1. ASSUME NEW k \in 1 .. n PROVE f[k] = f[k - 1] + potential[<<k, s[k]>>]
    <3>1. f[k - 1] \in V /\ f[k] = step[k][f[k - 1]]
      BY <1>7
    <3>2. QED
      BY <1>3, <1>5, <3>1
  <2>2. ASSUME NEW k \in 0 .. n
        PROVE  f[k] = IF k = 0 THEN 0 ELSE f[k - 1] + potential[<<k, s[k]>>]
    <3>1. CASE k = 0
      BY <1>4a, <1>7, <3>1
    <3>2. CASE k # 0
      <4>1. k \in 1 .. n
        BY <3>2
      <4>2. QED
        BY <2>1, <3>2, <4>1
    <3>3. QED
      BY <3>1, <3>2
  <2>3. f = [k \in 0 .. n |-> f[k]]
    BY <1>7
  <2>4. QED
    BY <2>2, <2>3
<1>9. Eqn(g)
  BY <1>8 DEF SumsFrom
<1>10. Continues(g, n, V, zero, step)
  <2>1. \A k \in 0 .. n : g[k] = IF k = 0 THEN 0 ELSE g[k - 1] + potential[<<k, s[k]>>]
    BY <1>9
  <2>2. 0 \in 0 .. n
    BY <1>3
  <2>3. g[0] = zero
    BY <1>4a, <2>1, <2>2
  <2>4. ASSUME NEW k \in 1 .. n, g[k - 1] \in V PROVE g[k] = step[k][g[k - 1]]
    <3>1. k \in 0 .. n /\ k # 0
      BY <1>3
    <3>2. g[k] = g[k - 1] + potential[<<k, s[k]>>]
      BY <2>1, <3>1
    <3>3. step[k][g[k - 1]] = g[k - 1] + term[k]
      BY <1>5, <2>4
    <3>4. QED
      BY <1>3, <3>2, <3>3
  <2>5. QED
    BY <2>3, <2>4 DEF Continues
<1>11. SameUpTo(f, g, n)
  BY <1>6, <1>10, RecursionUnique
<1>12. f[n] \in V
  BY <1>7
<1>13. QED
  BY <1>4, <1>11, <1>12 DEF SameUpTo

\* The potential of a state is an integer.
LEMMA RawPotentialFacts ==
    ASSUME NEW potential \in [Facts -> -m .. m], NEW s \in State
    PROVE  RawPotential(potential, s) \in Int
<1>1. PICK n \in Nat : n = Len(Domain)
  BY FactFacts
<1>2. \A k \in 1 .. n : potential[<<k, s[k]>>] \in Int
  <2>1. ASSUME NEW k \in 1 .. n PROVE <<k, s[k]>> \in Facts
    <3>1. k \in Var /\ s[k] \in ValuesOf(k)
      BY <1>1, FactFacts
    <3>2. QED
      BY <3>1 DEF Facts
  <2>2. \A q \in Facts : potential[q] \in Int
    BY OptionsAssumption, IntMaxAssumption
  <2>3. QED
    BY <2>1, <2>2
<1>3. PICK g : g = SumsFrom(n, potential, s)
  OBVIOUS
<1>4. g[n] \in Int
  BY <1>2, <1>3, SumsFacts
<1>5. QED
  BY <1>1, <1>3, <1>4 DEF RawPotential, SumsFrom

\* What meets the constraints of the optimizer guides the forward direction.
LEMMA PotentialIsHeuristic ==
    ASSUME task \in Tasks, NEW potential \in [Facts -> -m .. m], MeetsConstraints(potential),
           \A s \in State : RawPotential(potential, s) <= INT_MAX,
           NEW f, f = [s \in State |-> Rectified(RawPotential(potential, s))]
    PROVE  IsHeuristic(task, "fw", f)
<1>1. PICK raw : raw = [s \in State |-> RawPotential(potential, s)]
  OBVIOUS
<1>2. \A s \in State : raw[s] = RawPotential(potential, s) /\ raw[s] \in Int /\ raw[s] <= INT_MAX
  BY <1>1, RawPotentialFacts
<1>3. \A s \in State : f[s] = IF 0 <= raw[s] THEN raw[s] ELSE 0
  BY <1>2 DEF Rectified, GreaterOf
<1>4. f \in [State -> Level]
  BY <1>2, <1>3, IntMaxAssumption DEF Level
<1>5. ASSUME NEW s \in Source(task, Opposite("fw")) PROVE f[s] = 0
  <2>1. s \in task.goal /\ s \in State
    BY StatesExist DEF Source, Opposite, Dir
  <2>2. raw[s] <= 0
    BY <1>2, <2>1 DEF MeetsConstraints
  <2>3. QED
    BY <1>2, <1>3, <2>1, <2>2
<1>6. ASSUME NEW c \in DOMAIN task.ops, NEW x \in State, NEW y \in State,
             Edge(task, "fw", c, x, y)
      PROVE  f[x] <= c + f[y]
  <2>1. c \in Nat
    BY StatesExist, MinTransitionCostFacts
  <2>2. raw[x] <= c + raw[y]
    <3>1. PICK e \in task.ops[c] : e = <<x, y>>
      BY <1>6 DEF Edge
    <3>2. RawPotential(potential, e[1]) <= c + RawPotential(potential, e[2])
      BY DEF MeetsConstraints
    <3>3. QED
      BY <1>2, <3>1, <3>2
  <2>3. QED
    BY <1>2, <1>3, <2>1, <2>2
<1>7. QED
  BY <1>4, <1>5, <1>6 DEF IsHeuristic

-----------------------------------------------------------------------------
(* The inductive invariant *)

\* What has been built so far, of whatever family.
StageOK ==
    /\ task \in Tasks
    /\ opt \in Options
    /\ pc \in {"start", "merge", "done", "failed"}
    /\ merged \in 0 .. Len(Domain)
    /\ expired \in BOOLEAN
    /\ DOMAIN lookup = State
    /\ IsStateMap(state_map)
    /\ pc = "start" => ~expired
    /\ pc = "merge" => opt.family = "ms" /\ merged >= 1

\* The map does not depend on the variables that are still to be merged.
MapIsFree ==
    pc = "merge" => \A k \in merged + 1 .. Len(Domain) : IsFree(state_map, opt.order[k])

\* Level sets are those of a consistent heuristic.
LevelsAreHeuristic ==
    /\ DOMAIN levels \subseteq Dir
    /\ \A d \in DOMAIN levels : \E f : IsLevels(levels[d], f) /\ IsHeuristic(task, d, f)

\* Together they are inductive.
LevelsInv == StageOK /\ MapIsFree /\ MapAgreesWithLookup /\ LevelsAreHeuristic

\* The options of merge-and-shrink and of the pattern.
LEMMA OptionFacts ==
    ASSUME opt \in Options
    PROVE  /\ opt.family \in {"ms", "pdb", "potential"}
           /\ opt.family = "ms" => opt.order \in Orders /\ opt.value_cap \in -1 .. INT_MAX
           /\ opt.family = "pdb" => opt.order \in Orders /\ opt.budget \in 1 .. INT_MAX
<1>1. CASE opt \in [family : {"ms"}, order : Orders, value_cap : ValueCaps]
  BY <1>1, OptionsAssumption
<1>2. CASE opt \in [family : {"pdb"}, order : Orders, budget : Budgets]
  BY <1>2, OptionsAssumption
<1>3. CASE opt \in [family : {"potential"}]
  BY <1>3
<1>4. QED
  BY <1>1, <1>2, <1>3 DEF Options

\* An order lists every variable once.
LEMMA OrderFacts ==
    ASSUME NEW p \in Orders
    PROVE  /\ \A k \in 1 .. Len(Domain) : p[k] \in Var
           /\ \A j, k \in 1 .. Len(Domain) : p[j] = p[k] => j = k
BY FactFacts DEF Orders

\* No level sets have been built at first.
LEMMA LevelsInvInit ==
    Init => LevelsInv
<1> SUFFICES ASSUME Init PROVE LevelsInv
  OBVIOUS
<1>1. DOMAIN state_map = {} /\ DOMAIN levels = {}
  BY DEF Init
<1>2. IsStateMap(state_map)
  BY <1>1 DEF IsStateMap
<1>3. DOMAIN lookup = State
  BY DEF Init
<1>4. StageOK
  <2>1. merged \in 0 .. Len(Domain)
    BY FactFacts DEF Init
  <2>2. QED
    BY <1>2, <1>3, <2>1, Zenon DEF Init, StageOK
<1>5. QED
  BY <1>1, <1>4 DEF Init, LevelsInv, MapIsFree, MapAgreesWithLookup, LevelsAreHeuristic

\* Steps that build no level sets keep those there are.
LEMMA LevelsKept ==
    ASSUME LevelsAreHeuristic, UNCHANGED <<task, levels>>
    PROVE  LevelsAreHeuristic'
BY DEF LevelsAreHeuristic

\* The map of a leaf agrees with its table.
LEMMA LeafKeepsInv ==
    LevelsInv /\ Leaf => LevelsInv'
<1> SUFFICES ASSUME LevelsInv, Leaf PROVE LevelsInv'
  OBVIOUS
<1> USE DEF LevelsInv
<1>1. task \in Tasks /\ opt \in Options /\ opt.family = "ms" /\ ~expired
  BY DEF StageOK, Leaf
<1>2. opt.order \in Orders /\ 1 \in 1 .. Len(Domain)
  BY <1>1, OptionFacts, FactFacts
<1>3. PICK v \in Var : v = opt.order[1]
  BY <1>2, OrderFacts
<1>4. PICK table \in Shrinkings(ValuesOf(v), MaxStates) :
          /\ state_map' = LeafMap(v, table)
          /\ lookup' = [s \in State |-> table[s[v]]]
  BY <1>3 DEF Leaf
<1>5. DOMAIN table = ValuesOf(v)
  BY <1>4 DEF Shrinkings
<1>6. /\ IsStateMap(state_map')
      /\ \A w \in Var \ {v} : IsFree(state_map', w)
      /\ Agrees(state_map', lookup')
  BY <1>1, <1>4, <1>5, LeafMapFacts
<1>7. StageOK'
  BY <1>1, <1>2, <1>4, <1>6, FactFacts DEF StageOK, Leaf
<1>8. MapIsFree'
  <2>1. ASSUME NEW k \in 2 .. Len(Domain) PROVE opt.order[k] \in Var \ {v}
    BY <1>2, <1>3, OrderFacts, FactFacts
  <2>2. merged' = 1 /\ opt' = opt
    BY DEF Leaf
  <2>3. QED
    BY <1>6, <2>1, <2>2 DEF MapIsFree
<1>9. MapAgreesWithLookup'
  BY <1>6 DEF MapAgreesWithLookup, Agrees
<1>10. LevelsAreHeuristic'
  BY LevelsKept DEF Leaf
<1>11. QED
  BY <1>7, <1>8, <1>9, <1>10
\* A merge that is not interrupted agrees with its table.
LEMMA MergeKeepsInv ==
    LevelsInv /\ Merge => LevelsInv'
<1> SUFFICES ASSUME LevelsInv, Merge PROVE LevelsInv'
  OBVIOUS
<1> USE DEF LevelsInv
<1>1. /\ task \in Tasks /\ opt \in Options /\ opt.family = "ms" /\ pc = "merge"
      /\ merged \in 0 .. Len(Domain) /\ merged >= 1 /\ merged < Len(Domain)
      /\ IsStateMap(state_map)
  BY DEF StageOK, Merge
<1>2. opt.order \in Orders /\ merged + 1 \in 1 .. Len(Domain)
  BY <1>1, OptionFacts, FactFacts
<1>3. PICK v \in Var : v = opt.order[merged + 1]
  BY <1>2, OrderFacts
<1>4. IsFree(state_map, v)
  <2>1. merged + 1 \in merged + 1 .. Len(Domain)
    BY <1>1, FactFacts
  <2>2. QED
    BY <1>1, <1>3, <2>1 DEF MapIsFree
<1>5. PICK leaf, table, done :
          /\ DOMAIN leaf = ValuesOf(v)
          /\ done \subseteq DOMAIN state_map
          /\ expired' \in BOOLEAN
          /\ ~expired' => ~expired /\ done = DOMAIN state_map
          /\ lookup' = [s \in State |-> table[<<lookup[s], leaf[s[v]]>>]]
          /\ state_map' = MergeMaps(state_map, LeafMap(v, leaf), table, done)
  <2> DEFINE Dones == {{id \in DOMAIN state_map : id < n} : n \in 0 .. MaxStates}
             Does(w, leaf, table) ==
                /\ lookup' = [s \in State |-> table[<<lookup[s], leaf[s[w]]>>]]
                /\ \E done \in Dones :
                      /\ expired => done = {}
                      /\ expired' = (expired \/ done # DOMAIN state_map)
                      /\ state_map' = MergeMaps(state_map, LeafMap(w, leaf), table, done)
  <2>1. \E w \in {opt.order[merged + 1]} :
        \E leaf \in Shrinkings(ValuesOf(w), MaxStates \div Cardinality(Values)) :
        \E shrink \in Shrinkings({PairNumber(w, p) : p \in Pairs(w, leaf)}, MaxStates) :
        \E table \in {[p \in Pairs(w, leaf) |-> shrink[PairNumber(w, p)]]} : Does(w, leaf, table)
    BY DEF Merge
  <2> HIDE DEF Does
  <2>2. PICK leaf \in Shrinkings(ValuesOf(v), MaxStates \div Cardinality(Values)) :
            \E table : Does(v, leaf, table)
    BY <1>3, <2>1
  <2>3. PICK table : Does(v, leaf, table)
    BY <2>2
  <2> USE DEF Does
  <2>4. PICK done \in Dones :
           /\ expired' = (expired \/ done # DOMAIN state_map)
           /\ state_map' = MergeMaps(state_map, LeafMap(v, leaf), table, done)
    BY <2>3
  <2>5. DOMAIN leaf = ValuesOf(v)
    BY <2>1 DEF Shrinkings
  <2>6. done \subseteq DOMAIN state_map
    OBVIOUS
  <2>7. expired' \in BOOLEAN /\ (~expired' => ~expired /\ done = DOMAIN state_map)
    BY <2>4, Zenon
  <2>8. lookup' = [s \in State |-> table[<<lookup[s], leaf[s[v]]>>]]
    BY <2>3
  <2>9. QED
    BY <2>4, <2>5, <2>6, <2>7, <2>8
<1>6. /\ IsStateMap(state_map')
      /\ \A w \in Var \ {v} : IsFree(state_map, w) => IsFree(state_map', w)
  BY <1>1, <1>4, <1>5, MergedIsFree
<1>7. StageOK'
  <2>1. merged' \in 0 .. Len(Domain) /\ merged' >= 1
    <3>1. merged' = merged + 1
      BY DEF Merge
    <3>2. QED
      BY <1>1, <3>1, FactFacts
  <2>2. DOMAIN lookup' = State
    BY <1>5
  <2>3. expired' \in BOOLEAN
    BY <1>5
  <2>4. task' = task /\ opt' = opt /\ pc' = pc
    BY DEF Merge
  <2>5. QED
    BY <1>1, <1>6, <2>1, <2>2, <2>3, <2>4 DEF StageOK
<1>8. MapIsFree'
  <2>1. ASSUME NEW k \in merged + 2 .. Len(Domain) PROVE IsFree(state_map', opt.order[k])
    <3>1. k \in merged + 1 .. Len(Domain) /\ k \in 1 .. Len(Domain) /\ k # merged + 1
      BY <1>1
    <3>2. opt.order[k] \in Var \ {v}
      BY <1>2, <1>3, <3>1, OrderFacts
    <3>3. IsFree(state_map, opt.order[k])
      BY <1>1, <3>1 DEF MapIsFree
    <3>4. QED
      BY <1>6, <3>2, <3>3
  <2>2. merged' + 1 = merged + 2 /\ opt' = opt
    BY <1>1 DEF Merge
  <2>3. QED
    BY <2>1, <2>2 DEF MapIsFree
<1>9. MapAgreesWithLookup'
  <2> SUFFICES ASSUME ~expired' PROVE Agrees(state_map', lookup')
    BY DEF MapAgreesWithLookup, Agrees
  <2>1. PICK right, b : right = LeafMap(v, leaf) /\ b = [s \in State |-> leaf[s[v]]]
    OBVIOUS
  <2>2. Agrees(right, b)
    BY <1>1, <1>5, <2>1, LeafMapFacts
  <2>3. Agrees(state_map, lookup)
    BY <1>1, <1>5 DEF MapAgreesWithLookup, Agrees
  <2>4. Agrees(state_map', [s \in State |-> table[<<lookup[s], b[s]>>]])
    BY <1>5, <2>1, <2>2, <2>3, MergedAgrees
  <2>5. lookup' = [s \in State |-> table[<<lookup[s], b[s]>>]]
    BY <1>5, <2>1
  <2>6. QED
    BY <2>4, <2>5
<1>10. LevelsAreHeuristic'
  BY LevelsKept DEF Merge
<1>11. QED
  BY <1>7, <1>8, <1>9, <1>10

\* The level sets are those of the capped distances.
LEMMA GroupKeepsInv ==
    LevelsInv /\ Group => LevelsInv'
<1> SUFFICES ASSUME LevelsInv, Group PROVE LevelsInv'
  OBVIOUS
<1> USE DEF LevelsInv
<1>1. /\ task \in Tasks /\ opt \in Options /\ opt.family = "ms" /\ pc = "merge"
      /\ IsStateMap(state_map)
  BY DEF StageOK, Group
<1>2. UNCHANGED <<task, opt, merged, expired, lookup, state_map>> /\ SumsFit(lookup)
  BY DEF Group
<1>3. PICK value : value = [d \in Dir |-> AbstractValue(d)] /\ GroupStates(value)
  BY DEF Group
<1>4. pc' \in {"done", "failed"}
  BY <1>3 DEF GroupStates
<1>5. StageOK' /\ MapIsFree' /\ MapAgreesWithLookup'
  BY <1>2, <1>4 DEF StageOK, MapIsFree, MapAgreesWithLookup
<1>6. LevelsAreHeuristic'
  <2>1. CASE expired
    BY <1>2, <1>3, <2>1, LevelsKept DEF GroupStates
  <2>2. CASE ~expired
    <3>1. Agrees(state_map, lookup)
      BY <1>1, <2>2 DEF MapAgreesWithLookup, Agrees
    <3>2. levels' = [d \in Dir |-> GroupBy(state_map, value[d])]
      BY <1>3, <2>2 DEF GroupStates
    <3>3. ASSUME NEW d \in Dir
          PROVE  \E f : IsLevels(levels'[d], f) /\ IsHeuristic(task, d, f)
      <4>1. PICK f : f = [s \in State |-> Capped(AbstractDistance(task, lookup, Opposite(d))[s])]
        OBVIOUS
      <4>2. IsHeuristic(task, d, f)
        <5>1. opt.value_cap \in -1 .. INT_MAX
          BY <1>1, OptionFacts
        <5>2. QED
          BY <1>1, <1>2, <4>1, <5>1, CappedIsHeuristic
      <4>3. PICK val : val = value[d]
        OBVIOUS
      <4>4. f = [s \in State |-> val[lookup[s]]]
        <5>1. ASSUME NEW s \in State PROVE val[lookup[s]] = f[s]
          <6>1. TableDistance(lookup, Opposite(d))[lookup[s]]
                    = AbstractDistance(task, lookup, Opposite(d))[s]
            BY <1>1, OppositeFacts, TableDistanceFacts
          <6>2. lookup[s] \in Values
            BY DEF Values
          <6>3. val[lookup[s]] = Capped(TableDistance(lookup, Opposite(d))[lookup[s]])
            BY <1>3, <4>3, <6>2 DEF AbstractValue
          <6>4. QED
            BY <4>1, <6>1, <6>3
        <5>2. QED
          BY <4>1, <5>1
      <4>5. IsLevels(GroupBy(state_map, val), f)
        BY <1>1, <3>1, <4>4, GroupByFacts
      <4>6. levels'[d] = GroupBy(state_map, val)
        BY <3>2, <4>3
      <4>7. QED
        BY <4>2, <4>5, <4>6
    <3>4. DOMAIN levels' = Dir
      BY <3>2
    <3>5. QED
      BY <1>2, <3>3, <3>4 DEF LevelsAreHeuristic
  <2>3. QED
    BY <2>1, <2>2
<1>7. QED
  BY <1>5, <1>6

\* Level sets of one direction that a heuristic guides.
LEMMA OneDirection ==
    ASSUME task' = task, NEW L, levels' = [d \in {"fw"} |-> L], NEW f, IsLevels(L, f),
           IsHeuristic(task, "fw", f)
    PROVE  LevelsAreHeuristic'
<1>1. DOMAIN levels' = {"fw"} /\ levels'["fw"] = L
  OBVIOUS
<1>2. QED
  BY <1>1 DEF LevelsAreHeuristic, Dir

\* The level sets of a pattern are those of its distances.
LEMMA PdbKeepsInv ==
    LevelsInv /\ PdbLevels => LevelsInv'
<1> SUFFICES ASSUME LevelsInv, PdbLevels PROVE LevelsInv'
  OBVIOUS
<1> USE DEF LevelsInv
<1>1. task \in Tasks /\ pc' = "done" /\ UNCHANGED <<task, opt, merged, expired>>
  BY DEF StageOK, PdbLevels
<1> DEFINE Does(table, value) ==
        /\ lookup' = table
        /\ state_map' = [id \in DOMAIN value |-> {s \in State : table[s] = id}]
        /\ levels' = [d \in {"fw"} |-> GroupBy(state_map', value)]
<1>2. PICK table : /\ table = [s \in State |-> [v \in Pattern |-> s[v]]]
                   /\ \E value \in {TableDistance(table, "bw")} : Does(table, value)
  <2>1. \E table \in {[s \in State |-> [v \in Pattern |-> s[v]]]} :
        \E value \in {TableDistance(table, "bw")} : Does(table, value)
    BY DEF PdbLevels
  <2> HIDE DEF Does
  <2>2. QED
    BY <2>1
<1>2a. PICK value : value = TableDistance(table, "bw") /\ Does(table, value)
  BY <1>2
<1>3. PICK f : f = AbstractDistance(task, table, "bw")
  OBVIOUS
<1>4. ASSUME NEW s \in State PROVE table[s] \in DOMAIN value /\ value[table[s]] = f[s]
  <2>1. /\ DOMAIN value = {table[x] : x \in State}
        /\ value[table[s]] = f[s]
    BY <1>1, <1>2a, <1>3, TableDistanceFacts DEF Dir
  <2>2. QED
    BY <2>1
<1>5. \A id \in DOMAIN value : \E s \in State : table[s] = id
  <2>1. PICK s \in State : TRUE
    BY <1>1, StatesExist
  <2>2. DOMAIN value = {table[x] : x \in State}
    BY <1>1, <1>2a, <2>1, TableDistanceFacts DEF Dir
  <2>3. QED
    BY <2>2
<1>6. IsStateMap(state_map')
  BY <1>2, <1>2a, <1>5 DEF IsStateMap
<1>7. Agrees(state_map', table)
  BY <1>2a, <1>4 DEF Agrees
<1>8. IsHeuristic(task, "fw", f)
  <2>1. Opposite("fw") = "bw" /\ "fw" \in Dir
    BY DEF Opposite, Dir
  <2>2. QED
    BY <1>1, <1>3, <2>1, DistancesAreHeuristic
<1>9. f = [s \in State |-> value[table[s]]]
  <2>1. f \in [State -> Level]
    BY <1>8 DEF IsHeuristic
  <2>2. QED
    BY <1>4, <2>1
<1>10. IsLevels(GroupBy(state_map', value), f)
  BY <1>6, <1>7, <1>9, GroupByFacts
<1>11. LevelsAreHeuristic'
  BY <1>1, <1>2, <1>2a, <1>8, <1>10, OneDirection
<1>12. StageOK'
  BY <1>1, <1>2, <1>2a, <1>6 DEF StageOK
<1>13. QED
  BY <1>1, <1>11, <1>12 DEF MapIsFree, MapAgreesWithLookup

\* The level sets of potentials are those of what they add up to.
LEMMA PotentialKeepsInv ==
    LevelsInv /\ PotentialLevels => LevelsInv'
<1> SUFFICES ASSUME LevelsInv, PotentialLevels PROVE LevelsInv'
  OBVIOUS
<1> USE DEF LevelsInv
<1>1. task \in Tasks /\ pc' = "done" /\ UNCHANGED <<task, opt, merged, expired>>
  BY DEF StageOK, PotentialLevels
<1>2. PICK potential \in [Facts -> -m .. m] :
          /\ MeetsConstraints(potential)
          /\ \A s \in State : RawPotential(potential, s) <= INT_MAX
          /\ lookup' = [s \in State |-> Rectified(RawPotential(potential, s))]
  BY DEF PotentialLevels, Facts
<1>3. PICK f : f = lookup'
  OBVIOUS
<1>4. IsHeuristic(task, "fw", f)
  BY <1>1, <1>2, <1>3, PotentialIsHeuristic
<1>5. PICK map : map = state_map'
  OBVIOUS
<1>6. map = [x \in {f[s] : s \in State} |-> {s \in State : f[s] = x}]
  BY <1>3, <1>5 DEF PotentialLevels
<1>7. IsLevels(map, f)
  BY <1>6 DEF IsLevels
<1>8. LevelsAreHeuristic'
  <2>1. levels' = [d \in {"fw"} |-> map]
    BY <1>5 DEF PotentialLevels
  <2>2. QED
    BY <1>1, <1>4, <1>7, <2>1, OneDirection
<1>9. IsStateMap(state_map')
  BY <1>5, <1>6 DEF IsStateMap
<1>10. StageOK'
  BY <1>1, <1>2, <1>9 DEF StageOK
<1>11. QED
  BY <1>1, <1>8, <1>10 DEF MapIsFree, MapAgreesWithLookup

\* Running out of time makes no level sets.
LEMMA OtherStepsKeepInv ==
    LevelsInv /\ (Incomplete \/ Expire \/ UNCHANGED vars) => LevelsInv'
<1> SUFFICES ASSUME LevelsInv, Incomplete \/ Expire \/ UNCHANGED vars PROVE LevelsInv'
  OBVIOUS
<1> USE DEF LevelsInv
<1>1. CASE Incomplete
  BY <1>1, LevelsKept DEF Incomplete, StageOK, MapIsFree, MapAgreesWithLookup
<1>2. CASE Expire
  BY <1>2, LevelsKept DEF Expire, StageOK, MapIsFree, MapAgreesWithLookup
<1>3. CASE UNCHANGED vars
  BY <1>3, LevelsKept DEF vars, StageOK, MapIsFree, MapAgreesWithLookup
<1>4. QED
  BY <1>1, <1>2, <1>3

\* Every step keeps the invariant.
LEMMA LevelsInvStep ==
    LevelsInv /\ [Next]_vars => LevelsInv'
BY LeafKeepsInv, MergeKeepsInv, GroupKeepsInv, PdbKeepsInv, PotentialKeepsInv, OtherStepsKeepInv
   DEF Next, Finished

\* The invariant holds always.
LEMMA LevelsInvariant ==
    Spec => []LevelsInv
BY LevelsInvInit, LevelsInvStep, PTL DEF Spec

-----------------------------------------------------------------------------
(* What follows from the invariant *)

\* Level sets of a heuristic are typed.
LEMMA LevelsTyped ==
    LevelsInv => LevelsTypeOK
<1> SUFFICES ASSUME LevelsInv PROVE LevelsTypeOK
  OBVIOUS
<1>1. ASSUME NEW d \in DOMAIN levels
      PROVE  /\ DOMAIN levels[d] \subseteq Level
             /\ \A x \in DOMAIN levels[d] : levels[d][x] \in (SUBSET State) \ {{}}
  <2>1. PICK f : IsLevels(levels[d], f) /\ IsHeuristic(task, d, f)
    BY DEF LevelsInv, LevelsAreHeuristic
  <2>2. f \in [State -> Level]
    BY <2>1 DEF IsHeuristic
  <2>3. QED
    BY <2>1, <2>2 DEF IsLevels
<1>2. QED
  BY <1>1 DEF LevelsInv, StageOK, LevelsAreHeuristic, IsStateMap, LevelsTypeOK

\* Values of the level sets are those of the heuristic.
LEMMA LevelsConsistent ==
    LevelsInv => LevelsAreConsistent
<1> SUFFICES ASSUME LevelsInv, NEW d \in DOMAIN levels
             PROVE  /\ \A s \in State : \E x \in DOMAIN levels[d] :
                          {y \in DOMAIN levels[d] : s \in levels[d][y]} = {x}
                    /\ \A s \in Source(task, Opposite(d)) : ValueOf(d, s) = 0
                    /\ \A c \in DOMAIN task.ops : \A e \in task.ops[c] :
                          LET x == IF d = "fw" THEN e[1] ELSE e[2]
                              y == IF d = "fw" THEN e[2] ELSE e[1]
                          IN ValueOf(d, y) # INT_MAX => ValueOf(d, x) <= c + ValueOf(d, y)
  BY DEF LevelsAreConsistent
<1>1. task \in Tasks /\ d \in Dir
  BY DEF LevelsInv, StageOK, LevelsAreHeuristic
<1>2. PICK f : IsLevels(levels[d], f) /\ IsHeuristic(task, d, f)
  BY DEF LevelsInv, LevelsAreHeuristic
<1>3. ASSUME NEW s \in State
      PROVE  /\ f[s] \in DOMAIN levels[d]
             /\ {y \in DOMAIN levels[d] : s \in levels[d][y]} = {f[s]}
  BY <1>2 DEF IsLevels
<1>4. ASSUME NEW s \in State PROVE ValueOf(d, s) = f[s]
  BY <1>3 DEF ValueOf
<1>5. ASSUME NEW s \in Source(task, Opposite(d)) PROVE ValueOf(d, s) = 0
  <2>1. s \in State
    BY <1>1, OppositeFacts, StatesExist
  <2>2. QED
    BY <1>2, <1>4, <2>1 DEF IsHeuristic
<1>6. ASSUME NEW c \in DOMAIN task.ops, NEW e \in task.ops[c],
             NEW x, x = (IF d = "fw" THEN e[1] ELSE e[2]),
             NEW y, y = (IF d = "fw" THEN e[2] ELSE e[1]), ValueOf(d, y) # INT_MAX
      PROVE  ValueOf(d, x) <= c + ValueOf(d, y)
  <2>1. e \in State \X State
    BY <1>1, TasksAssumption DEF IsTask
  <2>2. x \in State /\ y \in State /\ Edge(task, d, c, x, y)
    BY <1>6, <2>1 DEF Edge
  <2>3. QED
    BY <1>2, <1>4, <1>6, <2>2 DEF IsHeuristic
<1>7. QED
  BY <1>3, <1>5, <1>6

\* TypeOK of the constructors: level sets are nonempty sets of states, for values of an int.
THEOREM LevelsTypeCorrect ==
    Spec => []LevelsTypeOK
BY LevelsInvariant, LevelsTyped, PTL

\* What build_state_map computes agrees with the lookup for every state.
THEOREM MapIsCorrect ==
    Spec => []MapAgreesWithLookup
<1>1. LevelsInv => MapAgreesWithLookup
  BY DEF LevelsInv
<1>2. QED
  BY <1>1, LevelsInvariant, PTL

\* Level sets that are used form a consistent heuristic.
THEOREM LevelsAreAConsistentHeuristic ==
    Spec => []LevelsAreConsistent
BY LevelsInvariant, LevelsConsistent, PTL

-----------------------------------------------------------------------------
(* The pattern *)

\* Division decides whether a product exceeds a bound.
LEMMA DivisionFacts ==
    ASSUME NEW a \in Nat, NEW b \in Nat, NEW d \in Nat \ {0}
    PROVE  a <= b \div d <=> a * d <= b
<1>1. PICK q \in Nat : q = b \div d
  OBVIOUS
<1>2. q * d <= b /\ b < (q + 1) * d
  BY <1>1
<1>3. CASE a <= q
  <2>1. a * d <= q * d
    BY <1>3
  <2>2. QED
    BY <1>1, <1>2, <1>3, <2>1
<1>4. CASE q + 1 <= a
  <2>1. (q + 1) * d <= a * d
    BY <1>4
  <2>2. QED
    BY <1>1, <1>2, <1>4, <2>1
<1>5. QED
  BY <1>3, <1>4

\* The recursive function of Product.
ProductsFrom(n, p) ==
    CHOOSE product : product = [k \in 0 .. n |->
        IF k = 0 THEN 1 ELSE product[k - 1] * Domain[p[k]]]

\* What Product multiplies by, step by step.
Factors(p, V) == [k \in Var |-> [x \in V |-> x * Domain[p[k]]]]

\* They map the naturals from 1 on to themselves.
LEMMA FactorsFacts ==
    ASSUME NEW p \in Orders, NEW V, V = Nat \ {0}
    PROVE  \A k \in Var : /\ Factors(p, V)[k] \in [V -> V]
                          /\ \A x \in V : Factors(p, V)[k][x] = x * Domain[p[k]]
<1>1. \A k \in Var : Domain[p[k]] \in Nat \ {0}
  BY OrderFacts, FactFacts
<1>2. ASSUME NEW k \in Var, NEW x \in V PROVE x * Domain[p[k]] \in V
  <2>1. PICK d \in Nat \ {0} : d = Domain[p[k]]
    BY <1>1
  <2>2. \A y \in Nat \ {0} : y * d \in Nat \ {0}
    OBVIOUS
  <2>3. QED
    BY <2>1, <2>2
<1>3. ASSUME NEW k \in Var PROVE Factors(p, V)[k] = [x \in V |-> x * Domain[p[k]]]
  BY DEF Factors
<1>4. ASSUME NEW k \in Var
      PROVE  /\ Factors(p, V)[k] \in [V -> V]
             /\ \A x \in V : Factors(p, V)[k][x] = x * Domain[p[k]]
  <2>1. PICK d, f : d = Domain[p[k]] /\ f = Factors(p, V)[k]
    OBVIOUS
  <2>2. f = [x \in V |-> x * d] /\ \A x \in V : x * d \in V
    BY <1>2, <1>3, <2>1
  <2>3. f \in [V -> V] /\ \A x \in V : f[x] = x * d
    BY <2>2
  <2>4. QED
    BY <2>1, <2>3
<1>5. QED
  BY <1>4

\* It lists the products.
LEMMA ProductsFacts ==
    ASSUME NEW p \in Orders, NEW V, V = Nat \ {0}, NEW one, one = 1,
           NEW n \in 0 .. Len(Domain), NEW g, g = ProductsFrom(n, p)
    PROVE  IsRecursion(g, n, V, one, Factors(p, V))
<1> DEFINE Eqn(h) == h = [k \in 0 .. n |-> IF k = 0 THEN 1 ELSE h[k - 1] * Domain[p[k]]]
<1>1. PICK step : step = Factors(p, V)
  OBVIOUS
<1>2. n \in Nat /\ \A k \in 1 .. n : k \in Var
  BY FactFacts
<1>3. \A k \in 1 .. n : step[k] \in [V -> V] /\ \A x \in V : step[k][x] = x * Domain[p[k]]
  <2>1. \A k \in Var : step[k] \in [V -> V] /\ \A x \in V : step[k][x] = x * Domain[p[k]]
    <3>1. \A k \in Var : /\ Factors(p, V)[k] \in [V -> V]
                         /\ \A x \in V : Factors(p, V)[k][x] = x * Domain[p[k]]
      BY FactorsFacts
    <3>2. QED
      BY <1>1, <3>1, Zenon
  <2>2. QED
    BY <1>2, <2>1
<1>4. one \in V
  OBVIOUS
<1>5. PICK f : IsRecursion(f, n, V, one, step)
  BY <1>2, <1>3, <1>4, RecursionExists
<1>6. f \in [0 .. n -> V] /\ f[0] = one /\ \A k \in 1 .. n : f[k] = step[k][f[k - 1]]
  BY <1>5 DEF IsRecursion
<1>7. ASSUME NEW k \in 1 .. n PROVE f[k] = f[k - 1] * Domain[p[k]]
  <2>1. k - 1 \in 0 .. n
    BY <1>2
  <2>2. f[k - 1] \in V /\ f[k] = step[k][f[k - 1]]
    BY <1>6, <2>1
  <2>3. QED
    BY <1>3, <2>2
<1>8. Eqn(f)
  <2>1. \A k \in 0 .. n : f[k] = IF k = 0 THEN 1 ELSE f[k - 1] * Domain[p[k]]
    BY <1>2, <1>6, <1>7
  <2>2. f = [k \in 0 .. n |-> f[k]]
    BY <1>6
  <2>3. QED
    BY <2>1, <2>2
<1>9. Eqn(g)
  BY <1>8 DEF ProductsFrom
<1>10. Continues(g, n, V, one, step)
  <2>1. g[0] = one
    BY <1>2, <1>9
  <2>2. ASSUME NEW k \in 1 .. n PROVE g[k] = g[k - 1] * Domain[p[k]]
    BY <1>2, <1>9
  <2>3. QED
    BY <1>3, <2>1, <2>2 DEF Continues
<1>11. SameUpTo(f, g, n)
  BY <1>2, <1>5, <1>10, RecursionUnique
<1>12. g = f
  BY <1>6, <1>9, <1>11 DEF SameUpTo
<1>13. QED
  BY <1>1, <1>5, <1>12

\* Product multiplies the sizes of the first k domains of the order.
LEMMA ProductFacts ==
    ASSUME opt.order \in Orders
    PROVE  /\ Product(0) = 1
           /\ \A k \in 0 .. Len(Domain) : Product(k) \in Nat \ {0}
           /\ \A k \in 1 .. Len(Domain) :
                 Product(k) = Product(k - 1) * Domain[opt.order[k]]
<1>1. PICK p \in Orders : p = opt.order
  OBVIOUS
<1>2. PICK V : V = Nat \ {0}
  OBVIOUS
<1>3. PICK one : one = 1
  OBVIOUS
<1>4. PICK step : step = Factors(p, V)
  OBVIOUS
<1>5. ASSUME NEW k \in 0 .. Len(Domain)
      PROVE  /\ Product(k) = ProductsFrom(k, p)[k]
             /\ IsRecursion(ProductsFrom(k, p), k, V, one, step)
  BY <1>1, <1>2, <1>3, <1>4, ProductsFacts DEF Product, ProductsFrom
<1>6. ASSUME NEW k \in 0 .. Len(Domain) PROVE Product(k) \in V
  <2>1. k \in 0 .. k
    BY FactFacts
  <2>2. QED
    BY <1>5, <2>1 DEF IsRecursion
<1>7. Product(0) = 1
  <2>1. 0 \in 0 .. Len(Domain)
    BY FactFacts
  <2>2. ProductsFrom(0, p)[0] = one
    BY <1>5, <2>1 DEF IsRecursion
  <2>3. QED
    BY <1>3, <1>5, <2>1, <2>2
<1>8. ASSUME NEW k \in 1 .. Len(Domain)
      PROVE  Product(k) = Product(k - 1) * Domain[p[k]]
  <2>1. k \in 0 .. Len(Domain) /\ k - 1 \in 0 .. Len(Domain) /\ k - 1 \in Nat /\ k \in Var
        /\ k \in 1 .. k /\ k - 1 \in 0 .. k /\ k - 1 \in 0 .. k - 1
    BY FactFacts
  <2>2. PICK g, h, j : g = ProductsFrom(k, p) /\ h = ProductsFrom(k - 1, p) /\ j = k - 1
    OBVIOUS
  <2>3. /\ IsRecursion(g, k, V, one, step) /\ Product(k) = g[k]
        /\ IsRecursion(h, j, V, one, step) /\ Product(k - 1) = h[j]
    BY <1>5, <2>1, <2>2
  <2>4. Continues(g, j, V, one, step)
    <3>1. \A i \in 1 .. j : i \in 1 .. k
      BY <2>1, <2>2
    <3>2. QED
      BY <2>3, <3>1 DEF IsRecursion, Continues
  <2>5. SameUpTo(h, g, j)
    BY <2>1, <2>2, <2>3, <2>4, RecursionUnique
  <2>6. g[j] = h[j]
    BY <2>1, <2>2, <2>5 DEF SameUpTo
  <2>7. g[j] \in V /\ g[k] = step[k][g[j]]
    BY <2>1, <2>2, <2>3 DEF IsRecursion
  <2>8. step[k][g[j]] = g[j] * Domain[p[k]]
    BY <1>2, <1>4, <2>1, <2>7, FactorsFacts
  <2>9. QED
    BY <2>3, <2>6, <2>7, <2>8
<1>9. QED
  BY <1>1, <1>2, <1>6, <1>7, <1>8

\* Products grow with the pattern.
LEMMA ProductGrows ==
    ASSUME opt.order \in Orders, NEW k \in 0 .. Len(Domain), NEW j \in 0 .. k
    PROVE  Product(j) <= Product(k)
<1> DEFINE Bad == {i \in 0 .. Len(Domain) : j <= i /\ ~ (Product(j) <= Product(i))}
<1>1. SUFFICES ASSUME Bad # {} PROVE FALSE
  BY FactFacts
<1>2. Bad \in SUBSET Nat
  BY FactFacts
<1>3. PICK i \in Bad : \A h \in Bad : i <= h
  <2> HIDE DEF Bad
  <2>1. Least(Bad) \in Bad /\ \A h \in Bad : Least(Bad) <= h
    BY <1>1, <1>2, NatHasLeast
  <2>2. QED
    BY <2>1
<1>4. j \in 0 .. Len(Domain) /\ i \in 0 .. Len(Domain) /\ j <= i /\ ~ (Product(j) <= Product(i))
  BY FactFacts
<1>5. \A h \in 0 .. Len(Domain) : Product(h) \in Nat \ {0}
  BY ProductFacts
<1>6. i # j
  <2>1. Product(j) \in Nat
    BY <1>4, <1>5
  <2>2. QED
    BY <1>4, <2>1
<1>7. i - 1 \in 0 .. Len(Domain) /\ i \in 1 .. Len(Domain) /\ j <= i - 1 /\ i - 1 < i
  BY <1>4, <1>6, FactFacts
<1>8. Product(j) <= Product(i - 1)
  <2>1. ~ (i - 1 \in Bad)
    <3> HIDE DEF Bad
    <3>1. ~ (i <= i - 1)
      BY <1>7, FactFacts
    <3>2. QED
      BY <1>3, <3>1
  <2>2. QED
    BY <1>7, <2>1
<1>9. PICK d \in Nat \ {0} : d = Domain[opt.order[i]]
  BY <1>7, OrderFacts, FactFacts
<1>10. PICK x \in Nat \ {0} : x = Product(i - 1)
  BY <1>5, <1>7
<1>11. Product(i) = x * d
  BY <1>7, <1>9, <1>10, ProductFacts
<1>12. x <= x * d
  OBVIOUS
<1>13. Product(j) <= Product(i)
  <2>1. Product(j) \in Nat
    BY <1>4, <1>5
  <2>2. QED
    BY <1>8, <1>10, <1>11, <1>12, <2>1
<1>14. QED
  BY <1>4, <1>13

\* The variables of the pattern are those whose products are within the budget.
LEMMA PatternFacts ==
    ASSUME opt.order \in Orders, opt.budget \in Nat
    PROVE  Pattern = {opt.order[k] : k \in {i \in Var : Product(i) <= opt.budget}}
<1>1. PICK b \in Nat : b = opt.budget
  OBVIOUS
<1>2. ASSUME NEW j \in 1 .. Len(Domain)
      PROVE  Product(j - 1) <= b \div Domain[opt.order[j]] <=> Product(j) <= b
  <2>1. j - 1 \in 0 .. Len(Domain)
    BY FactFacts
  <2>2. PICK x \in Nat : x = Product(j - 1)
    BY <2>1, ProductFacts
  <2>3. PICK d \in Nat \ {0} : d = Domain[opt.order[j]]
    BY OrderFacts, FactFacts
  <2>4. Product(j) = x * d
    BY <2>2, <2>3, ProductFacts
  <2>5. x <= b \div d <=> x * d <= b
    BY DivisionFacts
  <2>6. QED
    BY <2>2, <2>3, <2>4, <2>5
<1>3. ASSUME NEW k \in Var
      PROVE  (\A j \in 1 .. k : Product(j - 1) <= opt.budget \div Domain[opt.order[j]])
                 <=> Product(k) <= b
  <2>1. k \in 1 .. Len(Domain) /\ k \in 0 .. Len(Domain) /\ k \in 1 .. k
    BY FactFacts
  <2>2. ASSUME NEW j \in 1 .. k, Product(k) <= b PROVE Product(j) <= b
    <3>1. j \in 0 .. k /\ j \in 0 .. Len(Domain)
      BY <2>1, FactFacts
    <3>2. Product(j) <= Product(k)
      BY <2>1, <3>1, ProductGrows
    <3>3. Product(j) \in Nat /\ Product(k) \in Nat
      BY <2>1, <3>1, ProductFacts
    <3>4. QED
      BY <2>2, <3>2, <3>3
  <2>3. \A j \in 1 .. k : j \in 1 .. Len(Domain)
    BY <2>1, FactFacts
  <2>4. QED
    BY <1>1, <1>2, <2>1, <2>2, <2>3
<1>4. QED
  BY <1>1, <1>3 DEF Pattern

\* The states with values for the first k variables of an order only.
Projected(p, k) == {[v \in {p[j] : j \in 1 .. k} |-> s[v]] : s \in State}

\* There are at most as many as the domains allow.
LEMMA ProjectedIsSmall ==
    ASSUME opt.order \in Orders, NEW k \in 0 .. Len(Domain)
    PROVE  /\ IsFiniteSet(Projected(opt.order, k))
           /\ Cardinality(Projected(opt.order, k)) <= Product(k)
<1>1. PICK p \in Orders : p = opt.order
  OBVIOUS
<1> DEFINE Small(i) == IsFiniteSet(Projected(p, i)) /\ Cardinality(Projected(p, i)) <= Product(i)
           Bad == {i \in 0 .. Len(Domain) : ~ Small(i)}
<1>2. SUFFICES ASSUME Bad # {} PROVE FALSE
  BY <1>1
<1>3. Bad \in SUBSET Nat
  BY FactFacts
<1>4. PICK i \in Bad : \A h \in Bad : i <= h
  <2> HIDE DEF Bad
  <2>1. Least(Bad) \in Bad /\ \A h \in Bad : Least(Bad) <= h
    BY <1>2, <1>3, NatHasLeast
  <2>2. QED
    BY <2>1
<1>5. i \in 0 .. Len(Domain) /\ ~ Small(i)
  OBVIOUS
<1>6. Small(0)
  <2>1. PICK e : e = [v \in {} |-> v]
    OBVIOUS
  <2>2. Projected(p, 0) \subseteq {e}
    <3>1. \A s : [v \in {} |-> s[v]] = e
      BY <2>1
    <3>2. {p[j] : j \in 1 .. 0} = {}
      OBVIOUS
    <3>3. QED
      BY <3>1, <3>2 DEF Projected
  <2>3. IsFiniteSet({e}) /\ Cardinality({e}) = 1
    BY FS_Singleton
  <2>4. IsFiniteSet(Projected(p, 0)) /\ Cardinality(Projected(p, 0)) <= 1
    BY <2>2, <2>3, FS_Subset
  <2>5. QED
    BY <1>1, <2>4, ProductFacts
<1>7. i # 0
  BY <1>5, <1>6
<1>8. PICK h \in 0 .. Len(Domain) : h = i - 1 /\ i \in 1 .. Len(Domain) /\ h < i /\ h \in Nat
  BY <1>5, <1>7, FactFacts
<1>9. Small(h)
  <2>1. h \notin Bad
    <3> HIDE DEF Bad
    <3>1. ~ (i <= h)
      BY <1>5, <1>8, FactFacts
    <3>2. QED
      BY <1>4, <3>1
  <2>2. QED
    BY <2>1
<1>10. PICK v \in Var : v = p[i]
  BY <1>8, OrderFacts
<1>11. PICK X, Y, Z, f :
          /\ X = Projected(p, i) /\ Y = Projected(p, h) /\ Z = Y \X ValuesOf(v)
          /\ f = [x \in X |-> <<[w \in {p[j] : j \in 1 .. h} |-> x[w]], x[v]>>]
  OBVIOUS
<1>12. {p[j] : j \in 1 .. i} = {p[j] : j \in 1 .. h} \cup {v}
  <2>1. \A j : j \in 1 .. i <=> j \in 1 .. h \/ j = i
    BY <1>8, FactFacts
  <2>2. QED
    BY <1>10, <2>1
<1>13. f \in Injection(X, Z)
  <2>1. PICK W : W = {p[j] : j \in 1 .. h}
    OBVIOUS
  <2>2. /\ X = {[w \in W \cup {v} |-> s[w]] : s \in State}
        /\ Y = {[w \in W |-> s[w]] : s \in State}
        /\ f = [x \in X |-> <<[w \in W |-> x[w]], x[v]>>]
    <3>1. {p[j] : j \in 1 .. i} = W \cup {v}
      BY <1>12, <2>1
    <3>2. X = {[w \in W \cup {v} |-> s[w]] : s \in State}
      BY <1>11, <3>1 DEF Projected
    <3>3. Y = {[w \in W |-> s[w]] : s \in State}
      BY <1>11, <2>1 DEF Projected
    <3>4. f = [x \in X |-> <<[w \in W |-> x[w]], x[v]>>]
      BY <1>11, <2>1
    <3>5. QED
      BY <3>2, <3>3, <3>4
  <2>3. ASSUME NEW x \in X PROVE f[x] \in Z
    <3>1. PICK s \in State : x = [w \in W \cup {v} |-> s[w]]
      BY <2>2
    <3>2. [w \in W |-> x[w]] = [w \in W |-> s[w]] /\ x[v] = s[v]
      BY <3>1
    <3>3. [w \in W |-> x[w]] \in Y /\ x[v] \in ValuesOf(v)
      BY <2>2, <3>2, FactFacts
    <3>4. f[x] = <<[w \in W |-> x[w]], x[v]>>
      BY <2>2
    <3>5. \A a, b : a \in Y /\ b \in ValuesOf(v) => <<a, b>> \in Z
      BY <1>11
    <3>6. QED
      BY <3>3, <3>4, <3>5
  <2>4. ASSUME NEW x \in X, NEW y \in X, f[x] = f[y] PROVE x = y
    <3>1. PICK s \in State : x = [w \in W \cup {v} |-> s[w]]
      BY <2>2
    <3>2. PICK t \in State : y = [w \in W \cup {v} |-> t[w]]
      BY <2>2
    <3>3. [w \in W |-> x[w]] = [w \in W |-> y[w]] /\ x[v] = y[v]
      BY <2>2, <2>4
    <3>4. \A w \in W : x[w] = y[w]
      <4>1. PICK a, b : a = [w \in W |-> x[w]] /\ b = [w \in W |-> y[w]]
        OBVIOUS
      <4>2. a = b /\ \A w \in W : a[w] = x[w] /\ b[w] = y[w]
        BY <3>3, <4>1
      <4>3. QED
        BY <4>2
    <3>5. \A w \in W \cup {v} : s[w] = t[w]
      BY <3>1, <3>2, <3>3, <3>4
    <3>6. QED
      BY <3>1, <3>2, <3>5
  <2>5. f \in [X -> Z]
    BY <2>2, <2>3
  <2>6. QED
    BY <2>4, <2>5 DEF Injection, IsInjective
<1>14. IsFiniteSet(ValuesOf(v)) /\ Cardinality(ValuesOf(v)) = Domain[v]
  <2>1. PICK d \in Nat : d = Domain[v] /\ d >= 1
    BY FactFacts
  <2>2. PICK a \in Int, b \in Int : a = 0 /\ b = d - 1
    OBVIOUS
  <2>3. /\ IsFiniteSet(a .. b)
        /\ Cardinality(a .. b) = IF a > b THEN 0 ELSE b - a + 1
    BY FS_Interval
  <2>4. ValuesOf(v) = a .. b
    BY <2>1, <2>2 DEF ValuesOf
  <2>5. (IF a > b THEN 0 ELSE b - a + 1) = d
    BY <2>1, <2>2
  <2>6. QED
    BY <2>1, <2>3, <2>4, <2>5
<1>15. IsFiniteSet(Z) /\ Cardinality(Z) = Cardinality(Y) * Domain[v]
  BY <1>9, <1>11, <1>14, FS_Product
<1>16. IsFiniteSet(X) /\ Cardinality(X) <= Cardinality(Z)
  BY <1>13, <1>15, FS_Injection
<1>17. Cardinality(Y) * Domain[v] <= Product(i)
  <2>1. PICK a \in Nat, b \in Nat, d \in Nat : a = Cardinality(Y) /\ b = Product(h) /\ d = Domain[v]
    BY <1>1, <1>9, <1>11, FS_CardinalityType, ProductFacts, FactFacts
  <2>2. a <= b
    BY <1>9, <1>11, <2>1
  <2>3. a * d <= b * d
    BY <2>2
  <2>4. Product(i) = b * d
    BY <1>1, <1>8, <1>10, <2>1, ProductFacts
  <2>5. QED
    BY <2>1, <2>3, <2>4
<1>18. Small(i)
  <2>1. PICK a \in Nat, b \in Nat, c \in Nat :
            a = Cardinality(X) /\ b = Cardinality(Z) /\ c = Product(i)
    BY <1>1, <1>5, <1>15, <1>16, FS_CardinalityType, ProductFacts
  <2>2. a <= b /\ b <= c
    BY <1>15, <1>16, <1>17, <2>1
  <2>3. a <= c
    BY <2>2
  <2>4. QED
    BY <1>11, <1>16, <2>1, <2>3
<1>19. QED
  BY <1>5, <1>18

\* The pattern is a prefix of the order.
LEMMA PatternIsPrefix ==
    ASSUME opt.order \in Orders, opt.budget \in Nat \ {0}
    PROVE  \E k \in 0 .. Len(Domain) :
              /\ Product(k) <= opt.budget
              /\ Pattern = {opt.order[j] : j \in 1 .. k}
<1> DEFINE Beyond == {k \in 0 .. Len(Domain) + 1 : k = Len(Domain) + 1 \/ Product(k) > opt.budget}
<1>1. Len(Domain) \in Nat /\ Var = 1 .. Len(Domain)
  BY FactFacts
<1>2. Beyond \in SUBSET Nat /\ Beyond # {}
  <2>1. Len(Domain) + 1 \in Beyond
    BY <1>1
  <2>2. QED
    BY <1>1, <2>1
<1>3. PICK i \in Beyond : \A h \in Beyond : i <= h
  <2> HIDE DEF Beyond
  <2>1. Least(Beyond) \in Beyond /\ \A h \in Beyond : Least(Beyond) <= h
    BY <1>2, NatHasLeast
  <2>2. QED
    BY <2>1
<1>4. \A j \in 0 .. Len(Domain) : Product(j) \in Nat
  BY ProductFacts
<1>5. i # 0
  <2>1. 0 \in 0 .. Len(Domain) /\ Product(0) = 1
    BY <1>1, ProductFacts
  <2>2. QED
    BY <1>1, <2>1
<1>6. PICK k \in 0 .. Len(Domain) : i = k + 1
  BY <1>1, <1>5
<1>7. Product(k) <= opt.budget
  <2>1. k \notin Beyond
    BY <1>1, <1>3, <1>6
  <2>2. QED
    BY <1>1, <1>4, <2>1
<1>8. ASSUME NEW j \in Var PROVE Product(j) <= opt.budget <=> j \in 1 .. k
  <2>1. j \in 0 .. Len(Domain) /\ j \in Nat
    BY <1>1
  <2>2. ASSUME j <= k PROVE Product(j) <= opt.budget
    <3>1. j \in 0 .. k
      BY <2>1, <2>2
    <3>2. Product(j) <= Product(k)
      BY <3>1, ProductGrows
    <3>3. QED
      BY <1>4, <1>7, <2>1, <3>2
  <2>3. ASSUME k < j PROVE ~ (Product(j) <= opt.budget)
    <3>1. i \in 0 .. j /\ i \in 0 .. Len(Domain)
      BY <1>1, <1>6, <2>1, <2>3
    <3>2. Product(i) <= Product(j)
      BY <2>1, <3>1, ProductGrows
    <3>3. Product(i) > opt.budget
      BY <1>1, <3>1
    <3>4. Product(i) \in Nat /\ Product(j) \in Nat
      BY <1>4, <2>1, <3>1
    <3>5. QED
      BY <3>2, <3>3, <3>4
  <2>4. QED
    BY <1>1, <2>1, <2>2, <2>3
<1>9. Pattern = {opt.order[j] : j \in 1 .. k}
  <2>1. Pattern = {opt.order[j] : j \in {h \in Var : Product(h) <= opt.budget}}
    BY PatternFacts
  <2>2. {h \in Var : Product(h) <= opt.budget} = 1 .. k
    BY <1>1, <1>8
  <2>3. QED
    BY <2>1, <2>2
<1>10. QED
  BY <1>7, <1>9

\* PdbLevelSets fills the budget.
LEMMA PdbFillsBudget ==
    ASSUME StageOK, PdbLevels
    PROVE  PatternFillsBudget'
<1>1. /\ opt.order \in Orders /\ opt.budget \in Nat \ {0} /\ task \in Tasks /\ opt' = opt
  BY OptionFacts, IntMaxAssumption DEF StageOK, PdbLevels
<1>2. PICK k \in 0 .. Len(Domain) :
          Product(k) <= opt.budget /\ Pattern = {opt.order[j] : j \in 1 .. k}
  BY <1>1, PatternIsPrefix
<1>3. DOMAIN state_map' = Projected(opt.order, k)
  <2> DEFINE Does(table, value) ==
        /\ lookup' = table
        /\ state_map' = [id \in DOMAIN value |-> {s \in State : table[s] = id}]
        /\ levels' = [d \in {"fw"} |-> GroupBy(state_map', value)]
  <2>1. PICK table : /\ table = [s \in State |-> [v \in Pattern |-> s[v]]]
                     /\ \E value \in {TableDistance(table, "bw")} : Does(table, value)
    <3>1. \E table \in {[s \in State |-> [v \in Pattern |-> s[v]]]} :
          \E value \in {TableDistance(table, "bw")} : Does(table, value)
      BY DEF PdbLevels
    <3> HIDE DEF Does
    <3>2. QED
      BY <3>1
  <2>2. PICK value : value = TableDistance(table, "bw") /\ Does(table, value)
    BY <2>1
  <2>3. DOMAIN state_map' = DOMAIN value
    BY <2>2
  <2>4. DOMAIN value = {table[x] : x \in State}
    <3>1. PICK s \in State : TRUE
      BY <1>1, StatesExist
    <3>2. QED
      BY <1>1, <2>2, <3>1, TableDistanceFacts DEF Dir
  <2>5. {table[x] : x \in State} = {[v \in Pattern |-> s[v]] : s \in State}
    BY <2>1
  <2>6. Projected(opt.order, k) = {[v \in Pattern |-> s[v]] : s \in State}
    BY <1>2 DEF Projected
  <2>7. QED
    BY <2>3, <2>4, <2>5, <2>6
<1>4. Cardinality(DOMAIN state_map') <= opt'.budget
  <2>1. PICK n \in Nat : n = Cardinality(Projected(opt.order, k)) /\ n <= Product(k)
    BY <1>1, ProjectedIsSmall, FS_CardinalityType
  <2>2. Product(k) \in Nat
    BY <1>1, ProductFacts
  <2>3. QED
    BY <1>1, <1>2, <1>3, <2>1, <2>2
<1>5. ASSUME NEW j \in Var, Product(j) <= opt.budget, NEW id \in DOMAIN state_map'
      PROVE  opt.order[j] \in DOMAIN id
  <2>1. DOMAIN id = Pattern
    BY <1>2, <1>3 DEF Projected
  <2>2. QED
    BY <1>1, <1>5, <2>1, PatternFacts
<1>6. \A j \in Var : Product(j)' = Product(j)
  BY <1>1 DEF Product
<1>7. QED
  BY <1>1, <1>4, <1>5, <1>6 DEF PatternFillsBudget

\* The other constructors make no pattern.
LEMMA PatternStep ==
    LevelsInv /\ PatternFillsBudget /\ [Next]_vars => PatternFillsBudget'
<1> SUFFICES ASSUME LevelsInv, PatternFillsBudget, [Next]_vars PROVE PatternFillsBudget'
  OBVIOUS
<1>1. StageOK /\ opt \in Options
  BY DEF LevelsInv, StageOK
<1>2. CASE PdbLevels
  BY <1>1, <1>2, PdbFillsBudget
<1>3. CASE Incomplete \/ Leaf \/ Expire \/ Merge
  <2>1. pc' # "done"
    BY <1>3 DEF Incomplete, Leaf, Expire, Merge
  <2>2. QED
    BY <2>1 DEF PatternFillsBudget
<1>4. CASE Group \/ PotentialLevels
  <2>1. opt' = opt /\ opt.family # "pdb"
    BY <1>1, <1>4 DEF Group, PotentialLevels, StageOK
  <2>2. QED
    BY <2>1 DEF PatternFillsBudget
<1>5. CASE UNCHANGED vars
  BY <1>5 DEF vars, PatternFillsBudget, Product
<1>6. QED
  BY <1>2, <1>3, <1>4, <1>5 DEF Next, Finished

\* PdbLevelSets takes the longest prefix of the order that stays within the budget,
\* and its projection then has no more abstract states than that.
THEOREM PatternFitsBudget ==
    Spec => []PatternFillsBudget
<1>1. Init => PatternFillsBudget
  BY DEF Init, PatternFillsBudget
<1>2. QED
  BY <1>1, PatternStep, LevelsInvariant, PTL DEF Spec
=============================================================================
