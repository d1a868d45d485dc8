----------------------------- MODULE LevelSets -----------------------------
(***************************************************************************)
(* The level sets of the width-bounded heuristics: MsLevelSets, from the   *)
(* tables of a merge-and-shrink abstraction under a time budget, PdbLevel- *)
(* Sets, from a projection, and PotentialLevelSets, from a table of fact   *)
(* potentials.  HeuristicFwSearch and WbhPruner take what comes out of     *)
(* here for consistent heuristics.                                         *)
(*                                                                         *)
(* A state assigns a value to each variable.  Merge-and-shrink, the        *)
(* pattern database and the potential optimizer are code of Fast Downward; *)
(* what they may return is chosen here: any shrinking within the limit,    *)
(* exact distances, any potentials that meet the optimizer's constraints.  *)
(* The tables of merge-and-shrink are chosen when build_state_map gets to  *)
(* them.                                                                   *)
(***************************************************************************)
EXTENDS Abstraction, Sequences

CONSTANTS Domain,     \* the sizes of the domains of the variables 1 .. n
          MaxStates,  \* the option max_states
          ValueCaps,  \* values of the option value_cap, -1 for no cap
          Budgets,    \* values of the option that bounds the pattern
          m           \* the option m: potentials of facts are within -m .. m

Var == DOMAIN Domain

ValuesOf(v) == 0 .. Domain[v] - 1

ASSUME FactsAssumption ==
    /\ Domain \in Seq(Nat \ {0}) /\ Domain # <<>>
    /\ \A s \in State : DOMAIN s = Var
    /\ \A s \in State : \A v \in Var : s[v] \in ValuesOf(v)
    /\ \A s \in State : \A v \in Var : \A i \in ValuesOf(v) : [s EXCEPT ![v] = i] \in State

\* The bounds that the options have.
ASSUME OptionsAssumption ==
    /\ MaxStates \in 1 .. INT_MAX
    /\ ValueCaps \subseteq -1 .. INT_MAX
    /\ Budgets \subseteq 1 .. INT_MAX
    /\ m \in 0 .. INT_MAX

\* An order in which variables are merged or put in a pattern.
Orders == {p \in [Var -> Var] : \A i, j \in Var : p[i] = p[j] => i = j}

\* The engine asks for one of the three families, with its options.
Options == [family : {"ms"}, order : Orders, value_cap : ValueCaps]
    \cup [family : {"pdb"}, order : Orders, budget : Budgets]
    \cup [family : {"potential"}]

VARIABLES
  task,
  opt,          \* what is built, with the options of the engine
  pc,           \* "start", "merge", "done", "failed" (construction_failed)
  merged,       \* how many variables build_state_map has covered
  expired,      \* budget.is_expired()
  lookup,       \* the abstraction, as the explicit lookup computes it
  state_map,    \* build_state_map: abstract state |-> set of states
  levels        \* direction |-> value |-> level set, for INT_MAX the dead ends

vars == <<task, opt, pc, merged, expired, lookup, state_map, levels>>

Values == {lookup[s] : s \in State}

\* Level sets are nonempty and belong to values an int can hold, from 0 on:
\* collect_integer_leaf_values and the maps of the constructors.
LevelsTypeOK ==
    /\ task \in Tasks
    /\ opt \in Options
    /\ pc \in {"start", "merge", "done", "failed"}
    /\ merged \in 0 .. Len(Domain)
    /\ expired \in BOOLEAN
    /\ DOMAIN lookup = State
    /\ \A id \in DOMAIN state_map : state_map[id] \in (SUBSET State) \ {{}}
    /\ DOMAIN levels \subseteq Dir
    /\ \A d \in DOMAIN levels :
          /\ DOMAIN levels[d] \subseteq Level
          /\ \A v \in DOMAIN levels[d] : levels[d][v] \in (SUBSET State) \ {{}}

-----------------------------------------------------------------------------
(* Tables of the cascade: abstract states are numbered *)

\* Tables that map the given abstract states to at most limit new ones, which
\* are numbered by their first members.
Shrinkings(ids, limit) ==
    {f \in [ids -> 0 .. limit - 1] :
        \A i \in ids : \A n \in 0 .. f[i] - 1 : \E j \in ids : j < i /\ f[j] = n}

\* The leaf of a representation: its table maps the values of v.
LeafMap(v, table) ==
    [id \in {table[i] : i \in ValuesOf(v)} |-> {s \in State : table[s[v]] = id}]

\* The abstract states of the product with v, shrunk by leaf, and their numbers.
Pairs(v, leaf) == Values \X {leaf[i] : i \in ValuesOf(v)}
PairNumber(v, p) == p[1] * Domain[v] + p[2]

\* Faulty: of several pairs with the same merged state one overwrites the others.
LastPair(left, right, table, done) ==
    [id \in {table[p] : p \in done \X DOMAIN right} |->
        LET p == CHOOSE q \in done \X DOMAIN right : table[q] = id
        IN left[p[1]] \cap right[p[2]]]

\* The merge of two representations, for the abstract states done of the left
\* one that the loop gets to.
MergeMaps(left, right, table, done) ==
    [id \in {table[p] : p \in done \X DOMAIN right} |->
        UNION {left[p[1]] \cap right[p[2]] :
               p \in {q \in done \X DOMAIN right : table[q] = id}}]

-----------------------------------------------------------------------------
(* Grouping by value *)

\* Faulty: the cap is applied also when there is none.
CappedAnyway(x) == IF x # INT_MAX THEN LesserOf(x, opt.value_cap) ELSE x

\* value_cap bounds finite values.
Capped(x) == IF x # INT_MAX /\ opt.value_cap >= 0 THEN LesserOf(x, opt.value_cap) ELSE x

\* The states of the map by the value of their abstract state.
GroupBy(map, value) ==
    [v \in {value[id] : id \in DOMAIN map} |->
        UNION {map[id] : id \in {i \in DOMAIN map : value[i] = v}}]

\* The distances that the abstraction table has for the sources of direction d,
\* by abstract state.
TableDistance(table, d) ==
    LET dist == AbstractDistance(task, table, d)
    IN [id \in {table[s] : s \in State} |-> dist[CHOOSE s \in State : table[s] = id]]

\* Bound: a finite distance in the abstraction and a cost add up to less than
\* INT_MAX, the int that stands for infinity.
SumsFit(table) ==
    \A d \in Dir : \A dist \in {AbstractDistance(task, table, d)} :
        \A c \in DOMAIN task.ops : \A s \in State :
            dist[s] < INT_MAX => dist[s] + c < INT_MAX

\* The forward direction gets goal distances, the backward one init distances.
AbstractValue(d) ==
    LET dist == TableDistance(lookup, Opposite(d))
    IN [id \in Values |-> Capped(dist[id])]

\* Faulty: level sets are made whether or not the walk was complete.
GroupAnyway(value) ==
    /\ pc' = "done"
    /\ levels' = [d \in Dir |-> GroupBy(state_map, value[d])]

\* MsLevelSets, once build_state_map has returned: what came of a walk that ran
\* out of time must not be used.
GroupStates(value) ==
    IF expired
    THEN pc' = "failed" /\ UNCHANGED levels
    ELSE /\ pc' = "done"
         /\ levels' = [d \in Dir |-> GroupBy(state_map, value[d])]

-----------------------------------------------------------------------------
(* PdbLevelSets and PotentialLevelSets *)

\* The number of abstract states of the first k variables of the order.
Product(k) ==
    LET product[n \in 0 .. k] == IF n = 0 THEN 1 ELSE product[n - 1] * Domain[opt.order[n]]
    IN product[k]

\* Faulty: the variable that exceeds the budget is included.
PatternUpToBudget ==
    {opt.order[k] : k \in {k \in Var : \A j \in 1 .. k : Product(j - 1) <= opt.budget}}

\* Variables are chosen in order until the next one would exceed the budget.
Pattern ==
    {opt.order[k] : k \in {k \in Var : \A j \in 1 .. k :
                                      Product(j - 1) <= opt.budget \div Domain[opt.order[j]]}}

\* The raw potential of a state, summed over its facts.
RawPotential(potential, s) ==
    LET sum[n \in 0 .. Len(Domain)] ==
            IF n = 0 THEN 0 ELSE sum[n - 1] + potential[<<n, s[n]>>]
    IN sum[Len(Domain)]

\* The constraints of the potential optimizer (external): no goal state has a
\* positive potential, no operator lowers it by more than its cost.
MeetsConstraints(potential) ==
    /\ \A s \in task.goal : RawPotential(potential, s) <= 0
    /\ \A c \in DOMAIN task.ops : \A e \in task.ops[c] :
          RawPotential(potential, e[1]) <= c + RawPotential(potential, e[2])

\* The heuristic is 0 where the potential is negative.
Rectified(x) == GreaterOf(0, x)

-----------------------------------------------------------------------------

Init ==
    /\ task \in Tasks
    /\ opt \in Options
    /\ pc = "start"
    /\ merged = 0
    /\ expired = FALSE
    /\ lookup = [s \in State |-> 0]
    /\ state_map = <<>>
    /\ levels = <<>>

\* Merge-and-shrink leaves several factors: it runs out of time, or it stops
\* early at a factor in which the goal cannot be reached.
Incomplete ==
    /\ pc = "start"
    /\ opt.family = "ms"
    /\ expired' \in BOOLEAN
    /\ pc' = "failed"
    /\ UNCHANGED <<task, opt, merged, lookup, state_map, levels>>

\* build_state_map at the leftmost leaf.
Leaf ==
    /\ pc = "start"
    /\ opt.family = "ms"
    /\ \E table \in Shrinkings(ValuesOf(opt.order[1]), MaxStates) :
          /\ state_map' = LeafMap(opt.order[1], table)
          /\ lookup' = [s \in State |-> table[s[opt.order[1]]]]
    /\ merged' = 1
    /\ pc' = "merge"
    /\ UNCHANGED <<task, opt, expired, levels>>

\* The clock is read before each merge and in its loop; once time is up, nothing
\* more is put into the map.
Expire ==
    /\ pc = "merge"
    /\ ~expired
    /\ expired' = TRUE
    /\ UNCHANGED <<task, opt, pc, merged, lookup, state_map, levels>>

\* build_state_map at the merge with the next variable.  Both sides have been
\* shrunk to fit the limit together, their product for the next merge.
Merge ==
    /\ pc = "merge"
    /\ merged < Len(Domain)
    /\ \E v \in {opt.order[merged + 1]} :
       \E leaf \in Shrinkings(ValuesOf(v), MaxStates \div Cardinality(Values)) :
       \E shrink \in Shrinkings({PairNumber(v, p) : p \in Pairs(v, leaf)}, MaxStates) :
       \E table \in {[p \in Pairs(v, leaf) |-> shrink[PairNumber(v, p)]]} :
          /\ lookup' = [s \in State |-> table[<<lookup[s], leaf[s[v]]>>]]
          /\ \E done \in {{id \in DOMAIN state_map : id < n} : n \in 0 .. MaxStates} :
                /\ expired => done = {}
                /\ expired' = (expired \/ done # DOMAIN state_map)
                /\ state_map' = MergeMaps(state_map, LeafMap(v, leaf), table, done)
    /\ merged' = merged + 1
    /\ UNCHANGED <<task, opt, pc, levels>>

Group ==
    /\ pc = "merge"
    /\ merged = Len(Domain)
    /\ SumsFit(lookup)
    /\ \E value \in {[d \in Dir |-> AbstractValue(d)]} : GroupStates(value)
    /\ UNCHANGED <<task, opt, merged, expired, lookup, state_map>>

\* PdbLevelSets: the abstract states of the projection, by their distance.
PdbLevels ==
    /\ pc = "start"
    /\ opt.family = "pdb"
    /\ \E table \in {[s \in State |-> [v \in Pattern |-> s[v]]]} :
       \E value \in {TableDistance(table, "bw")} :
          /\ SumsFit(table)
          /\ lookup' = table
          /\ state_map' = [id \in DOMAIN value |-> {s \in State : table[s] = id}]
          /\ levels' = [d \in {"fw"} |-> GroupBy(state_map', value)]
    /\ pc' = "done"
    /\ UNCHANGED <<task, opt, merged, expired>>

\* PotentialLevelSets: the states by their potential; there are no dead ends.
\* Bound: an int holds the potential of every state.
PotentialLevels ==
    /\ pc = "start"
    /\ opt.family = "potential"
    /\ \E potential \in [UNION {{v} \X ValuesOf(v) : v \in Var} -> -m .. m] :
          /\ MeetsConstraints(potential)
          /\ \A s \in State : RawPotential(potential, s) <= INT_MAX
          /\ lookup' = [s \in State |-> Rectified(RawPotential(potential, s))]
    /\ state_map' = [x \in {lookup'[s] : s \in State} |-> {s \in State : lookup'[s] = x}]
    /\ levels' = [d \in {"fw"} |-> state_map']
    /\ pc' = "done"
    /\ UNCHANGED <<task, opt, merged, expired>>

Finished == pc \in {"done", "failed"} /\ UNCHANGED vars

Next == \/ Incomplete \/ Leaf \/ Expire \/ Merge \/ Group
        \/ PdbLevels
        \/ PotentialLevels
        \/ Finished

Spec == Init /\ [][Next]_vars
-----------------------------------------------------------------------------
(* Properties *)

\* While there is time, the sets of states built from the tables agree with the explicit
\* lookup for every state: the self-check, which looks at 200 random states
\* and aborts the program, cannot fail on any other.
MapAgreesWithLookup ==
    pc = "merge" /\ ~expired =>
        \A s \in State : {id \in DOMAIN state_map : s \in state_map[id]} = {lookup[s]}

\* The value of s in the level sets of direction d.
ValueOf(d, s) == CHOOSE x \in DOMAIN levels[d] : s \in levels[d][x]

\* Level sets that are used form a heuristic that is defined for every state,
\* 0 where the direction ends, and consistent, in both directions, with capped
\* values, and whether or not time was short: on this the searches build.
LevelsAreConsistent ==
    pc = "done" => \A d \in DOMAIN levels :
        /\ \A s \in State : \E x \in DOMAIN levels[d] :
              {y \in DOMAIN levels[d] : s \in levels[d][y]} = {x}
        /\ \A s \in Source(task, Opposite(d)) : ValueOf(d, s) = 0
        /\ \A c \in DOMAIN task.ops : \A e \in task.ops[c] :
              LET x == IF d = "fw" THEN e[1] ELSE e[2]
                  y == IF d = "fw" THEN e[2] ELSE e[1]
              IN ValueOf(d, y) # INT_MAX => ValueOf(d, x) <= c + ValueOf(d, y)

\* The pattern is the longest prefix of the order whose projection has no more
\* abstract states than the budget, which bounds the width of the level sets;
\* the code decides it by integer division.
PatternFillsBudget ==
    pc = "done" /\ opt.family = "pdb" =>
        /\ Cardinality(DOMAIN state_map) <= opt.budget
        /\ \A k \in Var : Product(k) <= opt.budget =>
              \A id \in DOMAIN state_map : opt.order[k] \in DOMAIN id
=============================================================================
