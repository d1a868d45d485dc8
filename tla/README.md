# Verification of the symbolic search engines of SymK and its width-bounded heuristics

SymK is a symbolic planner built on Fast Downward: it searches with sets of
states, represented as BDDs, instead of single states. This repository adds
width-bounded heuristics (WBH) to it, given as level sets. What the program
promises is that the plan it prints is a cheapest one (below a user bound, if
any), or that there is none. This directory holds TLA+ models of the engines
that make this promise, and of those that look for the k best plans or for all
plans within a quality; model checking runs; and proofs.

All source paths below are relative to `src/search/symbolic/` of the repository.

## The system

| Component | State | Operations | Hard behaviour | Correct if |
|---|---|---|---|---|
| Driver `search_algorithms/symbolic_search.cc`, `symbolic_uniform_cost_search.cc` | `lower_bound`, `upper_bound`, `lower_bound_increased`, `min_g`, status | `step`, and the callbacks `setLowerBound`, `setMinG`, `new_solution` | bounds are raised from many places in the searches; the bound set during initialization precedes the test of the empty plan; `bound` is exclusive | bounds enclose the optimum, the answer is optimal, it comes |
| `searches/uniform_cost_search.cc` (one per direction) | `frontier`, `open_list`, `closed`, `lastStepCost` | `init`, `prepareBucket`, `filterFrontier`, `checkFrontierCut`, `stepImage` | two-phase expansion with zero-cost operators, delayed duplicate detection, pruning by the other direction's closed list, early returns | no state that matters is lost, levels are exact |
| `searches/bidirectional_search.cc` | `cur_dir`, the estimates of both directions, the image limits | `selectBestDirection`, `stepImage` | directions interleave in an order that depends on time; truncated images are retried under larger limits | the combined bound is sound; no livelock |
| `frontier.cc`, `open_list.cc`, `closed_list.cc` | buckets by cost | set operations and queries | partially filtered buckets | closed levels are complete when left |
| `sym_state_space_manager.cc`, `sym_transition_relations.cc`, `sym_mutexes.cc` | constant relations and mutexes | images, `filter_mutex` | the filter gives up silently at its limits | only useless states are dropped |
| `searches/heuristic_fw_search.cc` (WBH) | `open` and `preexpanded`, keyed by g and v; `closed` | `init`, `stepImage`, `select_min`, `min_open_f`, `keep_slice` | images computed ahead of order; buckets that grow after they were imaged; pruning by the current upper bound | expansion order unchanged, nothing lost, plan reconstructible |
| `wbh_*_levels.cc` | level sets | construction | merging tables, dead ends | a partition, consistent, 0 on goals |
| `wbh_pruner.cc`, `symbolic_bd_prune_search.cc` | pruners, attached late | `prune`, deferred construction | stale upper bound; a callback that changes the search it is called from | pruned states are on no cheaper plan |
| `plan_reconstruction/` | registered cuts, queue of nodes | `register_solution`, `construct_cheaper_solutions`, `reconstruct_plans`, `expand_actions` | zero-cost layers, swapping direction, simple plans | each plan once, none missing |
| `searches/top_k_*`, `search_algorithms/top_[kq]_*`, `plan_selection/` | plans, states on goal paths, `last_g_cost` | `provable_no_more_plans`, `checkFrontierCut`, `new_solution`, `step`, selectors | termination of a search that re-expands states; cuts dropped by a minimum that moves; a bound that follows the quality | all desired plans, in order of cost |

The driver calls `search->step()`; the search calls back `setLowerBound`,
`setMinG` and `new_solution`. In the bidirectional engine each direction reads
the other one's closed list (`perfectHeuristic`). Everything runs in one thread:
the nondeterminism of the models is the choice of the direction (it compares
measured times), where a time or node limit strikes, and how a bucket is split
into BDDs. There is no persistence and no message passing.

Not part of the project's own code or of these models: the BDD library, the rest
of Fast Downward, translator, preprocessor, driver scripts, and experiments.

## The modules

* `SymbolicTask`: a task as the engines see it. A BDD is the set of states it
  denotes; transition relations are sets of pairs, one per operator cost. A task
  record carries the distances of its states with ranks (`IsDistance`); the
  program has no such fields, they say what the cost of a cheapest plan is
  without a recursive definition, so that the proofs can use it. The options of an
  engine are fields of the record as well (`bound`, `alternating`, and, in the
  modules that read them, `simple`, `engine`, `quality`, `selector`, `num_plans`,
  `plan_cost_bound`), so that one run covers several of them. `Plus` is the
  addition of ints, which at `INT_MAX` wraps around: the C++ program has
  undefined behaviour there, and the value that compilers produce is modelled.
* `AnytimeBounds`: the abstract specification of the single-plan engines. Two
  bounds around the optimum that only become tighter, and an answer when they
  meet.
* `SymbolicSearch`: what the engines share. `StepEngine` is
  `SymbolicSearch::step` up to its call of `search->step()`; `NewSolutions`,
  `SetLowerBound`, `SetMinG` are the callbacks; `CheapestCut` is
  `ClosedList::getCheapestCut`. The properties that all engines must have are
  stated here.
* `UniformCostSearch`: `sym_fw`, `sym_bw` and `sym_bd` (`Searches` is the set of
  directions). One call of `stepImage` is split into the actions `BucketReady`,
  `Exhausted`, `Pop` (`prepareBucket`, put together from `PopReady`, `Popped` and
  `Close` so that an engine with a pruner can reuse them), `Prepare`, `Expand`, `Finish`, and
  `PrepareTruncated`, `ExpandTruncated` where a limit may strike; `Return` is the
  end of `BidirectionalSearch::stepImage`. The four buckets of a `Frontier` are
  one set of states and the phase it is in.
* `HeuristicFwSearch`: `sym_fw_pot`, `sym_fw_pdb`, `sym_fw_ms`, with batching and
  with `prune_only`. `Select` is the choice of a bucket and its goal test,
  `Discard` and `Expand` the rest of `stepImage`, `Finish` its last call of
  `setLowerBound`. The heuristic is a variable chosen in `Init`, so a run covers
  every consistent heuristic on its tasks.
* `SolutionRegistry`: `UniformCostSearch` followed by the reconstruction of a plan
  from the registered cut, with the option `simple` or without. `Search` runs the
  engine and records the zero-cost layers of the closed lists next to it;
  `ReconstructNode` is one iteration of the loop of `reconstruct_plans` with the
  whole of `expand_actions`, `GiveUp` the empty queue, `Answered` the end. A
  `ReconstructionNode` is a record with the operators found so far; `Pushed` is
  the swap from the phase through the forward closed list to the other. `Picked`,
  `Narrowed` and `Waiting` are what `simple` makes of a node of several states.
* `PlanSelection`: the plan data base and the six selectors. `AddPlan` is
  `add_plan`, `ReconstructSolutions` the test whether more plans are wanted,
  `StatesOnGoalPaths` what `provable_no_more_plans` asks for.
* `TopKSearch`: `symk_fw`, `symk_bw`, `symk_bd`, `symq_fw`, `symq_bw`, `symq_bd`, on
  top of `UniformCostSearch` and `PlanSelection`. `StartStep`, `ConstructNext` and
  `EndStep` are the driver's `step` with `construct_cheaper_solutions` between its
  halves; `ReconstructPlan` is the loop of `reconstruct_plans` when all plans are
  wanted (`ExpandAllActions`); `NewSolution` is the callback of either engine.
  `PopBucket`, `ExpandFrontier` and `NoMorePlans` are the overridden functions of
  `TopkUniformCostSearch` in their place in `prepareBucket` and `stepImage`;
  `Inherited` is what it leaves as it was. A task carries its plans of limited length
  (`plans`) for the properties to ask for.
* `Abstraction`: abstractions of a task, as functions from states to abstract
  states, and the distances in them.
* `BdPrune`: `sym_bd_ms`, the bidirectional search with a `WbhPruner` in each
  direction. `PruningPop` is `Pop` with `prune` at the end of `filterFrontier`;
  `BdStep`, `PruningPop` and `BdExpand` are the steps that call `new_solution`, and
  `Build` is what this callback adds: the pruners are made and attached in the
  midst of the step, so `Pruned` sees the new bound and the new pruner. The
  construction may run out of time, in which case the search stays blind.
* `LevelSets`: the constructors of the level sets. `Leaf` and `Merge` are
  `build_state_map` along the cascading tables, `Expire` and the choice of `done`
  the time budget, `Group` the rest of `MsLevelSets`; `PdbLevels` and
  `PotentialLevels` are the other two constructors. `lookup` is what the explicit
  abstraction says of each state, kept to compare with.
* `TaskFamilies`, `MCUniformCostSearch`, `MCHeuristicFwSearch`,
  `MCSolutionRegistry`, `MCTopKSearch`, `MCBdPrune`, `MCLevelSets`: instances for TLC,
  families of small tasks with distances computed from their walks.
* `SymbolicTaskLemmas`, `SymbolicSearchLemmas`, `UniformCostSearchProofs`,
  `BdPruneProofs`, `HeuristicFwSearchProofs`, `SolutionRegistryProofs`,
  `LevelSetsProofs`, `TopKProofs`: proofs.

`SymbolicSearch` extends `SymbolicTask`; both searches extend `SymbolicSearch`,
which instantiates `AnytimeBounds`; `SolutionRegistry` and `BdPrune` extend
`UniformCostSearch`, `PlanSelection` extends `SolutionRegistry`, and `TopKSearch` extends
`PlanSelection`. Operators whose comment begins with "Faulty"
are the definitions with a plausible bug; no specification uses them. With each
of them in place of the right one, a run finds its property violated
(`PROJECT.json` lists which).

### What the models leave out

* `non_stop` (off). `wbh_pruner` is null in `UniformCostSearch` and present in `BdPrune`.
* Justified plans: no engine can switch them on.
* Hashing of plans, and writing them to disk: a plan is a sequence of operators, and
  what is ever asked is whether it is among those kept.
* The option `quality` is a fraction; the code has a double, and truncates its product
  with the cost to an int as `QualityBound` does.
* `getAllCuts` returns one cut for each BDD of a closed bucket and of the new one.
  They are merged again when they are registered, so `AllCuts` has one per level. But
  they are reported one by one, and bounds may change in between: `Reported` takes the
  cuts of one g-value in any order.
* Zero-cost layers are kept in `SolutionRegistry` alone, as the searches do not read
  them. The layer of a node is any number: layers are counted by a vector's size. The BDDs of a closed bucket make layers of their own; a bucket of states
  closed at once is split into at most two of them, in every way.
* `min_g` is kept everywhere although only the top-k engines read it.
* `notDeadEndFw/Bw` of the mutexes: no code fills them.
* Results of a truncated image that stay in `Simg`: every expansion starts by
  appending, and those leftovers only repeat states that the retried image
  yields again.
* `construct_cheaper_solutions` erases the cuts it has handled when it is done. The
  single-plan models keep them, as the engine stops then; `ConstructNext` erases
  those of one cost before it reconstructs them, and nobody looks in between.
* A failing image of the heuristic search ends the program; no limit is set on
  it, so the model has no action for it.
* Level sets that overlap or have gaps abort `init`; so a heuristic is a function.
  `HeuristicFwSearch` assumes that it is consistent and 0 on goals (`IsHeuristic`);
  that the constructors make such level sets is what the run `LevelSets` checks. A
  construction that fails leaves no level sets: `sym_bd_ms` then stays blind, `sym_fw_ms`
  does not look at `construction_failed` and aborts in `init` (see the observations).
* How merge-and-shrink, the pattern database and the potential optimizer arrive at
  their results. `LevelSets` takes any shrinking within `max_states`, exact
  distances, and any potentials that meet the constraints of the linear program;
  no abstract state is pruned, as the code switches pruning off. Invalid bit codes
  of a variable are no states.
* The limit on time of the construction in `BdPrune` is one choice, as what
  happens inside is in `LevelSets`.

## The properties and the runs

| Run | Question | Instance | Properties |
|---|---|---|---|
| `UniformCostForward` | is the answer of one direction optimal on whatever graph? | all graphs of 3 states with at most one edge between two, costs 0-2, the goal at the end or also at the start | `TypeOK`, `AnswerOptimal` |
| `Bidirectional` | do the two directions of `sym_bd` interfere, or do mutexes and user bounds make them lose a plan? | 4 states in a row, shortcuts, a way back, costs 0, 1, 3, any order of directions; and mutexes of either kind knowing different useless states, user bounds 0, 3, also with `alternating`; costs 0 and 1 with a goal at the start; images may fail until the limits have been raised once, with `alternating` without end | `BoundsSound`, `ExactLevels`, `PlanReconstructible`, `NothingLost`, `AnswerOptimal`, `ClosedInOrder`, `ClosedAfterPredecessor` |
| `BidirectionalTruncated` | does `sym_bd` answer if images fail? | the row without the way back, costs 0, 1, two increases of the limits | `Termination`, `ImplementsBounds` |
| `Heuristic` | does imaging ahead of order lose states or change the order, and does a slice cut off a cheaper plan? | all consistent heuristics with values 0-3; 6 states, several buckets of one g, window 2; and with `prune_only`: 4 states that matter and two goals that cannot be reached, user bound 4 or none | `TypeOK`, `BoundsSound`, `NothingLost`, `SolutionReconstructible`, `AnswerOptimal`, `SelectionOrder`, `ImplementsBounds`, `Termination` |
| `Reconstruction` | does `sym_bd` turn its cut into a plan although zero-cost operators lead in circles, and with `simple` into one without loops? | 5 states, one of the zero-cost cycles of `LassoTasks` and `ReturnTasks`, operators split and ordered in three ways; `LoopTasks` are the former with `simple` | `RegistryTypeOK`, `PlanValid`, `PlanFound`, `PlanSimple`, `ReconstructionEnds` |
| `SimplePlanLost` | does `sym_bd(simple=true)` always find its plan? It does not: see the observations | `LoopTasks` | `SimplePlanFound`, violated |
| `BdPrune` | does pruning both directions of `sym_bd_ms` cut off a cheaper plan? | 4 states in a row with dearer or cheaper shortcuts, all 15 abstractions, user bound 4 or none, one failing image | `BlindUntilSolution`, `BoundsSound`, `PrunedAreUseless`, `AnswerOptimal` |
| `LevelSets` | do the constructors make the heuristics that the searches rely on? | 3 variables of 2 values, 3 tasks, `max_states` 4, every order, table and potential, values capped at 1 or not, patterns of 1 to 8 abstract states | `LevelsTypeOK`, `MapAgreesWithLookup`, `LevelsAreConsistent`, `PatternFillsBudget` |
| `TopKBackward` | do `symk_bw` and `symq_bw` give what they promise, whatever the selector? | 3 states with a loop before the goal and one behind it, costs 1, 2, user bound 6 or 7; six selectors asked for 1 or 3 plans; quality 1 or 3/2 and 4 plans | `PlansWithinQuality`, `AnswerComplete`, `KPlansFound` |
| `TopKBidirectional` | do the cuts that two directions register, and drop, add up to all plans? | the same graphs with costs 0 and 1, 1 and 3, or 1, any order of directions, one failing image; `symk_bd` for 3 plans, for 2 loopless ones up to order, `symq_bd` within 3/2 | `TopKTypeOK`, `NoPlanMissed`, `ReportedArePlans`, `PlansInOrder` |
| `TopKEndless` | does a top-k engine stop once it has proved that there are no more plans? It does not: see the observations | one task with a loop and an unreachable goal | `TerminatesWhenProven`, violated |
| `TopKHasty` | is it true when a top-k engine finds its open states useless? It is not: see the observations | three tasks of 4 states, one for each cause | `NoneLeftWhenProven`, violated |

Each run explores all its tasks: the initial state chooses one.

* `BoundsSound`: the lower bound passes the optimum only when the upper bound has
  reached it. It is set from six places in the searches, each with its own
  argument.
* `AnswerOptimal`: the plan is optimal and cheaper than the user's bound, or
  there is none below the bound.
* `ExactLevels`: a closed state on a plan cheaper than the upper bound has its
  exact distance as its level, although each direction drops what the other one
  has closed.
* `NothingLost`: successors of an expanded state are closed or open at no larger
  cost, excluded by a mutex, or on a plan that is already registered.
* `PlanReconstructible`, `SolutionReconstructible`: the registered cut and every
  closed state can be traced back through the closed lists at exact costs. For
  the heuristic search the last part is claimed for states on a path to the goal
  whose cost fits an `int`: the mutex filter may give up on a state that is imaged
  ahead and not when it is selected, and then its useless successors have no closed
  predecessor. (A state whose cheapest path to the goal is beyond `INT_MAX` counts as
  one that cannot reach it, so a mutex may exclude it.)
* `ClosedInOrder`: levels are closed in order and never changed later.
* `ClosedAfterPredecessor`: a state is closed after a state it is reached from.
  States of a zero-cost cycle could otherwise vouch for each other, and
  reconstruction would go around the cycle for ever.
* `RegistryTypeOK`, `PlanValid`, `PlanFound`, `PlanSimple`, `ReconstructionEnds`: the
  two halves of a plan, found in two phases through two closed lists, fit together,
  execute and cost the optimum; the operators that are skipped after the first
  progress are not needed; with `simple` no state is visited twice; the loop ends.
  `PlanFound` speaks of plans that may have loops; `SimplePlanFound` is the same for
  `simple`.
* `NoPlanMissed`: when the driver lets the search go on, every plan cheaper than the
  lower bound has been offered to the selector. A cut is dropped if it costs less than
  `min_g`, which moves between the moment a state is generated and the moment it is
  popped: it has to be one that is found elsewhere.
* `PlansInOrder`: no plan is accepted after a dearer one. `CheapestFound`, and with it
  the quality bound, relies on that.
* `ReportedArePlans`: what is accepted is a plan, without a loop if plans are to be simple.
* `PlansWithinQuality`, `AnswerComplete`: it is within the quality;
  an engine that stops with fewer plans than it was asked for has left none out, although
  its bound shrinks while cuts are still registered.
* `KPlansFound`: if there are k plans that the selector accepts, the engine finds k and
  stops. Open states are declared useless by the plans reconstructed so far; too early,
  and plans are lost; never, and the search goes around a loop for ever.
* `NoneLeftWhenProven`: when all open states of a direction are declared useless, no plan
  below the user's bound is left that was not offered to the selector.
* `TerminatesWhenProven`: if all open states are on no further plan, the engine stops.
* `PrunedAreUseless`: the counterpart of `NothingLost` with pruners. What is missing
  from open and closed lists is on no plan cheaper than the best one known,
  although the two directions prune at different times, by a bound that falls, and
  cut against closed lists that the other direction's pruner has thinned out.
* `BlindUntilSolution`: nothing is pruned before there is an upper bound if the
  construction is deferred, and the one attempt is made as soon as it is of use.
* `MapAgreesWithLookup`, `LevelsAreConsistent`: the sets built along the tables agree
  with the explicit lookup in every state (the program samples 200), and level sets
  that get used are a consistent heuristic, capped or not, even if time ran out.
* `PatternFillsBudget`: the test by integer division takes the longest prefix of the
  variables that fits.
* `SelectionOrder`: with batching, states are still closed by f and then g.
* `ImplementsBounds`: the engine implements `AnytimeBounds`. Until the first call
  of `step` the abstract lower bound is 0, as the bound set in `init` is above
  the cost of an empty plan.
* `Termination`: the engine answers.

### Bounds

Costs, g-values and bounds are below `INT_MAX`, a small number in the runs but
larger than the cost of every walk the search follows; `Expand` carries the bound
as a guard. So overflow occurs in the model only where it occurs in the code,
from the value `INT_MAX` itself. Three or four states suffice for what the
properties are about: two directions that meet in a source, in a middle state or
on an edge, a cheap detour against an expensive shortcut, zero-cost cycles; six
states let three buckets of one g exist at the same time. `MaxIncreases` is the
number of increases of the limits after which every image succeeds; two of them
let each direction fail, alone and together, and be resumed; in runs about other
questions one is enough, or none. With `alternating` the limits are never raised,
whatever `MaxIncreases` is.

A search for many plans goes around loops for as long as its bounds admit: the user
bound of a cyclic task ends it. The plans that a task carries as `plans` are those of at
most `MaxPlanLength` operators that cost less than this bound; there are longer ones only
on zero-cost loops, and the properties do not ask for those. The zero-cost tasks of
`TopKBidirectional` have just two zero-cost edges, since more of them multiply the plans
and show nothing new. Loopless plans are looked for in tasks of positive costs only: with
zero-cost operators plans are lost (see the observations).

Reconstruction extends no plan of more than `MaxPlanLength` operators. No node gets
that long with the value of the runs: `ReconstructionEnds` would fail, since a run
that stops at the bound never returns. Five states hold a zero-cost cycle between
the initial state and the goal, with a way around it. An operator of a task is a
partial function; the edges of a family are grouped into operators by distance or by
target, and operators of equal cost come in increasing or decreasing order, since
the order decides which of them `expand_actions` skips.

### Fairness

`FairSpec` is weak fairness of `Next`: the program is one thread that never
waits, so it takes a step while it can. `RegistryFairSpec` says the same of search
and reconstruction together, `TopKFairSpec` of the engines for many plans. Termination of `sym_bd` also rests on
`MaxIncreases`: limits that are multiplied again and again eventually admit every
image. With `alternating` they are never increased, and termination is not
claimed.

## What is proved

The proofs hold for all tasks, all sets of states and all options, under the
assumptions named in the modules (`IntMaxAssumption`, `TasksAssumption`,
`SearchesAssumption`, `IncreasesAssumption`, `ModeAssumption`, `ValuesAssumption`,
`BdPruneAssumption`, `RegistryAssumption`, `OperatorsAssumption`, `StatesAssumption`,
`FactsAssumption`, `OptionsAssumption`). `OperatorsAssumption` says that an operator is a
partial function on states and that the operators of each cost make up the transition
relation of that cost; `StatesAssumption` that states are finitely many; `FactsAssumption`
that a state assigns values to variables and that changing one value gives a state;
`OptionsAssumption` that the options of the level sets are within the bounds that the
program declares for them. `SelectorAssumption` and `EngineAssumption` say
that the options of the selectors and of the engines for many plans are of their types.

### Types, tracing and order

The invariants of `UniformCostSearchProofs` are proved for `LossyNext`, in which `Pop`
may drop any states of the bucket before it closes the rest (`PopSome`). `Next` is
a special case (`NextIsLossy`), and so is every step of `BdPrune`
(`BdNextIsLossy`): a pruner only removes states. That they are inductive even then
says that neither type correctness nor reconstruction depends on which states a
filter drops, be it the mutex filter or a pruner.

* `UniformCostSearchProofs!TypeCorrect`: `Spec => []TypeOK`. The type invariant
  is not quite trivial: sums that may overflow must not reach the bounds, and the
  smallest key of an open list exists as it is a set of naturals.
* `UniformCostSearchProofs!PlansReconstructible`: `Spec => []PlanReconstructible`.
  The invariant `TraceInv` adds what the property rests on: frontier and open
  states can be traced back as well, and closed lists only grow. Then every cut,
  taken where a bucket meets the other closed list, can be traced back in both
  directions, and stays so while images are truncated and directions alternate.
* `UniformCostSearchProofs!ClosedAreTraced`: `Spec => ClosedAfterPredecessor`. A
  bucket is closed by `Pop` alone (`OnlyPopCloses`), and `TraceInv` says that its
  states have been traced before. So a traceable state has a finite walk back to
  a source, which reconstruction relies on.
* `UniformCostSearchProofs!ClosedStaysInOrder`: `Spec => ClosedInOrder`. The invariant
  `OrderInv` says that what is open or in the frontier costs no less than what
  is closed; that a popped bucket has lost its closed states is a fact about `Pop`
  (`PopFacts`). It needs `TypeOK`, as a sum that overflowed would break the order.
* `BdPruneProofs!BdTypeCorrect`, `BdPlansReconstructible`, `BdClosedInOrder`: the same for
  `sym_bd_ms`, for every set of abstractions, eager or deferred construction.
* `HeuristicFwSearchProofs!TypeCorrect`: `Spec => []TypeOK`; dead ends are never
  queued and no f-value overflows, in both modes and for every window.

### Soundness and optimality

What is said here depends on which states a filter drops. It is proved for
`CarefulNext(W)`, in which a filter may drop those states of the set `W` whose cost so far
and cost to go together reach the upper bound. `Next` does that for no states
(`NextIsCareful`), `BdPrune` for any.

`SearchInv` (`UniformCostSearchProofs`) is the inductive invariant. `NothingLostBut(W)` is
`NothingLost` with that exception; `LevelInv` says that nothing is below its distance,
`PlanInv` that the upper bound is the least of the user's bound and the cost of the
registered cut, and that no cut is missed; the rest says where the program is: which
bucket is in the frontier in which phase (`PhaseInv`), that the open list is not behind
it (`StockInv`), that sources are closed or about to be (`SourceInv`), that an edge
between two closed lists has been seen (`MetInv`, `EdgeInv`). That levels are exact then
follows from the state of least rank that is not closed at its distance (`ExactLevels`):
its predecessor on a cheapest path is, so it waits in the open list at its distance, and
all that has been popped was cheaper.

* `UniformCostSearchProofs!NothingIsLost`, `LevelsAreExact`: `Spec => []NothingLost` and
  `Spec => []ExactLevels`, for one direction and two.
* `UniformCostSearchProofs!BoundsAreSound`: `Spec => []BoundsSound`. `EstimatesSound` is
  about the values that a direction computes (`getF`, `getG`, and the sum of both
  directions with the cost of a cheapest operator). While the bounds are apart, some
  cheapest plan crosses both frontiers: the estimates cannot exceed it.
* `UniformCostSearchProofs!AnswersAreOptimal`: `Spec => []AnswerOptimal`. An answer is given
  when the bounds meet; by `PlanInv` the upper one is the cost of the cut that is
  reconstructed or the user's bound (`Verdict`).
* `UniformCostSearchProofs!EngineIsAnytime`: `Spec => ImplementsBounds`, the refinement of
  `AnytimeBounds`, with the initial states by `BoundsInit` and steps by `BoundsNext`.
* `BdPruneProofs!BdPrunedAreUseless`, `BdBoundsAreSound`, `BdAnswersAreOptimal`,
  `BdEngineIsAnytime`: the same for `sym_bd_ms`. A value that is zero on the sources and
  grows along no operator by more than its cost is at most the distance
  (`ConsistentIsAdmissible`, once more by the least rank), so what `Prune` removes is on no
  plan below the bound of that moment (`PrunedIsUseless`); bounds only fall, so it stays
  useless. That the distances in an abstraction are consistent is not assumed:
  `AbstractDistanceIsConsistent` is about the rounds of relaxations that compute them. By
  the number of rounds, an entry that is found is the end of a walk of as many arcs, and an
  entry that changes in a round changed a neighbour in the round before; so a change in the
  last round would need more states than there are.
* `BdPruneProofs!BdBlindUntilSolution`: `BdSpec /\ []FirstCutsFit => []BlindUntilSolution`. A
  bucket reports several cuts, in an order that is not known, and each may find the proof still
  open and call for the pruners, or lower the upper bound so far that no later one does. If none
  calls for them, the cheapest cut has made the bounds meet (`AttemptsBuild`). `FirstCutsFit`
  says that while no plan is known no cut costs `INT_MAX` or more: `new_solution` would not
  register that one, but build the pruners for it. It holds in every state of the run `BdPrune`.

### The heuristic search

`HeuristicFwSearchProofs` needs no assumption on the heuristic but `IsHeuristic`, and none on
the window. `SearchInv` is the conjunction of

* `FixedInv`: the list in place of the backward search is the goal, the bucket at work
  holds no goal and states of one value, no goal is ever closed;
* `LevelInv` and `PlanInv`, as above;
* `OrderInv`: what is closed comes no later, by f and then g, than the bucket at work, and
  this no later than what is queued. It is inductive because a successor comes no earlier
  than the selected bucket also if its predecessor was imaged ahead of its turn
  (`SuccessorsComeLater`, by consistency);
* `LostInv`: the successors of a state that was imaged, ahead or in its turn, are
  `Accounted` for at their cost. A state that is dropped as closed was closed at no larger
  cost by `OrderInv` (`ClosedAtMost`), one that the filter or the slice drops is of no use
  (`RemainingFacts`), and a goal that is dropped has set the upper bound (`GoalCut`);
* `BoundInv`: the bounds are sound. While a cheapest plan is missing, consider the states
  of such a plan that were reached in time: the one nearest to the goal is not closed, so it
  waits, with an f of at most the optimum (`SomeoneWaits`, by `Admissible`).

The theorems are `SelectionIsInOrder`, `NothingIsLost`, `BoundsAreSound`,
`AnswersAreOptimal` and `EngineIsAnytime`: `SelectionOrder`, `NothingLost`, `BoundsSound`,
`AnswerOptimal` and `ImplementsBounds` for every task and heuristic.

`SolutionsAreReconstructible` is `Spec => []SolutionReconstructible`. The successors of a
state that is imaged ahead are queued before that state is closed, if it ever is, so it is
not invariant by itself. `OriginInv` says of each entry that waits, or is at work, why it
may (`HasOrigin`): its predecessor is closed exactly one operator below, or `Pending`,
marked as imaged and still to be closed; or the entry itself will not be closed, since the
state is `Accounted` for at less, on no cheaper plan (`Dull`), or `Beyond` an `int` on its
way to the goal, as everything is that a mutex excludes. When the entry's turn comes,
nothing of a smaller g is left at the same f, which leaves the closed predecessor
(`KeptIsTraceable`, and `RegisteredIsTraceable` for goals).

### Reconstruction

`SolutionRegistryProofs` follows the search of `sym_fw`, `sym_bw` or `sym_bd` into the
reconstruction of its plan; it rests on `AnswersAreOptimal`, as the cut to start from has
the optimal cost. What a sequence of operators does is defined by a recursive function;
`Chain` is the list of its values, which exists and is unique (by the least place where
two would differ), so that operators can be put before and behind a sequence (`ConsRun`,
`AppendRun`).

`RegistryInv` says what each `ReconstructionNode` that waits promises: in the first phase
(`FwdNode`) the operators found so far and the cost that is left add up to the optimum, and
if there is no second phase they lead from each of its states to the goal; in the second
phase (`BwdNode`) they lead from the initial state to each of its states. `SeedInv`,
`CutInv` and `LayerInv` say what the search leaves behind: the closed list of a direction
that is not searched, the cut, and the first zero-cost layer of each direction.

* `PlansAreValid`: `RegistrySpec => []PlanValid`. The promise survives the loop
  of `reconstruct_plans` whatever node comes first, the swap from the first phase to the
  second (`PushedInv`), and the splitting of nodes with `simple`.
* `PlansAreSimple`: `RegistrySpec => []PlanSimple`. The strengthening `NodeSimple`: along
  the operators of a node there is a way on which no state lies twice and all states but
  the one that is to be expanded next have been visited; operators are deterministic, so
  that way is what the plan does (`WayIsRun`).
* `PlanIsFound`: `RegistrySpec => []PlanFound`, for plans that need not be simple. A node
  that waits is `Alive`: its states can be traced on to the initial state and, from where
  its operators lead to, to the goal (by `PlansReconstructible` of the search). So an
  operator leads on from it, and the first one that does is never skipped. A node that is
  about to swap may lead nowhere, as it has come to the initial state; then its
  counterpart in the second phase waits as well. `SimplePlanLost` shows why `simple` is
  excluded.

* `RegistryTypeCorrect`: `RegistrySpec => []RegistryTypeOK`. No node runs out of states: in
  the first phase its operators can be executed in each of its states (`Executable`), so
  that the second phase has states to start from, and its remaining cost never falls below
  zero.

### Level sets

`LevelSetsProofs` is about the three constructors. `LevelsInv` has the parts

* `StageOK`: where the construction is, and that the map of sets of states has no empty
  entries;
* `MapIsFree`: whether a state is in the map's entry does not depend on the variables that
  are still to be merged. So each pair of entries has a state in common, and no entry gets
  lost in a merge;
* `MapAgreesWithLookup`, which makes the entries a partition;
* `LevelsAreHeuristic`: the level sets that there are belong to a consistent heuristic.

`GroupByFacts` turns a map and values into level sets, `DistancesAreHeuristic` and
`CappedIsHeuristic` say why the values are consistent (`SumsFit`, a bound of the model,
keeps a finite distance apart from infinity), `PotentialIsHeuristic` derives it from the
constraints of the potential optimizer.

* `LevelsTypeCorrect`, `MapIsCorrect`, `LevelsAreAConsistentHeuristic`: `LevelsTypeOK`,
  `MapAgreesWithLookup` and `LevelsAreConsistent` for all domains, orders, tables and
  moments at which time runs out. What the searches assume of their heuristic is thus
  what the constructors provide.
* `PatternFitsBudget`: `Spec => []PatternFillsBudget`. Products of domain sizes
  only grow (`ProductGrows`), so by `DivisionFacts` the chosen variables are a prefix of the
  order (`PatternIsPrefix`); the abstract states of the projection are counted by
  induction over its variables (`ProjectedIsSmall`).

### Many plans

`TopKProofs` is about `TopKSpec`: `symk` and `symq`, in one direction or two, whatever the
selector rejects and wherever images fail.

* `TopKTypeCorrect`: `TopKSpec => []TopKTypeOK`. `EngineInv` says of the lists and the
  registered cuts, `PlansInv` of the nodes and the plans, what the proofs of the other
  engines say of theirs; closed lists hold a state at many costs, so only the half of
  `ExactLevels` that is left is used: no level is below the distance (`LevelInv`). A report
  is a fold of `new_solution` over the cuts in any order; `ReportedStays` turns what one
  call of it keeps into what the report keeps.
* `ReportedPlansAreValid`: `TopKSpec => []ReportedArePlans`. The nodes of the queue keep
  `Promised` although the forward phase goes on beside the backward phase; a way that
  visits no state twice is counted as such by `IsSimple` (`WayIsCounted`).

* `NoPlanIsMissed`: `TopKSpec => [](AllPlansKept => NoPlanMissed)`. `AllPlansKept` excludes
  only `simple` in two directions with zero-cost operators, where the code does lose plans
  (see the observations). A plan is followed by its `Course`, the states it goes through and
  what it has cost at each. The argument has four parts.
  - `ListInv`: each direction lists all useful successors of what it has expanded
    (`Lossless`), in order (`Leading`); so it has closed a course as far as it has passed
    its costs (`WalkIsClosed`).
  - `CutsInv(m)`: wherever the directions meet, at costs of `m` or more, there is a cut: in
    a state that both have closed (`MetIn`), in an operator between them (`MetBetween`), or
    where the other direction starts (`MetAtSource`). `CutsKept` says this of `m = Passed`,
    the cost below which everything is settled. That cuts cheaper than `min_g` are dropped
    is thereby harmless: the course is met by another cut, or has been before
    (`CutsGoOn`, `PassedIsHandled`).
  - `NoneLost`: a plan whose cut is no longer registered has been considered, or some node
    of the queue `Covers` it: the operators the node has are a part of the plan, and the
    rest can be traced through the closed lists. A node that is expanded passes this on
    to one of its successors (`TakenExpands`), a cut that is taken apart to its node
    (`CutIsCovered`), a node that is split to one of its parts (`SplitCovers`).
  - `SureOfPlans`: what costs less than a lower bound that the driver has noticed has been
    considered; when the bound rises, the driver constructs all cuts that are due before it
    goes on.
* `PlansAreInOrder`: `TopKSpec /\ AllPlansKept => PlansInOrder`. All nodes of the queue have
  one cost, the least that is due (`NodesInTurn`). Once a plan is accepted, all cheaper ones
  have been considered, or none of those that this call of `step` still reconstructs is
  cheaper (`PlansOrdered`); the first alternative follows from `SureOfPlans` when the call
  ends. A plan that has been rejected is not accepted later (`RejectedForGood`), so a cut that
  is registered twice brings no late plans.
* `ReportedPlansAreWithinQuality`: `TopKSpec => []PlansWithinQuality`, without conditions. The
  property measures a plan by the optimum of the task, the code by the cheapest cut it has
  registered; the two agree only if the cheapest plan is cut before a dearer one is
  reported. `QualityInv` is the inductive invariant.
  - The distances of the task are those of a plan: the predecessors in `rank` give, state by
    state, a way of that cost (`CheapestWayExists`), and one to a nearest goal is a course
    (`OptimalCourse`), so that `CutsKept` and the lists apply to it.
  - `OptimumSeen`: once the engine has passed the optimum, `upper_bound` is no more than the
    quality of the optimum admits (`QualityKnown`), or enough plans have been found. A
    direction that goes on has passed the course of a cheapest plan and cut it
    (`CheapestIsCut`). A direction that gives up because no open state is on a goal path has
    closed that course all the same (`CheapestIsClosed`): its first open state would have
    been closed before at a smaller cost, but no cost is smaller than the distance. In the
    first step this needs that nothing has been found yet (`NothingFound`).
  - `CutsGraded`: with `symq`, the cheapest registered cut determines `upper_bound`, however
    the cuts of one report are ordered (`NewSolutionGraded`, `ReportedGraded`), so that a cut
    of a cheapest plan lowers it to the quality of the optimum (`CutTellsQuality`).
  - `LimitBelowBounds`, `NodesWithinQuality`: what a call of `step` constructs costs less than
    both bounds, so that a node which is dearer than the optimum is within its quality.

The last two theorems hold under `SureToProve`: no operator is free, plans may have loops, and
the selector is not `unordered`. The run `TopKHasty` shows that none of the three can be left
out: each of its tasks breaks one of them, and the proof of `provable_no_more_plans` is false.

* `WhatIsProvenIsTrue`: `TopKSpec => [](SureToProve => NoneLeftWhenProven)`. When a direction
  finds all its open states useless, every plan below the user's bound has been offered to the
  selector. `AnytimeInv` is the inductive invariant.
  - If the course of a plan is closed up to its end, at the costs of the course, the direction
    has explored the cost of the plan, and plans of that cost have been offered: a frontier is
    expanded only after the driver has noticed a lower bound above it, and has constructed the
    cuts that are due (`ExploredIsSeen`, from `Upwards` and `Attentive`).
  - Otherwise some state of the course is open (by `Lossless`); take the last one. It is
    useless, so it has been closed before at a smaller cost. What is closed has been reached
    at the cost of its level (`TracedBack`, `ClosedIsReached`). That way and the rest of the
    course are a plan (`ReachedIsCourse`). As nothing behind that state is open, the rest is
    closed at the costs of this plan, and so it has been offered
    (`ShortcutIsSeen`). The states of a plan
    that was considered are on goal paths (`OnGoalPath`; not with `unordered`), but a useless
    state is on none (`UselessIsClosed`).
* `AnswersAreComplete`: `TopKSpec => [](SureToProve => AnswerComplete)`. An engine that stops
  with fewer plans than it was asked for has left out none below the user's bound and, with
  `symq`, within the quality. `AnswerInv` adds to `AnytimeInv` what holds once the bounds have
  met: each plan that is `Expected` has been considered, is cut, or is covered by a node of the
  queue (`AllComing`). The bounds meet in one of three ways: the lower bound has risen past all
  such plans (`SureOfPlans`), it was set to `INT_MAX` because no open state is useful
  (`ProvenIsSeen`) or none is left, or a cut has lowered the upper bound, which never excludes
  a plan within the quality (`UpperAdmits`, `AskedIsAdmitted`). The call of `step` that finds
  them met reconstructs with a limit of at least the upper bound (`LimitIsLast`) and answers
  when the queue is empty and no cut is left (`StopSeesAll`).

### Only model-checked

* `KPlansFound` is liveness, and so are `Termination` and `ReconstructionEnds`: that something
  ends under fairness is out of reach of the prover. All invariants and action properties that
  the runs check are proved; `NoPlanMissed`, `PlansInOrder`, `AnswerComplete` and
  `BlindUntilSolution` under the
  condition named there.
* `AnswerComplete` outside of `SureToProve`: the run `TopKBackward` checks it with the selector
  `unordered` as well, where it is a claim about the tasks of the run.
* What a fold or a recursive function computes for every input.

## Observations

* `prune_only` is described (`searches/heuristic_fw_search.h`, and the comment at
  line 434 of the `.cc` file) as pruning "once an anytime upper bound U is known
  from the engine's solution cuts". As buckets are selected in order of g and
  goals are tested on selection, the first cut found is optimal and ends the
  search; so the slice acts in fact only when the user gave a `bound`.
* The comment "Filtering is monotone" (line 305) does not hold when the mutex
  filter gives up on a bucket; the model has this case, and it is harmless.
* `sym_bd(simple=true)` can answer that a solvable task has no plan (run
  `SimplePlanLost`). The README says that simple plans "can be combined with any SymK
  search engine". A node made from a cut has `numeric_limits<int>::max()` as its layer, so the
  first zero-cost predecessor of it counts as progress and `expand_actions` returns
  (`plan_reconstruction/sym_solution_registry.cc:187`). If the forward search has closed
  the cut states as well, that predecessor may be reached through the visited cut state
  only. The other predecessors have not been pushed, the queue runs empty, and the
  driver reports `FAILED`. In the task of the run, 1 -0-> 2, 2 -0-> 3, 3 -0-> 2, 2 -1-> 4
  and 5 -0-> 4, the plan from 1 over 2 to 4 is lost when 3 is looked at first.
* A top-k engine that has proved that there are no more plans spins (run `TopKEndless`).
  `plan_selector.h:88` says that it terminates "if open contains only states which are in
  the closed list and not on an accepted goal path". `provable_no_more_plans` finds this
  and sets the lower bound to `INT_MAX`, but the loop
  `while (!frontier.bucketReady() && !open_list.empty()) prepareBucket();` at
  `searches/uniform_cost_search.cc:209` does not look at the bounds: `prepareBucket`
  returns without popping anything, and is called again. In the run `symk_fw` loops on
  1 -1-> 2, 2 -1-> 1 with a goal that cannot be reached. The proof is put to use only if
  it is found in the call of `prepareBucket` at the beginning of `stepImage`.
* `provable_no_more_plans` may be true although plans are left (run `TopKHasty`), in each
  of three ways. With zero-cost operators, even where no plan passes them, the lower bound
  after a bucket is the cost of that bucket; a plan of this cost is registered but not
  constructed yet, so its states do not count as being on a goal path. The `unordered`
  selector drops a plan that is equivalent to an accepted one without recording its states
  (`plan_selection/unordered_selector.cc:18`), although a loop through them gives plans of
  another class. And with `simple=true`, what a reconstruction drops because of a loop
  records nothing, although a loopless plan may make a detour by those states.
  `plan_selector.h:86` introduces the option as the wish "to proof that no more (accepted)
  plans exits". `KPlansFound` is claimed for positive costs, plans that may have loops, and
  the other selectors; for these the proof is correct (`WhatIsProvenIsTrue`).
* `symk_*` report plans that cost the user's `bound` or more if they are found in the last
  call of `step`, which constructs the plans of all cuts (`search_algorithms/symbolic_search.cc:88`,
  with `INT_MAX`), although the option is described as an "exclusive depth bound"
  (`../search_algorithm.cc:190`). `Remaining` is the code's choice; `PlansWithinQuality`
  and `AnswerComplete` hold with it.
* `symk_*(simple=true)` with zero-cost operators loses plans in both directions:
  `expand_actions` keeps the forward node beside the swapped one only under `no_pruning()`
  (`plan_reconstruction/sym_solution_registry.cc:179`), which is false with `simple`. The
  plan 1 -0-> 2 -1-> 3 may be missed after the node has swapped at the initial state.
* `symk_bd` and `symq_bd` ignore the option `alternating`: they do not hand it to their
  `BidirectionalSearch`.
* With `symq_*` and a selector that rejects plans, `upper_bound` follows the cheapest plan
  found, be it accepted or not.
* With `alternating=true` no image limit is ever increased (`bidirectional_search.cc:28`).
* `sym_fw_ms` does not look at `construction_failed`. It sets no limit on time, but
  merge-and-shrink stops early as well when a factor shows that the goal cannot be reached,
  and leaves several factors (`wbh_ms_levels.cc:103`). There are no level sets then, and
  `HeuristicFwSearch::init` aborts since they do not cover all states
  (`heuristic_fw_search.cc:76`), where it could have reported an unsolvable task.
* `HeuristicFwSearch::stepImage` never finds both queues empty
  (`heuristic_fw_search.cc:196`): the step that emptied them has raised the lower
  bound to `INT_MAX`, and the driver answers first. The model has no action for the
  branch, and the deadlock check of its runs shows that none is needed.
* `BucketReady` never finds the engine solved, as the driver has compared the
  bounds just before; the test in the code is redundant.

## Plan

Done: all engines of the repository for one plan and for many, with and without
heuristic and pruning, level sets, reconstruction and selectors; type correctness,
traceability, order, exact levels, sound bounds, optimality and refinement proved for
the uniform-cost engines and for the pruned one; order, sound bounds, optimality and
refinement for the heuristic ones; that reconstruction finds a valid plan for the
uniform-cost ones; the level sets; that the engines for many plans report plans only, within the
quality asked for, miss none and find them in order, that what they prove of the open lists is
true, and that their answer is complete.

1. `AnswerComplete` for the selector `unordered`, whose certificate of equivalent plans the
   proofs do not look into.
2. Pure algorithms that change the representation of a relation only: `mergeAux`
   (`sym_utils.h`), e-deletion of mutexes.
