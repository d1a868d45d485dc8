------------------------------ MODULE BdPrune ------------------------------
(***************************************************************************)
(* The engine sym_bd_ms: the bidirectional search of UniformCostSearch     *)
(* whose filterFrontier is followed by a WbhPruner in each direction.  The *)
(* pruners are made from one abstraction, either before the search starts  *)
(* or in the callback that registers the first solution, in the midst of   *)
(* a step of the search that they are attached to.                         *)
(***************************************************************************)
EXTENDS UniformCostSearch, Abstraction

CONSTANTS Abstractions,  \* the abstractions merge-and-shrink may come up with
          DeferBuild     \* the option defer_build

ASSUME BdPruneAssumption ==
    /\ Searches = Dir
    /\ DeferBuild \in BOOLEAN
    /\ \A t \in Tasks : ~t.alternating

VARIABLES
  h,               \* per direction: the level sets of its pruner, as a function
                   \* from states to values, INT_MAX for dead ends
  wbh_pruner,      \* the pruners are attached
  build_attempted

pruning == <<h, wbh_pruner, build_attempted>>
bdVars == <<vars, pruning>>

-----------------------------------------------------------------------------
(* SymbolicBdPruneSearch *)

\* With a bound of the user's the pruners are of use from the start.
BuildsEagerly == ~DeferBuild \/ task.bound < INT_MAX

\* The construction may exceed build_time_limit: then there is no pruner.
BdInit ==
    /\ Init
    /\ h \in {Estimates(task, a) : a \in Abstractions}
    /\ build_attempted = BuildsEagerly
    /\ wbh_pruner \in IF BuildsEagerly THEN BOOLEAN ELSE {FALSE}

\* Faulty: the first image builds the pruners, solution or not.
BuildAtOnce(sols) ==
    /\ UNCHANGED h
    /\ build_attempted' = TRUE
    /\ IF DeferBuild /\ ~build_attempted THEN wbh_pruner' \in BOOLEAN
                                         ELSE UNCHANGED wbh_pruner

\* The pruners are made in new_solution while its solution leaves the proof of
\* optimality open.  It is called with one of the cuts sols after the other;
\* if their order decides, then the search is over when all have been seen.
Build(sols) ==
    LET Open(sol) == lower_bound < LesserOf(upper_bound, Cost(sol))
        due == DeferBuild /\ ~build_attempted
    IN /\ UNCHANGED h
       /\ \/ /\ due
             /\ \E sol \in sols : Open(sol)
             /\ build_attempted' = TRUE
             /\ wbh_pruner' \in BOOLEAN
          \/ /\ due => sols = {} \/ \E sol \in sols : ~Open(sol)
             /\ UNCHANGED <<build_attempted, wbh_pruner>>

-----------------------------------------------------------------------------
(* WbhPruner *)

\* Faulty: the slice loses the states that fit the bound exactly.
TightPrune(d, g, states, bound) ==
    {s \in states : h[d][s] # INT_MAX /\ (bound = INT_MAX \/ h[d][s] < bound - 1 - g)}

\* Faulty: each direction is pruned by the distance to where it comes from.
SwappedPrune(d, g, states, bound) ==
    {s \in states : LET v == h[Opposite(d)][s]
                    IN v # INT_MAX /\ (bound = INT_MAX \/ v <= bound - 1 - g)}

\* prune: dead ends go, and, if there is an upper bound, all states of a value
\* above what is left of it at g.
Prune(d, g, states, bound) ==
    {s \in states : h[d][s] # INT_MAX /\ (bound = INT_MAX \/ h[d][s] <= bound - 1 - g)}

\* The rest of filterFrontier: it sees the upper bound, and the pruner, that
\* the cuts of the same bucket have brought about.
Pruned(d, states) ==
    IF wbh_pruner' THEN Prune(d, MinG(open[d]), states, upper_bound') ELSE states

-----------------------------------------------------------------------------

BdStep == Step /\ Build(EmptyPlan)

PruningPop(d) ==
    /\ PopReady(d)
    /\ Build(PoppedCuts(d))
    /\ \E states \in Popped(d) : Close(d, Pruned(d, states))

BdExpand(d) == Expand(d) /\ Build(ImageCuts(d))

OtherStep(d) ==
    /\ \/ BucketReady(d) \/ Exhausted(d)
       \/ Prepare(d) \/ PrepareTruncated(d)
       \/ ExpandTruncated(d) \/ Finish(d)
    /\ UNCHANGED pruning

BdNext == \/ BdStep
          \/ \E d \in Searches : PruningPop(d) \/ BdExpand(d) \/ OtherStep(d)
          \/ Return /\ UNCHANGED pruning
          \/ Done /\ UNCHANGED pruning

BdSpec == BdInit /\ [][BdNext]_bdVars
-----------------------------------------------------------------------------
(* Properties *)

\* Whatever the two directions prune, at bounds that fall while they run and
\* with pruners that turn up late: a successor of an expanded state is closed
\* or open at no larger cost, excluded by a mutex, registered in a plan with
\* the opposite direction, or on no plan cheaper than the best one known.
PrunedAreUseless ==
    \A d \in Searches : \A g \in Level : \A c \in DOMAIN task.ops :
        \A s \in closed[d][g] \cap task.notMutex[d] : Expanded(d, g, s, c) =>
            \A y \in Image(task, d, c, {s}) \cap task.notMutex[d] :
                \/ upper_bound <= g + c + task.dist[Opposite(d)][y]
                \/ \E k \in Level :
                      \/ k <= g + c /\ y \in closed[d][k] \cup open[d][k]
                      \/ upper_bound <= g + c + k /\ y \in closed[Opposite(d)][k]

\* The search is blind until there is an upper bound, and by then the one
\* attempt to build the pruners has been made if they were of any use.
BlindUntilSolution ==
    /\ wbh_pruner => build_attempted
    /\ DeferBuild /\ build_attempted => upper_bound < INT_MAX
    /\ build_attempted \/ upper_bound = INT_MAX \/ lower_bound >= upper_bound
=============================================================================
