--------------------------- MODULE SymbolicSearch ---------------------------
(***************************************************************************)
(* What the single-plan engines share: the driver SymbolicSearch::step     *)
(* with its bounds, the solution callback of the engines that keep one     *)
(* cheapest solution, the registry's cut, and the closed lists that cuts   *)
(* are computed from and plans are reconstructed from.                     *)
(*                                                                         *)
(* The program is sequential; pc is the call it is in.  "init" is the      *)
(* first call of step (step_num = 0), "step" any later one; the modules    *)
(* that extend this one add the places inside search->step().              *)
(***************************************************************************)
EXTENDS SymbolicTask

VARIABLES
  task,                 \* the task and options, fixed during a run
  status, lower_bound, upper_bound, lower_bound_increased, min_g,
  sym_cuts,             \* the cut SymSolutionRegistry holds, if any
  closed,               \* per direction: the closed list, or what is seeded
                        \* in its place if the direction is not searched
  pc

engine == <<status, lower_bound, upper_bound, lower_bound_increased, min_g, sym_cuts>>

\* Bucket lists keyed by cost; a level without a key is the empty set.
Levels == [Level -> SUBSET State]

NoStates == [g \in Level |-> {}]

Cuts == [g : Level, h : Level, cut : SUBSET State]

EngineTypeOK ==
    /\ IsTask(task)
    /\ status \in {"IN_PROGRESS", "SOLVED", "FAILED"}
    /\ lower_bound \in Level
    /\ upper_bound \in Level
    /\ lower_bound_increased \in BOOLEAN
    /\ min_g \in Level
    /\ sym_cuts \subseteq Cuts
    /\ closed \in [Dir -> Levels]

-----------------------------------------------------------------------------
(* ClosedList *)

ClosedTotal(d) == UNION {closed[d][g] : g \in Level}

\* Faulty: g and h are not exchanged for the backward direction.
UnorientedCut(d, g, states) ==
    LET met == {h \in Level : states \cap closed[Opposite(d)][h] # {}}
        h == Least(met)
    IN IF met = {} THEN {}
       ELSE {[g |-> g, h |-> h, cut |-> states \cap closed[Opposite(d)][h]]}

\* Faulty: only the states the opposite direction started from are solutions.
SourceOnlyCut(d, g, states) ==
    LET cut == states \cap closed[Opposite(d)][0]
    IN IF cut = {} THEN {}
       ELSE {IF d = "fw" THEN [g |-> g, h |-> 0, cut |-> cut]
                         ELSE [g |-> 0, h |-> g, cut |-> cut]}

\* getCheapestCut, called on the opposite closed list with a BDD of states that
\* direction d has reached at cost g.
CheapestCut(d, g, states) ==
    LET met == {h \in Level : states \cap closed[Opposite(d)][h] # {}}
        h == Least(met)
        cut == states \cap closed[Opposite(d)][h]
    IN IF met = {} THEN {}
       ELSE {IF d = "fw" THEN [g |-> g, h |-> h, cut |-> cut]
                         ELSE [g |-> h, h |-> g, cut |-> cut]}

\* The cuts of the BDDs of a bucket.  How a bucket is split into BDDs is up to
\* the merge limits, so any part of it may be one.
CheapestCuts(d, g, bucket) == UNION {CheapestCut(d, g, B) : B \in SUBSET bucket}

-----------------------------------------------------------------------------
(* SymStateSpaceManager::filter_mutex: max_aux_time and max_aux_nodes *)

\* The filter goes through the BDDs of a bucket one by one; when it gives up
\* the rest stays as it was.
FilteredInPart(d, initialization, bucket) ==
    {S \in SUBSET bucket : FilterMutex(task, d, initialization, bucket) \subseteq S}

-----------------------------------------------------------------------------
(* SymbolicSearch: the calls the searches make back into the engine *)

\* Faulty: the last bound computed wins.
OverwriteLowerBound(x) ==
    lower_bound' = x /\ lower_bound_increased' = (lower_bound_increased \/ x > lower_bound)

SetLowerBound(x) ==
    /\ lower_bound' = GreaterOf(lower_bound, x)
    /\ lower_bound_increased' = (lower_bound_increased \/ x > lower_bound)

SetMinG(x) == min_g' = GreaterOf(min_g, x)

Cost(sol) == sol.g + sol.h

\* Faulty: a plan as expensive as the upper bound is accepted.
AcceptEqualCost(sols) ==
    IF \E sol \in sols : Cost(sol) <= upper_bound
    THEN \E sol \in sols :
            /\ \A other \in sols : Cost(sol) <= Cost(other)
            /\ sym_cuts' = {sol}
            /\ upper_bound' = Cost(sol)
    ELSE UNCHANGED <<sym_cuts, upper_bound>>

\* new_solution is called with one cut after the other and keeps a solution
\* that is cheaper than the best so far; sols are all of them.  A cheapest one
\* survives, and the registry holds no other.
NewSolutions(sols) ==
    IF \E sol \in sols : Cost(sol) < upper_bound
    THEN \E sol \in sols :
            /\ \A other \in sols : Cost(sol) <= Cost(other)
            /\ sym_cuts' = {sol}
            /\ upper_bound' = Cost(sol)
    ELSE UNCHANGED <<sym_cuts, upper_bound>>

Solved == lower_bound >= upper_bound

-----------------------------------------------------------------------------
(* SymbolicSearch::step *)

\* The empty plan is registered in the first call only.
EmptyPlan == IF pc = "init" /\ task.init \in task.goal
             THEN {[g |-> 0, h |-> 0, cut |-> {task.init}]}
             ELSE {}

\* construct_cheaper_solutions: the registered cut yields the desired plan if
\* it costs less than the given bound.
Constructs(cuts, limit) == \E sol \in cuts : Cost(sol) < limit

\* Everything step does before it calls search->step().
StepEngine ==
    /\ status = "IN_PROGRESS"
    /\ pc \in {"init", "step"}
    /\ NewSolutions(EmptyPlan)
    /\ status' = IF lower_bound >= upper_bound'
                 THEN IF Constructs(sym_cuts', INT_MAX) THEN "SOLVED" ELSE "FAILED"
                 ELSE IF lower_bound_increased /\ Constructs(sym_cuts', lower_bound)
                 THEN "SOLVED"
                 ELSE "IN_PROGRESS"
    /\ lower_bound_increased' = FALSE
    /\ UNCHANGED <<task, closed, lower_bound, min_g>>

-----------------------------------------------------------------------------
(* Properties *)

Optimum == OptimalCost(task)

\* Once the empty plan has been considered, the lower bound never passes the
\* cost of a cheapest plan, unless that plan is already the registered one:
\* every setLowerBound call of a search must justify its value.
BoundsSound == pc # "init" => lower_bound <= Optimum \/ upper_bound <= Optimum

\* The answer: a solved task got a plan of optimal cost below the user's
\* bound, a failed one has no plan below it.
AnswerOptimal ==
    /\ status = "SOLVED" => /\ Optimum < task.bound
                            /\ \E sol \in sym_cuts : Cost(sol) = Optimum
    /\ status = "FAILED" => Optimum >= task.bound

\* The levels of a closed list are exact for every state that lies on a plan
\* cheaper than the best known one: whatever a search prunes, it never reaches
\* such a state on a detour.
ExactLevels ==
    \A d \in Dir : \A g \in Level : \A s \in closed[d][g] :
        CostThrough(task, s) < upper_bound => g = task.dist[d][s]

\* s can be traced back from level g of direction d: it is the source, or a
\* closed state that reaches it lies exactly one operator below.
Traceable(d, g, s) ==
    \/ g = 0 /\ s \in Source(task, d)
    \/ \E c \in DOMAIN task.ops : /\ c <= g
                                  /\ \E r \in closed[d][g - c] : Edge(task, d, c, r, s)

\* The plan of the registered cut can be reconstructed from the closed lists
\* alone, as SymSolutionRegistry does, and costs exactly the upper bound.
PlanReconstructible ==
    /\ upper_bound < task.bound =>
          \E sol \in sym_cuts : Cost(sol) = upper_bound /\ sol.cut # {}
    /\ \A sol \in sym_cuts : \A s \in sol.cut :
          Traceable("fw", sol.g, s) /\ Traceable("bw", sol.h, s)
    /\ \A d \in Dir : \A g \in Level : \A s \in closed[d][g] : Traceable(d, g, s)

\* The engine keeps the promise of AnytimeBounds.  Before the first step the
\* lower bound is not a claim yet: the empty plan has not been looked at.
Bounds == INSTANCE AnytimeBounds WITH
    INFINITY <- INT_MAX,
    optimum <- OptimalCost(task),
    bound <- task.bound,
    lb <- IF pc = "init" THEN 0 ELSE lower_bound,
    ub <- upper_bound

ImplementsBounds == Bounds!Spec

\* The engine answers.
Termination == <>(status # "IN_PROGRESS")
=============================================================================
