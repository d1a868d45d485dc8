----------------------------- MODULE TopKSearch -----------------------------
(***************************************************************************)
(* The engines symk_fw, symk_bw, symk_bd and symq_fw, symq_bw, symq_bd,    *)
(* which look for the k best plans, or for the plans whose cost is within  *)
(* a factor of the optimum.  They run the searches of UniformCostSearch    *)
(* with three functions overridden (TopkUniformCostSearch): a state is     *)
(* expanded once for each cost at which it is reached, all cuts with the   *)
(* opposite direction are registered, and the search of a direction ends   *)
(* when its open states can be on no further plan.  The driver constructs  *)
(* all plans of the registered cuts whenever its lower bound has passed    *)
(* their cost.                                                             *)
(*                                                                         *)
(* registry is "idle" while the search runs, "construct" in construct_-    *)
(* cheaper_solutions, "reconstruct" in the loop of reconstruct_plans.      *)
(***************************************************************************)
EXTENDS PlanSelection, SequencesExt

\* A task has here as further fields the engine, "symk" or "symq", and the
\* option quality of the latter, a fraction (infinity is 1 by 0).  The
\* certificate plans holds sequences of operators for the properties to ask for.  The engines
\* make their BidirectionalSearch without the option alternating.
HasEngine(t) ==
    /\ t.engine \in {"symk", "symq"}
    /\ t.quality \in [of : Nat, by : Nat]
    /\ t.quality.by = 0 \/ t.quality.of >= t.quality.by
    /\ ~t.alternating
    /\ t.plans \subseteq Seq(DOMAIN t.operators)

ASSUME EngineAssumption == \A t \in Tasks : HasEngine(t)

VARIABLES
  last_g_cost,  \* per direction: the g-value of the bucket popped last
  limit         \* the bound of construct_cheaper_solutions

topkVars == <<allVars, rejected, last_g_cost, limit>>

TopKTypeOK ==
    /\ TypeOK
    /\ registry \in {"idle", "construct", "reconstruct"}
    /\ \A node \in queue : node \in Node /\ node.states # {}
    /\ plan \cup rejected \subseteq Seq(Nat)
    /\ last_g_cost \in [Searches -> Level]
    /\ limit \in Level

-----------------------------------------------------------------------------
(* ClosedList and SymSolutionRegistry *)

\* Faulty: the state is cut where it was closed first.
OnlyCheapestCut(d, g, states) == CheapestCut(d, g, states)

\* getAllCuts, with the min_g of the engine as its lower bound.  The parts of a
\* bucket that is split into several BDDs are merged again when they are
\* registered, so one cut for each level stands for them.
AllCuts(d, g, states) ==
    {sol \in {[g |-> IF d = "fw" THEN g ELSE h, h |-> IF d = "fw" THEN h ELSE g,
               cut |-> states \cap closed[Opposite(d)][h]] : h \in Level} :
        sol.cut # {} /\ Cost(sol) >= min_g}

\* register_solution
Merged(cuts, sol) ==
    LET same == {c \in cuts : c.g = sol.g /\ c.h = sol.h}
    IN (cuts \ same) \cup {[sol EXCEPT !.cut = UNION {c.cut : c \in same \cup {sol}}]}

\* cheapest_solution_cost_found.  The plan accepted first is a cheapest one, as
\* they are accepted in the order of their costs (PlansInOrder).
CheapestFound(cuts) ==
    Min({Cost(sol) : sol \in cuts} \cup {PlanCost(p) : p \in plan} \cup {INT_MAX})

-----------------------------------------------------------------------------
(* new_solution of the two engines *)

BeyondQuality(cost, cheapest) ==
    task.engine = "symq" /\ cost * task.quality.by > cheapest * task.quality.of

\* Faulty: the bound excludes the plans of just the quality asked for.
TightQualityBound(cheapest) == (cheapest * task.quality.of) \div task.quality.by

\* The least int above the costs of the quality asked for.
QualityBound(cheapest) == (cheapest * task.quality.of) \div task.quality.by + 1

\* e holds the fields of the engine that new_solution changes.
NewSolution(e, sol) ==
    IF FoundEnoughPlans(plan) \/ BeyondQuality(e.lower, CheapestFound(e.cuts))
    THEN [e EXCEPT !.lower = INT_MAX]
    ELSE LET cuts == Merged(e.cuts, sol)
         IN [e EXCEPT !.cuts = cuts,
                      !.upper = IF task.engine = "symq" /\ task.quality.by # 0
                                THEN LesserOf(@, QualityBound(CheapestFound(cuts)))
                                ELSE @]

\* The engine when direction d has reported its cuts: the cheapest g-value first,
\* and those of one g-value in any order, as a bucket may be split into any BDDs.
Reported(d, sols) ==
    LET Own(sol) == IF d = "fw" THEN sol.g ELSE sol.h
        Told(list) ==
            LET after[n \in 0 .. Len(list)] ==
                    IF n = 0
                    THEN [cuts |-> sym_cuts, lower |-> lower_bound, upper |-> upper_bound]
                    ELSE NewSolution(after[n - 1], list[n])
            IN after[Len(list)]
    IN {Told(list) : list \in {l \in SetToSeqs(sols) :
            \A m, n \in DOMAIN l : m < n => Own(l[m]) <= Own(l[n])}}

-----------------------------------------------------------------------------
(* The driver: SymbolicSearch::step and TopqSymbolicUniformCostSearch::step *)

TopKInit ==
    /\ RegistryInit
    /\ rejected = {}
    /\ last_g_cost = [d \in Searches |-> 0]
    /\ limit = 0

\* Faulty: the plans of all registered cuts are constructed at once.
AllAtOnce(lower) == INT_MAX

\* The costs below which no cut will be registered any more.
Settled(lower) == lower

\* Faulty: the last call constructs the plans of all cuts.
Everything(upper) == INT_MAX

\* The costs below which the last call of step constructs plans.
Remaining(upper) == IF task.engine = "symq" THEN upper ELSE INT_MAX

\* The beginning of step.  A finished engine constructs what is left.
StartStep ==
    /\ registry = "idle"
    /\ status = "IN_PROGRESS"
    /\ pc \in {"init", "step"}
    /\ \E e \in Reported("fw", EmptyPlan) :
          /\ sym_cuts' = e.cuts
          /\ lower_bound' = e.lower
          /\ upper_bound' = e.upper
          /\ limit' = IF e.lower >= e.upper THEN Remaining(e.upper)
                      ELSE IF lower_bound_increased THEN Settled(e.lower) ELSE 0
    /\ lower_bound_increased' = FALSE
    /\ registry' = "construct"
    /\ UNCHANGED <<task, status, min_g, search, control, zeroCostClosed, queue, plan,
                   rejected, last_g_cost>>

Due == {sol \in sym_cuts : Cost(sol) < limit}

\* construct_cheaper_solutions: the cuts of the next cost.  (They are erased
\* now; nobody asks for them before the code does so.)
ConstructNext ==
    /\ registry = "construct"
    /\ Due # {}
    /\ ~FoundEnoughPlans(plan)
    /\ LET f == Min({Cost(sol) : sol \in Due})
           cuts == {sol \in Due : Cost(sol) = f}
       IN /\ queue' = InitialNodes(cuts)
          /\ sym_cuts' = sym_cuts \ cuts
    /\ registry' = "reconstruct"
    /\ UNCHANGED <<task, status, lower_bound, upper_bound, lower_bound_increased, min_g,
                   search, control, zeroCostClosed, plan, rejected, last_g_cost, limit>>

\* The rest of step up to the call of search->step().
EndStep ==
    /\ registry = "construct"
    /\ Due = {} \/ FoundEnoughPlans(plan)
    /\ sym_cuts' = sym_cuts \ Due
    /\ status' = IF lower_bound >= upper_bound
                 THEN IF plan # {} THEN "SOLVED" ELSE "FAILED"
                 ELSE IF FoundEnoughPlans(plan) THEN "SOLVED" ELSE "IN_PROGRESS"
    /\ IF status' = "IN_PROGRESS"
       THEN SelectDirection /\ pc' = "bucket"
       ELSE pc' = "step" /\ UNCHANGED <<dir, increases, failed>>
    /\ registry' = "idle"
    /\ UNCHANGED <<task, lower_bound, upper_bound, lower_bound_increased, min_g, search,
                   zeroCostClosed, queue, plan, rejected, last_g_cost, limit>>

-----------------------------------------------------------------------------
(* SymSolutionRegistry: all plans of the cuts of one cost *)

\* expand_actions without a pruning to a single solution.  A zero-cost cycle may
\* lead to the initial state more than once, so unless plans are to be simple
\* the forward phase goes on beside the backward phase.
ExpandAllActions(node) ==
    LET made == {i \in DOMAIN task.operators : Unvisited(node, ClosedStep(node, i)) # {}}
        new == {NewNode(node, i) : i \in made}
    IN {Pushed(n) : n \in new} \cup
       {n \in new : SwapToBwdPhase(n) /\ HasZeroCost(task) /\ ~task.simple}

\* One iteration of the loop of reconstruct_plans.  Bound: MaxPlanLength.
ReconstructPlan ==
    /\ registry = "reconstruct"
    /\ \E top \in {node \in Top(queue) : PlanLength(node) <= MaxPlanLength} :
          \E states \in Picked(top) :
             LET node == Narrowed(top, states)
                 found == node.prefix \o node.suffix
                 goOn == Waiting(top, states) \cup ExpandAllActions(node)
             IN IF IsSolution(node)
                THEN /\ AddPlan(found)
                     /\ queue' = IF ReconstructSolutions(plan', PlanCost(found)) THEN goOn ELSE {}
                ELSE /\ queue' = goOn
                     /\ UNCHANGED <<plan, rejected>>
    /\ registry' = IF queue' = {} THEN "construct" ELSE "reconstruct"
    /\ UNCHANGED <<vars, zeroCostClosed, last_g_cost, limit>>

-----------------------------------------------------------------------------
(* TopkUniformCostSearch *)

\* The states of direction d that are closed and on no accepted plan.
NoGoalPathStates(d) ==
    (UNION {closed[d][g] : g \in {k \in Level : k < last_g_cost[d]}}) \ StatesOnGoalPaths

ProvableNoMorePlans(d) ==
    \/ /\ GetG(frontier[d], open[d]) > last_g_cost[d]
       /\ \A g \in Level : open[d][g] \subseteq NoGoalPathStates(d)
    \/ Keys(open[d]) = {}

\* prepareBucket returns without popping a bucket.  In stepImage the popping
\* loop then calls it again, and again.
NoMorePlans(d) ==
    /\ pc = "bucket" \/ (pc = "drain" /\ Keys(open[d]) # {})
    /\ dir = d
    /\ frontier[d].phase = "empty"
    /\ ProvableNoMorePlans(d)
    /\ SetLowerBound(INT_MAX)
    /\ pc' = IF pc = "drain" THEN "drain" ELSE ReturnPoint
    /\ UNCHANGED <<task, search, dir, increases, failed,
                   status, upper_bound, min_g, sym_cuts, zeroCostClosed, last_g_cost>>

\* Faulty: states closed at another cost are taken for duplicates.
FilterAllClosed(d, g, bucket) == FilterFrontier(d, g, bucket)

\* filterFrontier: only states closed at the same cost are duplicates.
FilterSameCost(d, g, bucket) ==
    FilteredInPart(d, g = 0 /\ lastStepCost[d], bucket \ closed[d][g])

\* prepareBucket: the cheapest open bucket becomes the frontier and is closed.
PopBucket(d) ==
    /\ PopReady(d)
    /\ ~ProvableNoMorePlans(d)
    /\ LET g == MinG(open[d])
           rest == [open[d] EXCEPT ![g] = {}]
       IN \E e \in Reported(d, AllCuts(d, g, open[d][g])) :
          \E new \in FilterSameCost(d, g, open[d][g]) :
             LET fr == [g |-> g, states |-> new,
                        phase |-> IF new = {} THEN "empty" ELSE "filter"]
             IN /\ sym_cuts' = e.cuts
                /\ upper_bound' = e.upper
                /\ lower_bound' = GreaterOf(e.lower, GetF(fr, rest))
                /\ lower_bound_increased' =
                       (lower_bound_increased \/ GetF(fr, rest) > e.lower)
                /\ frontier' = [frontier EXCEPT ![d] = fr]
                /\ closed' = IF lastStepCost[d] /\ g = 0 THEN closed
                             ELSE [closed EXCEPT ![d][g] = @ \cup new]
                /\ SetMinG(GetG(fr, rest))
                /\ open' = [open EXCEPT ![d] = rest]
                /\ last_g_cost' = [last_g_cost EXCEPT ![d] = g]
    /\ pc' = IF pc = "drain" THEN "drain"
             ELSE IF lower_bound' >= upper_bound' THEN ReturnPoint ELSE "prepare"
    /\ IF HasZeroCost(task) /\ closed' # closed
       THEN RecordLayers(d) ELSE UNCHANGED zeroCostClosed
    /\ UNCHANGED <<task, status, lastStepCost, dir, increases, failed>>

\* frontier.expand and what stepImage does with its result.  Bound: the next
\* g-values must fit an int.
ExpandFrontier(d) ==
    LET fr == frontier[d]
        Succ(c) == Image(task, d, c, fr.states)
        costs == CostsOf(fr.phase)
    IN /\ pc = "expand"
       /\ dir = d
       /\ \A c \in costs : fr.g + c < INT_MAX
       /\ \E e \in Reported(d, UNION {AllCuts(d, fr.g + c, Succ(c)) : c \in costs}) :
             /\ sym_cuts' = e.cuts
             /\ lower_bound' = e.lower
             /\ upper_bound' = e.upper
       /\ open' = [open EXCEPT ![d] = [g \in Level |->
             open[d][g] \cup UNION {Succ(c) : c \in {k \in costs : fr.g + k = g}}]]
       /\ frontier' = [frontier EXCEPT ![d] =
             IF fr.phase = "zero" THEN [fr EXCEPT !.phase = "cost"]
                                  ELSE [fr EXCEPT !.phase = "empty", !.states = {}]]
       /\ lastStepCost' = [lastStepCost EXCEPT ![d] = FALSE]
       /\ failed' = [failed EXCEPT ![d] = FALSE]
       /\ pc' = "drain"
       /\ UNCHANGED <<task, status, lower_bound_increased, min_g, closed, dir, increases,
                      zeroCostClosed, last_g_cost>>

\* What TopkUniformCostSearch and the engines leave as it is.
Inherited(d) ==
    /\ \/ BucketReady(d) \/ Prepare(d) \/ PrepareTruncated(d)
       \/ ExpandTruncated(d) \/ Finish(d)
    /\ UNCHANGED <<zeroCostClosed, last_g_cost>>

SearchStep ==
    /\ registry = "idle"
    /\ status = "IN_PROGRESS"
    /\ \/ \E d \in Searches :
             NoMorePlans(d) \/ PopBucket(d) \/ ExpandFrontier(d) \/ Inherited(d)
       \/ Return /\ UNCHANGED <<zeroCostClosed, last_g_cost>>
    /\ UNCHANGED <<registryVars, rejected, limit>>

\* The engine has answered, or a bound of the model is reached.
TopKStopped ==
    \/ status # "IN_PROGRESS"
    \/ \E node \in queue : PlanLength(node) > MaxPlanLength
    \/ pc = "expand" /\ \E c \in CostsOf(frontier[dir].phase) : frontier[dir].g + c >= INT_MAX

TopKDone == TopKStopped /\ UNCHANGED topkVars

TopKNext == \/ StartStep \/ ConstructNext \/ ReconstructPlan \/ EndStep
            \/ SearchStep
            \/ TopKDone

TopKSpec == TopKInit /\ [][TopKNext]_topkVars

TopKFairSpec == TopKSpec /\ WF_topkVars(TopKNext)
-----------------------------------------------------------------------------
(* Properties *)

\* The plan data base needs not see p any more.
Considered(p) ==
    \/ HasAcceptedPlan(p)
    \/ p \in rejected
    \/ task.selector = "iterative_cost" /\ PlanCost(p) <= MostExpensive(plan)

\* The plans of the certificate that the engine is to find.
WantedPlans ==
    {p \in task.plans : /\ RunPlan({task.init}, p) \cap task.goal # {}
                        /\ task.simple => IsSimple(p)}

\* When the driver lets the search go on, every plan that costs less than the
\* lower bound has been offered to the plan data base: however the two
\* directions move, each plan was met by one of the cuts, and no cut was
\* dropped that was not found elsewhere.
NoPlanMissed ==
    registry = "idle" /\ pc = "bucket" =>
        \A p \in WantedPlans : PlanCost(p) < lower_bound => Considered(p)

\* Plans are found in the order of their costs.
PlansInOrder ==
    [][\A p \in plan' \ plan : \A q \in plan : PlanCost(q) <= PlanCost(p)]_topkVars

\* What is reported is a plan: it leads from the initial state to the goal, in two
\* phases through closed lists that grow meanwhile, and without a loop if plans
\* are to be simple.
ReportedArePlans ==
    \A p \in plan : /\ RunPlan({task.init}, p) \cap task.goal # {}
                    /\ task.simple => IsSimple(p)

\* It is within the quality asked for.
PlansWithinQuality == \A p \in plan : ~BeyondQuality(PlanCost(p), Optimum)

\* An engine that stops before it has found enough plans has found all of them
\* that the bound and the quality admit.
AnswerComplete ==
    status # "IN_PROGRESS" /\ ~FoundEnoughPlans(plan) =>
        \A p \in WantedPlans :
            PlanCost(p) < task.bound /\ ~BeyondQuality(PlanCost(p), Optimum) => Considered(p)

\* The plans of the certificate that a selector accepts, whatever it has
\* accepted before.
AcceptablePlans ==
    IF task.selector \in {"unordered", "iterative_cost"} THEN {}
    ELSE {p \in WantedPlans : PlanCost(p) < task.bound /\ Acceptable(p)}

\* If there are k plans, symk finds k plans, and stops.  It must neither take the
\* open states for useless too early nor go around loops for ever.
KPlansFound ==
    /\ task.engine = "symk"
    /\ ~HasZeroCost(task)
    /\ ~task.simple
    /\ Cardinality(AcceptablePlans) >= task.num_plans
    ~> status = "SOLVED" /\ FoundEnoughPlans(plan)

\* The search of a direction is about to look for a bucket, and all its open
\* states are closed and on no accepted goal path.
Proven ==
    /\ registry = "idle"
    /\ status = "IN_PROGRESS"
    /\ pc \in {"bucket", "drain"}
    /\ frontier[dir].phase = "empty"
    /\ ProvableNoMorePlans(dir)

\* What is proved is true: every plan below the user's bound has been offered to
\* the plan data base, unless it has enough plans anyway.
NoneLeftWhenProven ==
    Proven /\ ~FoundEnoughPlans(plan) =>
        \A p \in WantedPlans : PlanCost(p) < task.bound => Considered(p)

\* anytime_completness: the engine stops when it has proved that there are no
\* more plans.
TerminatesWhenProven == Proven ~> status # "IN_PROGRESS"
=============================================================================
