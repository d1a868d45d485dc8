--------------------------- MODULE BdPruneProofs ---------------------------
(***************************************************************************)
(* Proofs about BdPrune.  To the closed lists a pruner is one more filter: *)
(* the engine is lossy in the sense of UniformCostSearchProofs.  So types, *)
(* traces and order depend neither on the estimates nor on the moment when *)
(* the pruners are attached.  With consistent estimates the engine is even *)
(* careful (CarefulNext): what the pruners drop is on no cheaper plan, and *)
(* the answer is optimal.                                                  *)
(***************************************************************************)
EXTENDS BdPrune, UniformCostSearchProofs

\* Pruning keeps a part of what filterFrontier leaves.
LEMMA PruningPopIsLossy ==
    ASSUME NEW d \in Searches, PruningPop(d)
    PROVE  PopSome(d)
<1>1. PICK states \in Popped(d) : Close(d, Pruned(d, states))
  BY DEF PruningPop
<1>2. states \in SUBSET (open[d][MinG(open[d])] \ ClosedTotal(d))
  BY DEF Popped, FilterFrontier, FilteredInPart
<1>3. Pruned(d, states) \subseteq states
  BY DEF Pruned, Prune
<1>4. Pruned(d, states) \in SUBSET (open[d][MinG(open[d])] \ ClosedTotal(d))
  BY <1>2, <1>3
<1>5. PopReady(d)
  BY DEF PruningPop
<1>6. QED
  BY <1>1, <1>4, <1>5 DEF PopSome

\* Every other step is one of the bidirectional search.
LEMMA BdNextIsLossy == [BdNext]_bdVars => [LossyNext]_vars
<1> SUFFICES ASSUME [BdNext]_bdVars PROVE [LossyNext]_vars
  OBVIOUS
<1>1. CASE BdStep
  BY <1>1 DEF BdStep, LossyNext
<1>2. ASSUME NEW d \in Searches, PruningPop(d) PROVE LossyNext
  BY <1>2, PruningPopIsLossy DEF LossyNext
<1>3. ASSUME NEW d \in Searches, BdExpand(d) PROVE LossyNext
  BY <1>3 DEF BdExpand, LossyNext
<1>4. ASSUME NEW d \in Searches, OtherStep(d) PROVE LossyNext
  BY <1>4 DEF OtherStep, LossyNext
<1>5. CASE Return \/ Done
  BY <1>5 DEF LossyNext
<1>6. CASE UNCHANGED bdVars
  BY <1>6 DEF bdVars
<1>7. QED
  BY <1>1, <1>2, <1>3, <1>4, <1>5, <1>6 DEF BdNext

\* The types of the search are kept when pruners are attached while it runs.
THEOREM BdTypeCorrect == BdSpec => []TypeOK
<1>1. BdInit => TypeOK
  BY InitType DEF BdInit
<1>2. QED
  BY <1>1, LossyType, BdNextIsLossy, PTL DEF BdSpec

\* The invariant of reconstruction holds with pruning.
LEMMA BdTraceInvariant == BdSpec => []TraceInv
<1>1. BdInit => TraceInv
  BY InitType, TraceInvInit DEF BdInit
<1>2. QED
  BY <1>1, LossyTrace, BdTypeCorrect, BdNextIsLossy, PTL DEF BdSpec

\* Pruning never cuts off the trace of a registered cut or a closed state: the
\* plan of sym_bd_ms can be reconstructed from the closed lists, whatever the
\* pruners drop in either direction and whenever they are attached.
THEOREM BdPlansReconstructible == BdSpec => []PlanReconstructible
<1>1. TraceInv => PlanReconstructible
  BY DEF TraceInv
<1>2. QED
  BY <1>1, BdTraceInvariant, PTL

\* Levels are closed in order with pruning as well: a pruned state is dropped,
\* it does not turn up on a later level that reconstruction has read already.
THEOREM BdClosedInOrder == BdSpec => ClosedInOrder
<1>1. BdInit => OrderInv
  BY OrderInvInit DEF BdInit
<1>2. BdSpec => [](TypeOK /\ OrderInv)
  BY <1>1, LossyOrder, BdTypeCorrect, BdNextIsLossy, PTL DEF BdSpec
<1>3. QED
  BY <1>2, LossyClosesInOrder, BdNextIsLossy, PTL DEF BdSpec, ClosedInOrder

-----------------------------------------------------------------------------
(* Pruning with estimates that never exceed the distance *)

\* The estimates of the attached pruners are those of an abstraction.
EstimatesInv ==
    \A d \in Dir : /\ h[d] \in [State -> Level]
                   /\ \A s \in State : h[d][s] <= task.dist[Opposite(d)][s]

\* At the start they are consistent, and so at most the distance.
LEMMA EstimatesInvInit == BdInit => EstimatesInv
<1> SUFFICES ASSUME BdInit, NEW d \in Dir
             PROVE  /\ h[d] \in [State -> Level]
                    /\ \A s \in State : h[d][s] <= task.dist[Opposite(d)][s]
  BY DEF EstimatesInv
<1>1. task \in Tasks /\ IsTask(task)
  BY TasksAssumption DEF BdInit, Init
<1>2. PICK a \in Abstractions : h = Estimates(task, a)
  BY DEF BdInit
<1>3. Opposite(d) \in Dir /\ h[d] = AbstractDistance(task, a, Opposite(d))
  BY <1>2, OppositeFacts DEF Estimates
<1>4. IsConsistent(task, Opposite(d), h[d])
  BY <1>1, <1>3, AbstractDistanceIsConsistent
<1>5. QED
  BY <1>1, <1>3, <1>4, ConsistentIsAdmissible DEF IsConsistent

\* A state that prune drops from a bucket of cost g is on no plan cheaper than
\* the bound: g and the estimate of the rest reach it, or the goal is out of
\* reach.
LEMMA PrunedIsUseless ==
    ASSUME EstimatesInv, NEW d \in Dir, NEW g \in Level, NEW bound \in Level,
           task.dist[Opposite(d)] \in [State -> Level],
           NEW states \in SUBSET State, NEW y \in states \ Prune(d, g, states, bound)
    PROVE  bound <= g + task.dist[Opposite(d)][y]
<1>1. /\ h[d][y] \in Nat /\ h[d][y] <= task.dist[Opposite(d)][y]
      /\ task.dist[Opposite(d)][y] \in Nat
  BY IntMaxAssumption DEF EstimatesInv, Level
<1>2. g \in Nat /\ bound \in Nat /\ bound <= INT_MAX /\ INT_MAX \in Nat
  BY IntMaxAssumption DEF Level
<1>3. \/ h[d][y] = INT_MAX
      \/ /\ bound # INT_MAX
         /\ ~ h[d][y] <= bound - 1 - g
  BY DEF Prune
<1>4. QED
  BY <1>1, <1>2, <1>3

\* So a pruner attached in the midst of a step drops what is useless under the
\* bound at the end of this step.
LEMMA PruningPopIsCareful ==
    ASSUME SearchInv, EstimatesInv, NEW d \in Searches, PruningPop(d)
    PROVE  CarefulPop(d, State)
<1>1. PICK states \in Popped(d) : Close(d, Pruned(d, states))
  BY DEF PruningPop
<1>2. PopReady(d) /\ d \in Dir
  BY SearchesAssumption DEF PruningPop
<1>3. Pruned(d, states) \subseteq states
  BY DEF Pruned, Prune
<1>4. states \in SUBSET State /\ MinG(open[d]) \in Level
  <2>1. open[d] \in Levels
    BY DEF SearchInv, TypeOK
  <2>2. MinG(open[d]) \in Level
    BY <2>1, MinGFacts
  <2>3. states \subseteq open[d][MinG(open[d])]
    BY DEF Popped, FilterFrontier, FilteredInPart
  <2>4. QED
    BY <2>1, <2>2, <2>3 DEF Levels
<1>5. upper_bound' \in Level
  <2>1. [LossyNext]_vars
    BY PruningPopIsLossy DEF LossyNext
  <2>2. TypeOK'
    BY <2>1, LossyType DEF SearchInv
  <2>3. QED
    BY <2>2 DEF TypeOK, EngineTypeOK
<1>6. task.dist[Opposite(d)] \in [State -> Level]
  BY <1>2, OppositeFacts DEF SearchInv, TypeOK, EngineTypeOK, IsTask, IsDistance
<1>7. ASSUME NEW y \in states \ Pruned(d, states)
      PROVE  y \in State /\ upper_bound' <= MinG(open[d]) + task.dist[Opposite(d)][y]
  <2>1. Pruned(d, states) = Prune(d, MinG(open[d]), states, upper_bound')
    BY <1>7 DEF Pruned
  <2>2. QED
    BY <1>2, <1>4, <1>5, <1>6, <1>7, <2>1, PrunedIsUseless
<1>8. QED
  BY <1>1, <1>2, <1>3, <1>7 DEF CarefulPop

\* Every step of sym_bd_ms is one of a careful search.
LEMMA BdNextIsCareful ==
    ASSUME SearchInv, EstimatesInv, [BdNext]_bdVars
    PROVE  [CarefulNext(State)]_vars
<1>1. CASE BdStep
  BY <1>1 DEF BdStep, CarefulNext
<1>2. ASSUME NEW d \in Searches, PruningPop(d) PROVE CarefulNext(State)
  BY <1>2, PruningPopIsCareful DEF CarefulNext, CarefulStep
<1>3. ASSUME NEW d \in Searches, BdExpand(d) PROVE CarefulNext(State)
  BY <1>3 DEF BdExpand, CarefulNext, CarefulStep
<1>4. ASSUME NEW d \in Searches, OtherStep(d) PROVE CarefulNext(State)
  BY <1>4 DEF OtherStep, CarefulNext, CarefulStep
<1>5. CASE Return \/ Done
  BY <1>5 DEF CarefulNext
<1>6. CASE UNCHANGED bdVars
  BY <1>6 DEF bdVars
<1>7. QED
  BY <1>1, <1>2, <1>3, <1>4, <1>5, <1>6 DEF BdNext

\* The estimates never change.
LEMMA EstimatesInvNext ==
    ASSUME SearchInv, EstimatesInv, [BdNext]_bdVars
    PROVE  EstimatesInv'
<1>1. h' = h
  BY DEF BdNext, BdStep, PruningPop, BdExpand, OtherStep, Build, pruning, bdVars
<1>2. task' = task
  BY BdNextIsCareful, OnlyStepAnswers DEF Step, StepEngine
<1>3. QED
  BY <1>1, <1>2 DEF EstimatesInv

\* The invariant of the search holds with pruning.
LEMMA BdSearchInvariant == BdSpec => [](SearchInv /\ ExactLevels /\ EstimatesInv)
<1>1. BdInit => SearchInv /\ ExactLevels /\ EstimatesInv
  BY SearchInvInit, EstimatesInvInit DEF BdInit
<1>2. /\ SearchInv /\ ExactLevels /\ EstimatesInv /\ [BdNext]_bdVars
      => SearchInv' /\ ExactLevels' /\ EstimatesInv'
  BY BdNextIsCareful, EstimatesInvNext, SearchInvNext
<1>3. QED
  BY <1>1, <1>2, PTL DEF BdSpec

\* A successor of an expanded state that is neither closed nor open has been
\* registered in a plan, or is on no plan cheaper than the best one known: for
\* every set of abstractions with consistent distances, and wherever in a step
\* the pruners are attached or the bound falls.
THEOREM BdPrunedAreUseless == BdSpec => []PrunedAreUseless
<1>1. SearchInv => PrunedAreUseless
  BY DEF SearchInv, NothingLostBut, PrunedAreUseless
<1>2. QED
  BY <1>1, BdSearchInvariant, PTL

\* So the bounds stay sound.
LEMMA BdBoundInvariant == BdSpec => [](SearchInv /\ EstimatesInv /\ BoundInv)
<1>1. BdSpec => []EstimatesSound
  BY BdSearchInvariant, EstimatesAreSound, PTL
<1>2. BdInit => BoundInv
  BY BoundInvInit DEF BdInit
<1>3. /\ SearchInv /\ EstimatesInv /\ EstimatesSound /\ EstimatesSound' /\ BoundInv
      /\ [BdNext]_bdVars
      => BoundInv'
  BY BdNextIsCareful, BoundInvNext
<1>4. QED
  BY <1>1, <1>2, <1>3, BdSearchInvariant, PTL DEF BdSpec

\* Each lower bound that a search hands to the driver is justified although
\* either direction has lost states, and with them the exact cost of what it
\* still has to do.
THEOREM BdBoundsAreSound == BdSpec => []BoundsSound
<1>1. BoundInv => BoundsSound
  BY DEF BoundInv
<1>2. QED
  BY <1>1, BdBoundInvariant, PTL

\* sym_bd_ms answers with a cheapest plan, and with none only if no plan is
\* cheaper than the user's bound.
THEOREM BdAnswersAreOptimal == BdSpec => []AnswerOptimal
<1>1. BdInit => AnswerOptimal
  BY DEF BdInit, Init, AnswerOptimal
<1>2. /\ SearchInv /\ SearchInv' /\ EstimatesInv /\ BoundInv /\ BoundInv' /\ AnswerOptimal
      /\ [BdNext]_bdVars
      => AnswerOptimal'
  BY BdNextIsCareful, AnswerOptimalNext
<1>3. QED
  BY <1>1, <1>2, BdBoundInvariant, PTL DEF BdSpec

\* Seen through its bounds and its status, sym_bd_ms is an anytime search like
\* the blind engines: it implements AnytimeBounds.
THEOREM BdEngineIsAnytime == BdSpec => ImplementsBounds
<1>1. BdInit => Bounds!Init
  BY BoundsInit DEF BdInit
<1>2. /\ SearchInv /\ SearchInv' /\ EstimatesInv /\ BoundInv /\ BoundInv' /\ [BdNext]_bdVars
      => [Bounds!Next]_(Bounds!vars)
  BY BdNextIsCareful, BoundsNext
<1>3. BdSpec => Bounds!Init /\ [][Bounds!Next]_(Bounds!vars)
  BY <1>1, <1>2, BdBoundInvariant, PTL DEF BdSpec
<1>4. QED
  BY <1>3, PTL DEF ImplementsBounds, Bounds!Spec
-----------------------------------------------------------------------------
(* The pruners turn up when they are of use *)

\* While no plan is known, no cut is found whose cost is too large for an int.
FirstCutsFit ==
    upper_bound = INT_MAX =>
        \A d \in Searches :
            /\ PopReady(d) => \A sol \in PoppedCuts(d) : Cost(sol) < INT_MAX
            /\ pc = "expand" /\ dir = d => \A sol \in ImageCuts(d) : Cost(sol) < INT_MAX

\* Without defer_build there is nothing left to attempt.
Attempts == BlindUntilSolution /\ (DeferBuild \/ build_attempted)

\* The pruners are built before the search starts only if they are of use.
LEMMA AttemptsInit == BdInit => Attempts
<1> SUFFICES ASSUME BdInit PROVE Attempts
  OBVIOUS
<1>1. /\ build_attempted = BuildsEagerly
      /\ wbh_pruner \in IF BuildsEagerly THEN BOOLEAN ELSE {FALSE}
      /\ upper_bound = task.bound
  BY DEF BdInit, Init
<1>2. task.bound \in Nat /\ task.bound <= INT_MAX
  <2>1. TypeOK
    BY InitType DEF BdInit
  <2>2. QED
    BY <2>1, EngineFacts DEF TypeOK
<1>3. CASE BuildsEagerly
  <2>1. build_attempted
    BY <1>1, <1>3, Zenon
  <2>2. DeferBuild => upper_bound < INT_MAX
    BY <1>1, <1>3 DEF BuildsEagerly
  <2>3. QED
    BY <2>1, <2>2 DEF Attempts, BlindUntilSolution
<1>4. CASE ~BuildsEagerly
  <2>1. ~build_attempted /\ ~wbh_pruner
    BY <1>1, <1>4, Zenon
  <2>2. DeferBuild /\ upper_bound = INT_MAX
    BY <1>1, <1>2, <1>4, IntMaxAssumption DEF BuildsEagerly
  <2>3. QED
    BY <2>1, <2>2, Zenon DEF Attempts, BlindUntilSolution
<1>5. QED
  BY <1>3, <1>4

\* The callback attempts to build them as soon as a solution leaves the proof
\* open.  If it does not, whatever the order of the cuts, then there is no
\* solution, or with the cheapest one the bounds have met.
LEMMA AttemptsBuild ==
    ASSUME Attempts, upper_bound \in Level, lower_bound \in Nat, lower_bound' \in Nat,
           lower_bound <= lower_bound', NEW sols, sols \subseteq Cuts,
           NewSolutions(sols), Build(sols),
           upper_bound = INT_MAX => \A sol \in sols : Cost(sol) < INT_MAX
    PROVE  Attempts'
<1>1. /\ upper_bound' \in Level /\ upper_bound' <= upper_bound
      /\ \A sol \in sols : Cost(sol) \in Nat /\ upper_bound' <= Cost(sol)
      /\ UNCHANGED upper_bound \/ sols # {}
  <2>1. /\ upper_bound' \in Level /\ upper_bound' <= upper_bound
        /\ \A sol \in sols : Cost(sol) \in Nat /\ upper_bound' <= Cost(sol)
    BY NewSolutionsFacts
  <2>2. UNCHANGED upper_bound \/ sols # {}
    BY DEF NewSolutions
  <2>3. QED
    BY <2>1, <2>2
<1>2. /\ upper_bound \in Nat /\ upper_bound <= INT_MAX /\ upper_bound' \in Nat
      /\ INT_MAX \in Nat
  BY <1>1, LevelFacts
<1>3. CASE /\ DeferBuild /\ ~build_attempted
           /\ \E sol \in sols : lower_bound < LesserOf(upper_bound, Cost(sol))
           /\ build_attempted' = TRUE
  <2>1. PICK sol \in sols : lower_bound < LesserOf(upper_bound, Cost(sol))
    BY <1>3
  <2>2. upper_bound' < INT_MAX
    BY <1>1, <1>2, <2>1
  <2>3. QED
    BY <1>3, <2>2 DEF Attempts, BlindUntilSolution
<1>4. CASE /\ DeferBuild /\ ~build_attempted =>
                sols = {} \/ \E sol \in sols : ~ lower_bound < LesserOf(upper_bound, Cost(sol))
           /\ UNCHANGED <<build_attempted, wbh_pruner>>
  <2>1. ASSUME DeferBuild, build_attempted PROVE upper_bound' < INT_MAX
    BY <1>1, <1>2, <2>1 DEF Attempts, BlindUntilSolution
  <2>2. ASSUME ~build_attempted PROVE upper_bound' = INT_MAX \/ lower_bound' >= upper_bound'
    <3>1. DeferBuild /\ (upper_bound = INT_MAX \/ lower_bound >= upper_bound)
      BY <2>2 DEF Attempts, BlindUntilSolution
    <3>2. CASE sols = {}
      BY <1>1, <1>2, <3>1, <3>2
    <3>3. CASE \E sol \in sols : ~ lower_bound < LesserOf(upper_bound, Cost(sol))
      <4>1. PICK sol \in sols : ~ lower_bound < LesserOf(upper_bound, Cost(sol))
        BY <3>3
      <4>2. Cost(sol) \in Nat /\ upper_bound' <= Cost(sol)
        BY <1>1
      <4>3. lower_bound >= upper_bound \/ lower_bound >= Cost(sol)
        BY <1>2, <4>1, <4>2 DEF LesserOf
      <4>4. QED
        BY <1>1, <1>2, <4>2, <4>3
    <3>4. QED
      BY <1>4, <2>2, <3>1, <3>2, <3>3
  <2>3. QED
    BY <1>4, <2>1, <2>2 DEF Attempts, BlindUntilSolution
<1>5. QED
  BY <1>3, <1>4 DEF Build

\* The other steps leave the pruners and the upper bound alone.
LEMMA AttemptsKept ==
    ASSUME Attempts, UNCHANGED <<pruning, upper_bound>>, upper_bound \in Nat,
           lower_bound \in Nat, lower_bound' \in Nat, lower_bound <= lower_bound'
    PROVE  Attempts'
BY DEF Attempts, BlindUntilSolution, pruning

\* Every step attempts to build the pruners in time.
LEMMA AttemptsNext ==
    ASSUME SearchInv, SearchInv', EstimatesInv, FirstCutsFit, Attempts, [BdNext]_bdVars
    PROVE  Attempts'
<1> USE DEF engine, search, control
<1>1. /\ lower_bound <= lower_bound' /\ lower_bound \in Nat /\ lower_bound' \in Nat
      /\ upper_bound \in Nat /\ upper_bound \in Level
  <2>1. EngineTypeOK /\ EngineTypeOK'
    BY DEF SearchInv, TypeOK
  <2>2. lower_bound \in Level /\ lower_bound' \in Level /\ upper_bound \in Level
    BY <2>1 DEF EngineTypeOK
  <2>3. QED
    BY <2>2, BdNextIsCareful, LowerBoundRises, LevelFacts
<1>2. CASE BdStep
  <2>1. NewSolutions(EmptyPlan) /\ Build(EmptyPlan)
    BY <1>2 DEF BdStep, Step, StepEngine
  <2>2. EmptyPlan \subseteq Cuts
    BY EmptyPlanType DEF SearchInv, TypeOK, EngineTypeOK
  <2>3. \A sol \in EmptyPlan : Cost(sol) < INT_MAX
    BY IntMaxAssumption DEF EmptyPlan, Cost
  <2>4. QED
    BY <1>1, <2>1, <2>2, <2>3, AttemptsBuild
<1>3. ASSUME NEW d \in Searches, PruningPop(d) PROVE Attempts'
  <2>1. NewSolutions(PoppedCuts(d)) /\ Build(PoppedCuts(d)) /\ PopReady(d)
    BY <1>3 DEF PruningPop, Close
  <2>2. PoppedCuts(d) \subseteq Cuts
    <3>1. /\ d \in Dir /\ open[d] \in Levels /\ closed \in [Dir -> Levels]
      BY SearchesAssumption DEF SearchInv, TypeOK, EngineTypeOK
    <3>2. MinG(open[d]) \in Level
      BY <3>1, MinGFacts
    <3>3. open[d][MinG(open[d])] \in SUBSET State
      BY <3>1, <3>2 DEF Levels
    <3>4. QED
      BY <3>1, <3>2, <3>3, CheapestCutsType DEF PoppedCuts
  <2>3. upper_bound = INT_MAX => \A sol \in PoppedCuts(d) : Cost(sol) < INT_MAX
    BY <2>1 DEF FirstCutsFit
  <2>4. QED
    BY <1>1, <2>1, <2>2, <2>3, AttemptsBuild
<1>4. ASSUME NEW d \in Searches, BdExpand(d) PROVE Attempts'
  <2>1. NewSolutions(ImageCuts(d)) /\ Build(ImageCuts(d)) /\ pc = "expand" /\ dir = d
    BY <1>4 DEF BdExpand, Expand
  <2>2. ImageCuts(d) \subseteq Cuts
    <3>1. d \in Dir /\ closed \in [Dir -> Levels]
      BY SearchesAssumption DEF SearchInv, TypeOK, EngineTypeOK
    <3>2. \A c \in CostsOf(frontier[d].phase) : frontier[d].g + c \in Level
      BY <1>4, ExpandFacts DEF BdExpand, SearchInv
    <3>3. \A c \in CostsOf(frontier[d].phase) :
             CheapestCuts(d, frontier[d].g + c, Image(task, d, c, frontier[d].states)) \subseteq Cuts
      BY <3>1, <3>2, ImageType, CheapestCutsType
    <3>4. QED
      BY <3>3 DEF ImageCuts
  <2>3. upper_bound = INT_MAX => \A sol \in ImageCuts(d) : Cost(sol) < INT_MAX
    BY <2>1 DEF FirstCutsFit
  <2>4. QED
    BY <1>1, <2>1, <2>2, <2>3, AttemptsBuild
<1>5. ASSUME NEW d \in Searches, OtherStep(d) PROVE Attempts'
  <2>1. UNCHANGED <<pruning, upper_bound>>
    BY <1>5 DEF OtherStep, BucketReady, Exhausted, Prepare, PrepareTruncated, ExpandTruncated,
                Finish
  <2>2. QED
    BY <1>1, <2>1, AttemptsKept
<1>6. CASE (Return \/ Done) /\ UNCHANGED pruning
  <2>1. UNCHANGED <<pruning, upper_bound>>
    BY <1>6 DEF Return, Done, vars
  <2>2. QED
    BY <1>1, <2>1, AttemptsKept
<1>7. CASE UNCHANGED bdVars
  <2>1. UNCHANGED <<pruning, upper_bound>>
    BY <1>7 DEF bdVars, vars
  <2>2. QED
    BY <1>1, <2>1, AttemptsKept
<1>8. QED
  BY <1>2, <1>3, <1>4, <1>5, <1>6, <1>7 DEF BdNext

\* With defer_build there are no pruners before there is an upper bound, and
\* once there is one that leaves the proof open the attempt to build them has
\* been made, in whatever order a bucket reports its cuts.  The hypothesis is
\* that the cost of a plan is an int: new_solution keeps no dearer one, but
\* builds the pruners for it.
THEOREM BdBlindUntilSolution == BdSpec /\ []FirstCutsFit => []BlindUntilSolution
<1>1. BdInit => Attempts
  BY AttemptsInit
<1>2. /\ SearchInv /\ SearchInv' /\ EstimatesInv /\ FirstCutsFit /\ Attempts /\ [BdNext]_bdVars
      => Attempts'
  BY AttemptsNext
<1>3. Attempts => BlindUntilSolution
  BY DEF Attempts
<1>4. QED
  BY <1>1, <1>2, <1>3, BdSearchInvariant, PTL DEF BdSpec
=============================================================================
