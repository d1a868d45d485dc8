------------------------ MODULE SymbolicSearchLemmas ------------------------
(***************************************************************************)
(* Facts about the driver and the closed lists of SymbolicSearch that the  *)
(* proofs about every engine cite.                                         *)
(***************************************************************************)
EXTENDS SymbolicSearch, SymbolicTaskLemmas

\* setLowerBound keeps an int that never shrinks.
LEMMA SetLowerBoundType ==
    ASSUME lower_bound \in Level, lower_bound_increased \in BOOLEAN,
           NEW x \in Int, x <= INT_MAX, SetLowerBound(x)
    PROVE  lower_bound' \in Level /\ lower_bound_increased' \in BOOLEAN
BY IntMaxAssumption DEF SetLowerBound, GreaterOf, Level

\* setMinG keeps an int that never shrinks.
LEMMA SetMinGType ==
    ASSUME min_g \in Level, NEW x \in Int, x <= INT_MAX, SetMinG(x)
    PROVE  min_g' \in Level
BY IntMaxAssumption DEF SetMinG, GreaterOf, Level

\* The solution callback keeps cuts and an upper bound that is their cost.
LEMMA NewSolutionsType ==
    ASSUME sym_cuts \subseteq Cuts, upper_bound \in Level,
           NEW sols, sols \subseteq Cuts, NewSolutions(sols)
    PROVE  sym_cuts' \subseteq Cuts /\ upper_bound' \in Level
<1>1. CASE \E sol \in sols : Cost(sol) < upper_bound
  <2>1. PICK sol \in sols : /\ \A other \in sols : Cost(sol) <= Cost(other)
                            /\ sym_cuts' = {sol}
                            /\ upper_bound' = Cost(sol)
    BY <1>1 DEF NewSolutions
  <2>2. PICK cheap \in sols : Cost(cheap) < upper_bound
    BY <1>1
  <2>3. sol \in Cuts /\ cheap \in Cuts
    BY <2>1, <2>2
  <2>4. Cost(sol) \in Nat /\ Cost(cheap) \in Nat
    BY <2>3, IntMaxAssumption DEF Cost, Cuts, Level
  <2>5. Cost(sol) \in Level
    BY <2>1, <2>2, <2>4, IntMaxAssumption DEF Level
  <2>6. QED
    BY <2>1, <2>3, <2>5
<1>2. CASE ~ \E sol \in sols : Cost(sol) < upper_bound
  BY <1>2 DEF NewSolutions
<1>3. QED
  BY <1>1, <1>2

\* Successors are states.
LEMMA ImageType ==
    ASSUME NEW d, NEW c, NEW S
    PROVE  Image(task, d, c, S) \in SUBSET State
BY DEF Image

\* The empty plan is a well-formed cut.
LEMMA EmptyPlanType ==
    ASSUME IsTask(task)
    PROVE  EmptyPlan \subseteq Cuts
<1>1. 0 \in Level
  BY IntMaxAssumption DEF Level
<1>2. {task.init} \in SUBSET State
  BY DEF IsTask
<1>3. QED
  BY <1>1, <1>2 DEF EmptyPlan, Cuts

\* A cut consists of states of one BDD of the bucket that the opposite
\* direction has closed on one level.
LEMMA CheapestCutsFacts ==
    ASSUME NEW d, NEW g, NEW bucket, NEW sol \in CheapestCuts(d, g, bucket)
    PROVE  \E h \in Level : \E C \in (SUBSET (bucket \cap closed[Opposite(d)][h])) \ {{}} :
              sol = IF d = "fw" THEN [g |-> g, h |-> h, cut |-> C]
                                ELSE [g |-> h, h |-> g, cut |-> C]
<1>1. PICK B \in SUBSET bucket : sol \in CheapestCut(d, g, B)
  BY DEF CheapestCuts
<1> DEFINE met == {h \in Level : B \cap closed[Opposite(d)][h] # {}}
           h == Least(met)
           cut == B \cap closed[Opposite(d)][h]
<1>2. met # {}
  BY <1>1 DEF CheapestCut
<1>3. h \in met
  <2>1. met \in SUBSET Nat
    BY IntMaxAssumption DEF Level
  <2>2. QED
    BY <1>2, <2>1, NatHasLeast
<1>4. cut \in (SUBSET (bucket \cap closed[Opposite(d)][h])) \ {{}}
  BY <1>3
<1>5. sol = IF d = "fw" THEN [g |-> g, h |-> h, cut |-> cut]
                        ELSE [g |-> h, h |-> g, cut |-> cut]
  BY <1>1, <1>2 DEF CheapestCut
<1>6. QED
  BY <1>3, <1>4, <1>5

\* Cuts are well formed, whichever direction they are computed for.
LEMMA CheapestCutsType ==
    ASSUME closed \in [Dir -> Levels], NEW d \in Dir, NEW g \in Level,
           NEW bucket \in SUBSET State
    PROVE  CheapestCuts(d, g, bucket) \subseteq Cuts
<1> SUFFICES ASSUME NEW sol \in CheapestCuts(d, g, bucket) PROVE sol \in Cuts
  OBVIOUS
<1>1. PICK h \in Level : \E C \in (SUBSET (bucket \cap closed[Opposite(d)][h])) \ {{}} :
         sol = IF d = "fw" THEN [g |-> g, h |-> h, cut |-> C]
                           ELSE [g |-> h, h |-> g, cut |-> C]
  BY CheapestCutsFacts
<1>2. QED
  BY <1>1 DEF Cuts

\* The callback never raises the upper bound, leaves it no higher than the cost
\* of any cut it was given, and keeps a cut only if it is the cheaper one.
LEMMA NewSolutionsFacts ==
    ASSUME upper_bound \in Level, NEW sols, sols \subseteq Cuts, NewSolutions(sols)
    PROVE  /\ upper_bound' \in Level /\ upper_bound' <= upper_bound
           /\ \A sol \in sols : Cost(sol) \in Nat /\ upper_bound' <= Cost(sol)
           /\ \/ UNCHANGED <<sym_cuts, upper_bound>>
              \/ \E sol \in sols : /\ sym_cuts' = {sol}
                                   /\ upper_bound' = Cost(sol)
                                   /\ upper_bound' < upper_bound
<1>1. \A sol \in sols : Cost(sol) \in Nat
  BY IntMaxAssumption DEF Cost, Cuts, Level
<1>2. upper_bound \in Nat /\ upper_bound <= INT_MAX
  BY IntMaxAssumption DEF Level
<1>3. CASE \E sol \in sols : Cost(sol) < upper_bound
  <2>1. PICK sol \in sols : /\ \A other \in sols : Cost(sol) <= Cost(other)
                            /\ sym_cuts' = {sol}
                            /\ upper_bound' = Cost(sol)
    BY <1>3 DEF NewSolutions
  <2>2. PICK cheap \in sols : Cost(cheap) < upper_bound
    BY <1>3
  <2>3. Cost(sol) < upper_bound
    BY <1>1, <1>2, <2>1, <2>2
  <2>4. QED
    BY <1>1, <1>2, <2>1, <2>3, IntMaxAssumption DEF Level
<1>4. CASE ~ \E sol \in sols : Cost(sol) < upper_bound
  BY <1>1, <1>2, <1>4 DEF NewSolutions
<1>5. QED
  BY <1>3, <1>4

\* A state that the opposite direction has closed gives rise to a cut that
\* costs no more than the plan through it.
LEMMA CheapestCutsMeet ==
    ASSUME NEW d \in Dir, NEW g \in Level, NEW bucket \in SUBSET State,
           NEW s \in bucket, NEW h \in Level, s \in closed[Opposite(d)][h]
    PROVE  \E sol \in CheapestCuts(d, g, bucket) : Cost(sol) <= g + h
<1> DEFINE met == {k \in Level : {s} \cap closed[Opposite(d)][k] # {}}
           least == Least(met)
           C == {s} \cap closed[Opposite(d)][least]
           sol == IF d = "fw" THEN [g |-> g, h |-> least, cut |-> C]
                              ELSE [g |-> least, h |-> g, cut |-> C]
<1>1. h \in met /\ met \in SUBSET Nat /\ met \subseteq Level
  BY IntMaxAssumption DEF Level
<1>2. least \in Level /\ least <= h
  BY <1>1, NatHasLeast
<1>3. sol \in CheapestCut(d, g, {s})
  BY <1>1 DEF CheapestCut
<1>4. sol \in CheapestCuts(d, g, bucket)
  BY <1>3 DEF CheapestCuts
<1>5. Cost(sol) = g + least
  BY <1>2, IntMaxAssumption DEF Cost, Level
<1>6. Cost(sol) <= g + h
  BY <1>2, <1>5, IntMaxAssumption DEF Level
<1> HIDE DEF sol
<1>7. QED
  BY <1>4, <1>6

-----------------------------------------------------------------------------
(* Reconstruction *)

\* The registry can trace every state of the cut in both directions.
TraceableCut(sol) ==
    /\ sol.cut # {}
    /\ \A s \in sol.cut : Traceable("fw", sol.g, s) /\ Traceable("bw", sol.h, s)

ClosedGrows == \A d \in Dir : \A g \in Level : closed[d][g] \subseteq closed'[d][g]

\* A state stays traceable while the closed lists only grow.
LEMMA TraceableStable ==
    ASSUME EngineTypeOK, task' = task, ClosedGrows,
           NEW d \in Dir, NEW g \in Level, NEW s, Traceable(d, g, s)
    PROVE  Traceable(d, g, s)'
<1>1. CASE g = 0 /\ s \in Source(task, d)
  BY <1>1 DEF Traceable
<1>2. ASSUME NEW c \in DOMAIN task.ops, c <= g,
             NEW r \in closed[d][g - c], Edge(task, d, c, r, s)
      PROVE  Traceable(d, g, s)'
  <2>1. c \in Nat
    BY MinTransitionCostFacts DEF EngineTypeOK
  <2>2. g - c \in Level
    BY <1>2, <2>1, IntMaxAssumption DEF Level
  <2>3. r \in closed'[d][g - c]
    BY <2>2 DEF ClosedGrows
  <2>4. QED
    BY <1>2, <2>3 DEF Traceable
<1>3. QED
  BY <1>1, <1>2 DEF Traceable

\* The cuts of a bucket of traceable states are traceable in both directions.
LEMMA CheapestCutsTraceable ==
    ASSUME PlanReconstructible, NEW d \in Dir, NEW g \in Level, NEW bucket \in SUBSET State,
           \A s \in bucket : Traceable(d, g, s),
           NEW sol \in CheapestCuts(d, g, bucket)
    PROVE  TraceableCut(sol)
<1>1. PICK h \in Level : \E C \in (SUBSET (bucket \cap closed[Opposite(d)][h])) \ {{}} :
         sol = IF d = "fw" THEN [g |-> g, h |-> h, cut |-> C]
                           ELSE [g |-> h, h |-> g, cut |-> C]
  BY CheapestCutsFacts
<1>2. PICK C \in (SUBSET (bucket \cap closed[Opposite(d)][h])) \ {{}} :
         sol = IF d = "fw" THEN [g |-> g, h |-> h, cut |-> C]
                           ELSE [g |-> h, h |-> g, cut |-> C]
  BY <1>1
<1>3. C # {} /\ \A s \in C : s \in bucket /\ s \in closed[Opposite(d)][h]
  BY <1>2
<1>4. \A s \in C : Traceable(d, g, s) /\ Traceable(Opposite(d), h, s)
  <2>1. Opposite(d) \in Dir
    BY DEF Opposite, Dir
  <2>2. QED
    BY <1>3, <2>1 DEF PlanReconstructible
<1>5. CASE d = "fw"
  BY <1>2, <1>3, <1>4, <1>5 DEF TraceableCut, Opposite
<1>6. CASE d = "bw"
  BY <1>2, <1>3, <1>4, <1>6 DEF TraceableCut, Opposite
<1>7. QED
  BY <1>5, <1>6 DEF Dir

\* Cuts that can be traced are all the registry ever gets.
LEMMA NewSolutionsTraceable ==
    ASSUME PlanReconstructible, NEW sols, NewSolutions(sols),
           \A sol \in sols : TraceableCut(sol)
    PROVE  /\ upper_bound' < task.bound =>
                 \E sol \in sym_cuts' : Cost(sol) = upper_bound' /\ sol.cut # {}
           /\ \A sol \in sym_cuts' : \A s \in sol.cut :
                 Traceable("fw", sol.g, s) /\ Traceable("bw", sol.h, s)
<1>1. CASE \E sol \in sols : Cost(sol) < upper_bound
  <2>1. PICK sol \in sols : sym_cuts' = {sol} /\ upper_bound' = Cost(sol)
    BY <1>1 DEF NewSolutions
  <2>2. QED
    BY <2>1 DEF TraceableCut
<1>2. CASE ~ \E sol \in sols : Cost(sol) < upper_bound
  <2>1. sym_cuts' = sym_cuts /\ upper_bound' = upper_bound
    BY <1>2 DEF NewSolutions
  <2>2. QED
    BY <2>1 DEF PlanReconstructible
<1>3. QED
  BY <1>1, <1>2
-----------------------------------------------------------------------------
(* What the optimality of every engine rests on *)

\* Ints are naturals with a largest one.
LEMMA LevelFacts == /\ \A k \in Level : k \in Nat /\ k <= INT_MAX
                    /\ 0 \in Level /\ INT_MAX \in Level /\ INT_MAX \in Nat
BY IntMaxAssumption DEF Level

\* What the driver computes with is a natural.
LEMMA EngineFacts ==
    ASSUME EngineTypeOK
    PROVE  /\ IsTask(task)
           /\ Optimum \in Nat /\ Optimum <= INT_MAX
           /\ task.bound \in Nat /\ task.bound <= INT_MAX
           /\ lower_bound \in Nat /\ lower_bound <= INT_MAX
           /\ upper_bound \in Nat /\ upper_bound <= INT_MAX
<1>1. IsTask(task) /\ task.init \in State /\ task.bound \in Level /\ "bw" \in Dir
  BY DEF EngineTypeOK, IsTask, Dir
<1>2. OptimalCost(task) \in Level
  BY <1>1, DistanceFacts
<1>3. QED
  BY <1>1, <1>2, LevelFacts DEF EngineTypeOK, Optimum

\* The registry is empty, or holds one cut that is cheaper than the user's
\* bound and not cheaper than the optimum.
PlanInv ==
    \/ sym_cuts = {} /\ upper_bound = task.bound
    \/ \E sol \in Cuts : /\ sym_cuts = {sol}
                         /\ upper_bound = Cost(sol)
                         /\ Optimum <= upper_bound
                         /\ upper_bound < task.bound

\* The empty plan is no cheaper than the optimum.
LEMMA EmptyPlanIsSound ==
    ASSUME EngineTypeOK, NEW sol \in EmptyPlan
    PROVE  Optimum <= Cost(sol)
<1>1. task.init \in task.goal /\ Cost(sol) = 0
  BY DEF EmptyPlan, Cost
<1>2. task.init \in State /\ task.init \in Source(task, "bw") /\ "bw" \in Dir
  BY <1>1 DEF EngineTypeOK, IsTask, Source, Dir
<1>3. Optimum = 0
  BY <1>2, DistanceFacts DEF EngineTypeOK, Optimum, OptimalCost
<1>4. QED
  BY <1>1, <1>3

\* A cut joins two levels, neither of which is too cheap.
LEMMA CutsAreNotTooCheap ==
    ASSUME EngineTypeOK, NEW d \in Dir, NEW g \in Level, NEW bucket \in SUBSET State,
           \A s \in bucket : task.dist[d][s] <= g,
           \A k \in Level : \A s \in closed[Opposite(d)][k] : task.dist[Opposite(d)][s] <= k,
           NEW sol \in CheapestCuts(d, g, bucket)
    PROVE  Optimum <= Cost(sol)
<1>1. PICK h \in Level : \E C \in (SUBSET (bucket \cap closed[Opposite(d)][h])) \ {{}} :
         sol = IF d = "fw" THEN [g |-> g, h |-> h, cut |-> C]
                           ELSE [g |-> h, h |-> g, cut |-> C]
  BY CheapestCutsFacts
<1>2. PICK C \in (SUBSET (bucket \cap closed[Opposite(d)][h])) \ {{}} :
         sol = IF d = "fw" THEN [g |-> g, h |-> h, cut |-> C]
                           ELSE [g |-> h, h |-> g, cut |-> C]
  BY <1>1
<1>3. PICK s \in C : s \in bucket /\ s \in closed[Opposite(d)][h] /\ s \in State
  BY <1>2
<1>4. Cost(sol) = g + h
  BY <1>2, IntMaxAssumption DEF Cost, Level
<1>5. task.dist[d][s] <= g /\ task.dist[Opposite(d)][s] <= h
  BY <1>3
<1>6. /\ CostThrough(task, s) = task.dist[d][s] + task.dist[Opposite(d)][s]
      /\ task.dist[d][s] \in Nat /\ task.dist[Opposite(d)][s] \in Nat
  BY <1>3, DistanceFacts, OppositeFacts DEF EngineTypeOK
<1>7. Optimum <= CostThrough(task, s) /\ Optimum \in Nat
  BY <1>3, OptimumIsLeast, DistanceFacts DEF EngineTypeOK, Optimum
<1>8. QED
  BY <1>4, <1>5, <1>6, <1>7, LevelFacts

\* A call of new_solution with such cuts keeps PlanInv.
LEMMA PlanInvNewSolutions ==
    ASSUME EngineTypeOK, PlanInv, task' = task, NEW sols, sols \subseteq Cuts,
           NewSolutions(sols), \A sol \in sols : Optimum <= Cost(sol)
    PROVE  PlanInv'
<1>1. upper_bound \in Nat /\ task.bound \in Nat /\ upper_bound <= task.bound
  BY IntMaxAssumption DEF PlanInv, EngineTypeOK, IsTask, Level
<1>2. \/ UNCHANGED <<sym_cuts, upper_bound>>
      \/ \E sol \in sols : /\ sym_cuts' = {sol}
                           /\ upper_bound' = Cost(sol)
                           /\ upper_bound' < upper_bound
  BY NewSolutionsFacts DEF EngineTypeOK
<1>3. CASE UNCHANGED <<sym_cuts, upper_bound>>
  BY <1>3 DEF PlanInv, Cost, Optimum
<1>4. ASSUME NEW sol \in sols, sym_cuts' = {sol}, upper_bound' = Cost(sol),
             upper_bound' < upper_bound
      PROVE  PlanInv'
  <2>1. Cost(sol) \in Nat /\ sol \in Cuts /\ Optimum <= Cost(sol)
    BY IntMaxAssumption DEF Cost, Cuts, Level
  <2>2. upper_bound' < task.bound
    BY <1>1, <1>4, <2>1
  <2>3. QED
    BY <1>4, <2>1, <2>2 DEF PlanInv, Cost, Optimum
<1>5. QED
  BY <1>2, <1>3, <1>4

\* What a search passes to setLowerBound keeps the bounds sound if it is at
\* most the optimum unless a cheapest plan is registered.
LEMMA BoundRises ==
    ASSUME EngineTypeOK, BoundsSound, pc # "init", task' = task,
           upper_bound' \in Nat, upper_bound' <= upper_bound,
           NEW x \in Int, SetLowerBound(x), Optimum < upper_bound' => x <= Optimum
    PROVE  BoundsSound'
<1>1. lower_bound' \in {lower_bound, x}
  BY DEF SetLowerBound, GreaterOf
<1>2. Optimum' = Optimum
  BY DEF Optimum
<1>3. QED
  BY <1>1, <1>2, EngineFacts DEF BoundsSound

\* With sound bounds, the driver only stops when they meet, and the registry
\* then holds a cheapest plan, or none is below the user's bound: no plan is
\* dearer than the upper bound it sets.
LEMMA Verdict ==
    ASSUME EngineTypeOK, EngineTypeOK', PlanInv', BoundsSound',
           StepEngine, pc' # "init", status' # "IN_PROGRESS"
    PROVE  /\ lower_bound >= upper_bound'
           /\ status' = "SOLVED" => /\ Optimum' < task'.bound
                                    /\ \E sol \in sym_cuts' : Cost(sol) = Optimum'
                                    /\ upper_bound' < task'.bound
           /\ status' = "FAILED" => Optimum' >= task'.bound /\ upper_bound' = task'.bound
           /\ status' \in {"SOLVED", "FAILED"}
<1>1. /\ UNCHANGED <<task, lower_bound>>
      /\ status' = IF lower_bound >= upper_bound'
                   THEN IF Constructs(sym_cuts', INT_MAX) THEN "SOLVED" ELSE "FAILED"
                   ELSE IF lower_bound_increased /\ Constructs(sym_cuts', lower_bound)
                   THEN "SOLVED"
                   ELSE "IN_PROGRESS"
  BY DEF StepEngine
<1>2. /\ Optimum' \in Nat /\ upper_bound' \in Nat /\ lower_bound \in Nat
      /\ task'.bound \in Nat /\ task'.bound <= INT_MAX /\ INT_MAX \in Nat
  <2>1. Optimum' = Optimum
    BY <1>1 DEF Optimum
  <2>2. upper_bound' \in Level
    BY DEF EngineTypeOK
  <2>3. QED
    BY <1>1, <2>1, <2>2, EngineFacts, LevelFacts
<1>3. \/ sym_cuts' = {} /\ upper_bound' = task'.bound
      \/ \E sol \in Cuts : /\ sym_cuts' = {sol}
                           /\ upper_bound' = Cost(sol)
                           /\ Optimum' <= upper_bound'
                           /\ upper_bound' < task'.bound
  BY DEF PlanInv, Cost
<1>4. lower_bound >= upper_bound'
  <2> SUFFICES ASSUME lower_bound < upper_bound' PROVE FALSE
    BY <1>2
  <2>1. PICK sol \in sym_cuts' : Cost(sol) < lower_bound
    BY <1>1, <1>2 DEF Constructs
  <2>2. upper_bound' = Cost(sol)
    BY <1>3, <2>1
  <2>3. QED
    BY <1>2, <2>1, <2>2
<1>5. upper_bound' <= Optimum'
  BY <1>1, <1>2, <1>4 DEF BoundsSound
<1>6. CASE sym_cuts' = {} /\ upper_bound' = task'.bound
  BY <1>1, <1>2, <1>4, <1>5, <1>6 DEF Constructs
<1>7. ASSUME NEW sol \in Cuts, sym_cuts' = {sol}, upper_bound' = Cost(sol),
             Optimum' <= upper_bound', upper_bound' < task'.bound
      PROVE  /\ status' = "SOLVED" /\ Optimum' < task'.bound /\ Cost(sol) = Optimum'
  BY <1>1, <1>2, <1>4, <1>5, <1>7 DEF Constructs
<1>8. QED
  BY <1>3, <1>4, <1>6, <1>7

\* A step of a search that moves the bounds only towards each other, or one in
\* which the driver answers, is a step of AnytimeBounds.
LEMMA BoundsMove ==
    ASSUME EngineTypeOK, EngineTypeOK', PlanInv, PlanInv', BoundsSound', task' = task,
           lower_bound <= lower_bound', upper_bound' <= upper_bound,
           pc' = "init" => pc = "init", status = "IN_PROGRESS",
           status' = "IN_PROGRESS" \/ (StepEngine /\ pc' = "step")
    PROVE  Bounds!Next
<1> DEFINE optimum == OptimalCost(task)
           lb == IF pc = "init" THEN 0 ELSE lower_bound
<1>1. optimum' = optimum /\ task'.bound = task.bound
  OBVIOUS
<1>2. /\ optimum \in Nat /\ task.bound \in Nat
      /\ lower_bound \in Nat /\ lower_bound' \in Nat /\ lower_bound' <= INT_MAX
      /\ upper_bound' \in Nat /\ upper_bound \in Nat
      /\ INT_MAX \in Nat /\ upper_bound <= task.bound
  <2>1. upper_bound' \in Level /\ lower_bound' \in Level
    BY DEF EngineTypeOK
  <2>2. optimum \in Nat
    BY EngineFacts DEF Optimum
  <2>3. upper_bound <= task.bound
    <3>1. upper_bound = task.bound \/ upper_bound < task.bound
      BY DEF PlanInv
    <3>2. QED
      BY <3>1, EngineFacts
  <2>4. QED
    BY <2>1, <2>2, <2>3, EngineFacts, LevelFacts
<1>3. lb \in Nat /\ lb' \in lb .. INT_MAX /\ upper_bound' \in 0 .. upper_bound
  BY <1>2
<1>4. lb' <= optimum' \/ upper_bound' <= optimum'
  BY <1>1, <1>2 DEF BoundsSound, Optimum
<1>5. upper_bound' < upper_bound => upper_bound' >= optimum
  BY <1>1, <1>2 DEF PlanInv, Optimum
<1>6. CASE status' = "IN_PROGRESS"
  BY <1>1, <1>3, <1>4, <1>5, <1>6 DEF Bounds!Next, Bounds!Tighten, Bounds!Sound
<1>7. CASE status' # "IN_PROGRESS"
  <2>1. StepEngine /\ pc' = "step"
    BY <1>7
  <2>2. lb' = lower_bound
    BY <2>1 DEF StepEngine
  <2>3. lb' >= upper_bound'
    BY <1>7, <2>1, <2>2, Verdict
  <2>4. status' = IF upper_bound' < task.bound THEN "SOLVED" ELSE "FAILED"
    BY <1>1, <1>2, <1>7, <2>1, Verdict
  <2>5. QED
    BY <1>1, <1>3, <1>4, <1>5, <2>3, <2>4 DEF Bounds!Next, Bounds!Answer, Bounds!Sound
<1>8. QED
  BY <1>6, <1>7
=============================================================================
