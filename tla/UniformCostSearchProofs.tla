----------------------- MODULE UniformCostSearchProofs -----------------------
(***************************************************************************)
(* Proofs about UniformCostSearch: sym_fw, sym_bw and sym_bd are sound and *)
(* optimal, for one direction and for two that interleave in any order,    *)
(* whichever images are cut off on the way.                                *)
(*                                                                         *)
(* Part one finds the invariant of what a search may be doing, part two    *)
(* that no state of a plan that is still of use is lost and that closed    *)
(* levels are exact, part three what that says of the driver: every lower  *)
(* bound a search computes is at most the optimum until a cheapest plan is *)
(* registered, the answer is optimal, and the engine implements            *)
(* AnytimeBounds.                                                          *)
(*                                                                         *)
(* The lemmas of part one are about an engine whose filter may drop any    *)
(* states of a popped bucket (LossyNext), so that they also hold for       *)
(* engines that prune more (BdPruneProofs).                                *)
(***************************************************************************)
EXTENDS UniformCostSearch, SymbolicSearchLemmas

\* A bucket is popped, and a part of what has not been closed is kept.
PopSome(d) ==
    /\ PopReady(d)
    /\ \E new \in SUBSET (open[d][MinG(open[d])] \ ClosedTotal(d)) : Close(d, new)

LossyNext ==
    \/ Step
    \/ \E d \in Searches : \/ BucketReady(d) \/ Exhausted(d) \/ PopSome(d)
                           \/ Prepare(d) \/ PrepareTruncated(d)
                           \/ Expand(d) \/ ExpandTruncated(d)
                           \/ Finish(d)
    \/ Return
    \/ Done

\* filterFrontier only removes states, and closed states always.
LEMMA NextIsLossy == [Next]_vars => [LossyNext]_vars
<1>1. ASSUME NEW d \in Searches, Pop(d) PROVE PopSome(d)
  <2>1. \A new \in Popped(d) : new \in SUBSET (open[d][MinG(open[d])] \ ClosedTotal(d))
    BY DEF Popped, FilterFrontier, FilteredInPart
  <2>2. QED
    BY <1>1, <2>1 DEF Pop, PopSome
<1>2. QED
  BY <1>1 DEF Next, StepImage, LossyNext

\* minG is the smallest key of the open list.
LEMMA MinGFacts ==
    ASSUME NEW op \in Levels
    PROVE  /\ MinG(op) \in Level
           /\ Keys(op) # {} => MinG(op) \in Keys(op)
           /\ \A k \in Keys(op) : MinG(op) <= k
<1>1. Keys(op) \in SUBSET Nat /\ Keys(op) \subseteq Level
  BY IntMaxAssumption DEF Keys, Level
<1>2. CASE Keys(op) = {}
  BY <1>2, IntMaxAssumption DEF MinG, Level
<1>3. CASE Keys(op) # {}
  <2>1. Least(Keys(op)) \in Keys(op) /\ \A y \in Keys(op) : Least(Keys(op)) <= y
    BY <1>1, <1>3, NatHasLeast
  <2>2. QED
    BY <1>1, <1>3, <2>1 DEF MinG
<1>4. QED
  BY <1>2, <1>3

\* getF and getG are ints: a sum that does not fit wraps around.
LEMMA GetFFacts ==
    ASSUME IsTask(task), NEW fr \in Frontier, NEW op \in Levels
    PROVE  /\ GetG(fr, op) \in Level
           /\ GetF(fr, op) \in Int
           /\ GetF(fr, op) <= INT_MAX
<1>1. MinG(op) \in Level
  BY MinGFacts
<1>2. fr.g \in Level
  BY DEF Frontier
<1>3. GetG(fr, op) \in Level
  BY <1>1, <1>2 DEF GetG
<1>4. MinTransitionCost(task) \in Level
  BY MinTransitionCostFacts
<1>5. /\ Plus(fr.g, MinTransitionCost(task)) \in Int
      /\ Plus(fr.g, MinTransitionCost(task)) <= INT_MAX
  BY <1>2, <1>4, PlusFacts
<1>6. QED
  BY <1>1, <1>3, <1>5, IntMaxAssumption DEF GetF, LesserOf, Level

\* selectBestDirection chooses a direction.
LEMMA SelectDirectionType ==
    ASSUME TypeOK, SelectDirection
    PROVE  dir' \in Dir /\ increases' \in Nat /\ failed' \in [Searches -> BOOLEAN]
<1>1. CASE ~Bidirectional
  BY <1>1 DEF TypeOK, EngineTypeOK, SelectDirection
<1>2. CASE Bidirectional /\ task.alternating
  BY <1>2 DEF TypeOK, EngineTypeOK, SelectDirection, Dir, Opposite
<1>3. CASE Bidirectional /\ ~task.alternating /\ failed["fw"] /\ failed["bw"]
  <2>1. increases' = increases + 1 /\ dir' = "fw" /\ failed' = [failed EXCEPT !["bw"] = FALSE]
    BY <1>3 DEF SelectDirection
  <2>2. increases \in Nat /\ failed \in [Searches -> BOOLEAN]
    BY DEF TypeOK, EngineTypeOK
  <2>3. increases' \in Nat
    BY <2>1, <2>2
  <2>4. failed' \in [Searches -> BOOLEAN]
    BY <2>1, <2>2, Zenon
  <2>5. QED
    BY <2>1, <2>3, <2>4 DEF Dir
<1>4. CASE Bidirectional /\ ~task.alternating /\ ~ (failed["fw"] /\ failed["bw"])
  BY <1>4 DEF TypeOK, EngineTypeOK, SelectDirection
<1>5. QED
  BY <1>1, <1>2, <1>3, <1>4

\* The same for the sums over both directions.
LEMMA BidirectionalFFacts ==
    ASSUME TypeOK, Bidirectional
    PROVE  /\ BidirectionalF \in Int
           /\ BidirectionalF <= INT_MAX
           /\ Plus(GetG(frontier["fw"], open["fw"]), GetG(frontier["bw"], open["bw"])) \in Int
           /\ Plus(GetG(frontier["fw"], open["fw"]), GetG(frontier["bw"], open["bw"])) <= INT_MAX
<1> DEFINE G(d) == GetG(frontier[d], open[d])
           F(d) == GetF(frontier[d], open[d])
           least == LesserOf(1, MinTransitionCost(task))
           total == Plus(G("fw"), G("bw"))
<1>1. ASSUME NEW d \in Dir PROVE G(d) \in Level /\ F(d) \in Int /\ F(d) <= INT_MAX
  <2>1. frontier[d] \in Frontier /\ open[d] \in Levels /\ IsTask(task)
    BY DEF TypeOK, EngineTypeOK, Bidirectional
  <2>2. QED
    BY <2>1, GetFFacts
<1>2. "fw" \in Dir /\ "bw" \in Dir
  BY DEF Dir
<1>3. total \in Int /\ total <= INT_MAX
  BY <1>1, <1>2, PlusFacts
<1>4. least \in Int /\ least <= INT_MAX
  <2>1. MinTransitionCost(task) \in Level
    BY MinTransitionCostFacts DEF TypeOK, EngineTypeOK
  <2>2. QED
    BY <2>1, IntMaxAssumption DEF LesserOf, Level
<1>5. Plus(total, least) \in Int /\ Plus(total, least) <= INT_MAX
  <2> HIDE DEF total, least
  <2> QED
    BY <1>3, <1>4, IntMaxAssumption DEF Plus
<1>6. BidirectionalF = GreaterOf(GreaterOf(F("fw"), F("bw")), Plus(total, least))
  BY DEF BidirectionalF
<1>7. F("fw") \in Int /\ F("bw") \in Int /\ F("fw") <= INT_MAX /\ F("bw") <= INT_MAX
  BY <1>1, <1>2
<1>8. BidirectionalF \in Int /\ BidirectionalF <= INT_MAX
  <2> HIDE DEF total, least, F
  <2> QED
    BY <1>5, <1>6, <1>7 DEF GreaterOf
<1>9. QED
  BY <1>3, <1>8

\* The initial values have the right types.
LEMMA InitType == Init => TypeOK
<1> SUFFICES ASSUME Init PROVE TypeOK
  OBVIOUS
<1>1. IsTask(task)
  BY TasksAssumption DEF Init
<1>2. MinTransitionCost(task) \in Level
  BY <1>1, MinTransitionCostFacts
<1>3. /\ task.bound \in Level
      /\ \A d \in Dir : Source(task, d) \in SUBSET State
  BY <1>1 DEF IsTask, Source
<1>4. 0 \in Level
  BY IntMaxAssumption DEF Level
<1>5. dir \in Dir
  <2>1. CASE Bidirectional
    BY <2>1 DEF Init, Dir
  <2>2. CASE ~Bidirectional
    BY <2>2, SearchesAssumption DEF Init
  <2>3. QED
    BY <2>1, <2>2
<1>6. frontier \in [Searches -> Frontier]
  BY <1>3, <1>4, SearchesAssumption DEF Init, Frontier, Phases
<1>7. NoStates \in Levels
  BY DEF NoStates, Levels
<1>8. open \in [Searches -> Levels]
  BY <1>7 DEF Init
<1>9. closed \in [Dir -> Levels]
  BY <1>3, <1>4, <1>7 DEF Init, Levels
<1>10. QED
  BY <1>1, <1>2, <1>3, <1>4, <1>5, <1>6, <1>8, <1>9 DEF Init, TypeOK, EngineTypeOK

\* No step changes the task.
LEMMA LossyKeepsTask == [LossyNext]_vars => task' = task
<1> SUFFICES ASSUME [LossyNext]_vars PROVE task' = task
  OBVIOUS
<1>1. CASE Step \/ Return \/ Done \/ UNCHANGED vars
  BY <1>1 DEF Step, StepEngine, Return, Done, vars
<1>2. ASSUME NEW d \in Searches,
             BucketReady(d) \/ Exhausted(d) \/ PopSome(d) \/ Prepare(d) \/ PrepareTruncated(d)
      PROVE  task' = task
  BY <1>2 DEF BucketReady, Exhausted, PopSome, Close, Prepare, PrepareTruncated
<1>3. ASSUME NEW d \in Searches, Expand(d) \/ ExpandTruncated(d) \/ Finish(d)
      PROVE  task' = task
  BY <1>3 DEF Expand, ExpandTruncated, Finish
<1>4. QED
  BY <1>1, <1>2, <1>3 DEF LossyNext

\* No step of a lossy engine leaves the types.
LEMMA LossyType == TypeOK /\ [LossyNext]_vars => TypeOK'
<1> SUFFICES ASSUME TypeOK, [LossyNext]_vars PROVE TypeOK'
  OBVIOUS
<1> USE DEF engine, search, control
<1>0. IsTask(task)
  BY DEF TypeOK, EngineTypeOK
<1>1. CASE Step
  <2>1. sym_cuts' \subseteq Cuts /\ upper_bound' \in Level
    BY <1>0, <1>1, EmptyPlanType, NewSolutionsType DEF Step, StepEngine, TypeOK, EngineTypeOK
  <2>2. dir' \in Dir /\ increases' \in Nat /\ failed' \in [Searches -> BOOLEAN]
    BY <1>1, SelectDirectionType DEF Step, StepEngine, TypeOK, EngineTypeOK
  <2>3. status' \in {"IN_PROGRESS", "SOLVED", "FAILED"}
    BY <1>1 DEF Step, StepEngine
  <2>4. QED
    BY <1>1, <2>1, <2>2, <2>3 DEF Step, StepEngine, TypeOK, EngineTypeOK
<1>2. ASSUME NEW d \in Searches, BucketReady(d) PROVE TypeOK'
  BY <1>2 DEF BucketReady, ReturnPoint, TypeOK, EngineTypeOK
<1>3. ASSUME NEW d \in Searches, Exhausted(d) PROVE TypeOK'
  <2>1. lower_bound' \in Level /\ lower_bound_increased' \in BOOLEAN
    BY <1>3, SetLowerBoundType, IntMaxAssumption DEF Exhausted, TypeOK, EngineTypeOK
  <2>2. QED
    BY <1>3, <2>1 DEF Exhausted, ReturnPoint, TypeOK, EngineTypeOK
<1>4. ASSUME NEW d \in Searches, PopSome(d) PROVE TypeOK'
  <2> DEFINE g == MinG(open[d])
             rest == [open[d] EXCEPT ![g] = {}]
  <2>1. d \in Dir /\ open[d] \in Levels
    BY SearchesAssumption DEF TypeOK, EngineTypeOK
  <2>2. g \in Level /\ open[d][g] \in SUBSET State
    BY <2>1, MinGFacts DEF Levels
  <2>3. rest \in Levels
    BY <2>1, <2>2 DEF Levels
  <2>4. PICK new \in SUBSET (open[d][g] \ ClosedTotal(d)) : Close(d, new)
    BY <1>4 DEF PopSome
  <2> DEFINE fr == [g |-> g, states |-> new,
                    phase |-> IF new = {} THEN "empty" ELSE "filter"]
  <2>5. sym_cuts' \subseteq Cuts /\ upper_bound' \in Level
    <3>1. PoppedCuts(d) \subseteq Cuts
      BY <2>1, <2>2, CheapestCutsType DEF PoppedCuts, TypeOK, EngineTypeOK
    <3>2. NewSolutions(PoppedCuts(d))
      BY <2>4 DEF Close
    <3>3. QED
      BY <3>1, <3>2, NewSolutionsType DEF TypeOK, EngineTypeOK
  <2>6. new \in SUBSET State
    BY <2>2
  <2>7. fr \in Frontier
    BY <2>2, <2>6 DEF Frontier, Phases
  <2>8. /\ frontier' = [frontier EXCEPT ![d] = fr]
        /\ open' = [open EXCEPT ![d] = rest]
        /\ closed' = IF lastStepCost[d] /\ g = 0 THEN closed
                     ELSE [closed EXCEPT ![d][g] = @ \cup new]
        /\ SetLowerBound(GetF(fr, rest))
        /\ SetMinG(GetG(fr, rest))
    BY <2>4 DEF Close
  <2>9. frontier' \in [Searches -> Frontier] /\ open' \in [Searches -> Levels]
    BY <2>3, <2>7, <2>8 DEF TypeOK, EngineTypeOK
  <2>10. closed' \in [Dir -> Levels]
    BY <2>1, <2>2, <2>6, <2>8 DEF TypeOK, EngineTypeOK, Levels
  <2>11. /\ lower_bound' \in Level /\ lower_bound_increased' \in BOOLEAN
         /\ min_g' \in Level
    <3>1. /\ GetG(fr, rest) \in Level
          /\ GetF(fr, rest) \in Int /\ GetF(fr, rest) <= INT_MAX
      BY <1>0, <2>3, <2>7, GetFFacts
    <3>2. GetG(fr, rest) \in Int /\ GetG(fr, rest) <= INT_MAX
      BY <3>1, IntMaxAssumption DEF Level
    <3>3. QED
      BY <2>8, <3>1, <3>2, SetLowerBoundType, SetMinGType DEF TypeOK, EngineTypeOK
  <2>12. pc' \in {"drain", "return", "step", "prepare"}
    BY <2>4 DEF Close, ReturnPoint
  <2>13. UNCHANGED <<task, status, lastStepCost, dir, increases, failed>>
    BY <2>4 DEF Close
  <2>14. QED
    BY <2>5, <2>9, <2>10, <2>11, <2>12, <2>13 DEF TypeOK, EngineTypeOK
<1>5. ASSUME NEW d \in Searches, Prepare(d) PROVE TypeOK'
  <2>1. frontier' \in [Searches -> Frontier]
    BY <1>5 DEF Prepare, TypeOK, EngineTypeOK, Frontier, Phases, FilterMutex
  <2>2. QED
    BY <1>5, <2>1 DEF Prepare, TypeOK, EngineTypeOK
<1>6. ASSUME NEW d \in Searches, PrepareTruncated(d) PROVE TypeOK'
  <2>1. frontier' \in [Searches -> Frontier]
    BY <1>6 DEF PrepareTruncated, FilteredInPart, TypeOK, EngineTypeOK, Frontier, Phases
  <2>2. QED
    BY <1>6, <2>1 DEF PrepareTruncated, ReturnPoint, TypeOK, EngineTypeOK
<1>7. ASSUME NEW d \in Searches, Expand(d) PROVE TypeOK'
  <2> DEFINE fr == frontier[d]
             Succ(c) == Image(task, d, c, fr.states)
             costs == CostsOf(fr.phase)
  <2>1. d \in Dir /\ open[d] \in Levels /\ fr \in Frontier
    BY SearchesAssumption DEF TypeOK, EngineTypeOK
  <2>2. \A c \in costs : fr.g + c \in Level
    <3>1. \A c \in costs : c \in Nat
      BY <1>0, MinTransitionCostFacts DEF CostsOf
    <3>2. \A c \in costs : fr.g + c < INT_MAX
      BY <1>7 DEF Expand
    <3>3. QED
      BY <2>1, <3>1, <3>2, IntMaxAssumption DEF Level, Frontier
  <2>3. ImageCuts(d) \subseteq Cuts
    <3>1. \A c \in costs : CheapestCuts(d, fr.g + c, Succ(c)) \subseteq Cuts
      BY <2>1, <2>2, ImageType, CheapestCutsType DEF TypeOK, EngineTypeOK
    <3>2. QED
      BY <3>1 DEF ImageCuts
  <2>4. sym_cuts' \subseteq Cuts /\ upper_bound' \in Level
    <3>1. NewSolutions(ImageCuts(d))
      BY <1>7 DEF Expand
    <3>2. QED
      BY <2>3, <3>1, NewSolutionsType DEF TypeOK, EngineTypeOK
  <2>5. open' \in [Searches -> Levels]
    <3>1. \A c \in costs : Succ(c) \ ClosedTotal(Opposite(d)) \in SUBSET State
      BY ImageType
    <3> DEFINE wider == [g \in Level |-> open[d][g] \cup
                  UNION {Succ(c) \ ClosedTotal(Opposite(d)) :
                         c \in {k \in costs : fr.g + k = g}}]
    <3>2. wider \in Levels
      BY <2>1, <3>1 DEF Levels
    <3>3. open' = [open EXCEPT ![d] = wider]
      BY <1>7 DEF Expand
    <3>4. QED
      BY <3>2, <3>3 DEF TypeOK, EngineTypeOK
  <2>6. frontier' \in [Searches -> Frontier]
    BY <1>7, <2>1 DEF Expand, TypeOK, EngineTypeOK, Frontier, Phases
  <2>7. QED
    BY <1>7, <2>4, <2>5, <2>6 DEF Expand, TypeOK, EngineTypeOK
<1>8. ASSUME NEW d \in Searches, ExpandTruncated(d) PROVE TypeOK'
  BY <1>8 DEF ExpandTruncated, TypeOK, EngineTypeOK
<1>9. ASSUME NEW d \in Searches, Finish(d) PROVE TypeOK'
  <2> DEFINE x == Plus(GetG(frontier[d], open[d]), MinTransitionCost(task))
  <2>1. frontier[d] \in Frontier /\ open[d] \in Levels
    BY DEF TypeOK, EngineTypeOK
  <2>2. x \in Int /\ x <= INT_MAX
    BY <1>0, <2>1, GetFFacts, MinTransitionCostFacts, PlusFacts
  <2>3. lower_bound' \in Level /\ lower_bound_increased' \in BOOLEAN
    BY <1>9, <2>2, SetLowerBoundType DEF Finish, TypeOK, EngineTypeOK
  <2>4. QED
    BY <1>9, <2>3 DEF Finish, ReturnPoint, TypeOK, EngineTypeOK
<1>10. CASE Return
  <2>1. Bidirectional
    BY <1>10 DEF Return
  <2>2. QED
    BY <1>10, <2>1, BidirectionalFFacts, SetLowerBoundType, SetMinGType DEF Return, TypeOK, EngineTypeOK
<1>11. CASE Done
  BY <1>11 DEF Done, vars, TypeOK, EngineTypeOK
<1>12. CASE UNCHANGED vars
  BY <1>12 DEF vars, TypeOK, EngineTypeOK
<1>13. QED
  BY <1>1, <1>2, <1>3, <1>4, <1>5, <1>6, <1>7, <1>8, <1>9, <1>10, <1>11, <1>12
     DEF LossyNext

\* Every variable keeps its type in every step: in particular all bounds and
\* g-values remain ints, although their sums may wrap around.
THEOREM TypeCorrect == Spec => []TypeOK
BY InitType, LossyType, NextIsLossy, PTL DEF Spec

-----------------------------------------------------------------------------
(* Plan reconstruction *)

\* What makes PlanReconstructible inductive: the frontier is part of the level
\* it was popped from, waiting states are one operator above a closed level,
\* and no bucket is popped before the first image of a direction.
TraceInv ==
    /\ PlanReconstructible
    /\ \A d \in Searches :
          /\ frontier[d].states \subseteq closed[d][frontier[d].g]
          /\ \A g \in Level : \A s \in open[d][g] : Traceable(d, g, s)
          /\ lastStepCost[d] => Keys(open[d]) = {}

\* Steps that leave closed lists, open lists and solutions alone only have to
\* keep the frontier inside its level.
LEMMA TraceInvFrame ==
    ASSUME TypeOK, TraceInv,
           UNCHANGED <<task, upper_bound, sym_cuts, open, closed, lastStepCost>>,
           \A d \in Searches : /\ frontier'[d].g = frontier[d].g
                                /\ frontier'[d].states \subseteq frontier[d].states
    PROVE  TraceInv'
<1>1. PlanReconstructible'
  BY DEF TraceInv, PlanReconstructible, Traceable
<1>2. \A d \in Searches : frontier'[d].states \subseteq closed'[d][frontier'[d].g]
  BY DEF TraceInv
<1>3. \A d \in Searches : \A g \in Level : \A s \in open'[d][g] : Traceable(d, g, s)'
  BY DEF TraceInv, Traceable
<1>4. \A d \in Searches : lastStepCost'[d] => Keys(open'[d]) = {}
  BY DEF TraceInv
<1>5. QED
  BY <1>1, <1>2, <1>3, <1>4 DEF TraceInv, Keys

\* TraceInv holds before the first step: only the sources are closed.
LEMMA TraceInvInit == Init => TraceInv
<1> SUFFICES ASSUME Init PROVE TraceInv
  OBVIOUS
<1>1. \A d \in Dir : \A g \in Level : \A s \in closed[d][g] : g = 0 /\ s \in Source(task, d)
  BY DEF Init, NoStates
<1>2. PlanReconstructible
  <2>1. upper_bound = task.bound /\ sym_cuts = {} /\ IsTask(task)
    BY TasksAssumption DEF Init
  <2>2. ~ (upper_bound < task.bound)
    BY <2>1, IntMaxAssumption DEF IsTask, Level
  <2>3. QED
    BY <1>1, <2>1, <2>2 DEF PlanReconstructible, Traceable
<1>3. ASSUME NEW d \in Searches
      PROVE  /\ frontier[d].states \subseteq closed[d][frontier[d].g]
             /\ \A g \in Level : open[d][g] = {}
  <2>1. d \in Dir /\ 0 \in Level
    BY SearchesAssumption, IntMaxAssumption DEF Level
  <2>2. frontier[d].states = Source(task, d) /\ frontier[d].g = 0
    BY DEF Init
  <2>3. closed[d][0] = Source(task, d)
    BY <2>1 DEF Init, NoStates
  <2>4. QED
    BY <2>2, <2>3 DEF Init, NoStates
<1>4. QED
  BY <1>2, <1>3 DEF TraceInv, Keys

\* The driver registers at most the empty plan.
LEMMA TraceInvStep == TypeOK /\ TraceInv /\ Step => TraceInv'
<1> SUFFICES ASSUME TypeOK, TraceInv, Step PROVE TraceInv'
  OBVIOUS
<1> USE DEF search
<1>1. \A sol \in EmptyPlan : TraceableCut(sol)
  BY DEF EmptyPlan, TraceableCut, Traceable, Source
<1>2. NewSolutions(EmptyPlan)
  BY DEF Step, StepEngine
<1>3. /\ upper_bound' < task.bound =>
            \E sol \in sym_cuts' : Cost(sol) = upper_bound' /\ sol.cut # {}
      /\ \A sol \in sym_cuts' : \A s \in sol.cut :
            Traceable("fw", sol.g, s) /\ Traceable("bw", sol.h, s)
  BY <1>1, <1>2, NewSolutionsTraceable DEF TraceInv
<1>4. UNCHANGED <<task, frontier, open, closed, lastStepCost>>
  BY DEF Step, StepEngine
<1>5. PlanReconstructible'
  BY <1>3, <1>4 DEF TraceInv, PlanReconstructible, Traceable, Cost
<1>6. QED
  BY <1>4, <1>5 DEF TraceInv, Traceable, Keys

\* Closing a bucket keeps what waits behind it traceable.
LEMMA TraceInvPop ==
    ASSUME TypeOK, TraceInv, NEW d \in Searches, PopSome(d)
    PROVE  TraceInv'
<1> DEFINE g == MinG(open[d])
           rest == [open[d] EXCEPT ![g] = {}]
<1>1. d \in Dir /\ open[d] \in Levels
  BY SearchesAssumption DEF TypeOK, EngineTypeOK
<1>2. g \in Keys(open[d]) /\ g \in Level /\ open[d][g] \in SUBSET State
  BY <1>1, MinGFacts DEF PopSome, PopReady, Levels
<1>3. ~lastStepCost[d]
  BY <1>2 DEF TraceInv
<1>4. \A s \in open[d][g] : Traceable(d, g, s)
  BY <1>2 DEF TraceInv
<1>5. /\ upper_bound' < task.bound =>
            \E sol \in sym_cuts' : Cost(sol) = upper_bound' /\ sol.cut # {}
      /\ \A sol \in sym_cuts' : \A s \in sol.cut :
            Traceable("fw", sol.g, s) /\ Traceable("bw", sol.h, s)
  <2>1. NewSolutions(PoppedCuts(d))
    BY DEF PopSome, Close
  <2>2. \A sol \in PoppedCuts(d) : TraceableCut(sol)
    BY <1>1, <1>2, <1>4, CheapestCutsTraceable DEF TraceInv, PoppedCuts
  <2>3. QED
    BY <2>1, <2>2, NewSolutionsTraceable DEF TraceInv
<1>6. PICK new \in SUBSET (open[d][g] \ ClosedTotal(d)) :
         /\ frontier' = [frontier EXCEPT ![d] =
               [g |-> g, states |-> new, phase |-> IF new = {} THEN "empty" ELSE "filter"]]
         /\ closed' = [closed EXCEPT ![d][g] = @ \cup new]
  BY <1>3 DEF PopSome, Close
<1>7. new \subseteq open[d][g]
  OBVIOUS
<1>8. UNCHANGED <<task, lastStepCost>> /\ open' = [open EXCEPT ![d] = rest]
  BY DEF PopSome, Close
<1>9. closed'[d][g] = closed[d][g] \cup new
  BY <1>1, <1>2, <1>6 DEF TypeOK, EngineTypeOK, Levels
<1>10. \A e \in Dir : \A k \in Level : e # d \/ k # g => closed'[e][k] = closed[e][k]
  BY <1>1, <1>2, <1>6 DEF TypeOK, EngineTypeOK, Levels
<1>11. ClosedGrows
  BY <1>9, <1>10 DEF ClosedGrows
<1>12. \A e \in Dir : \A k \in Level : \A s \in closed'[e][k] : Traceable(e, k, s)
  BY <1>4, <1>7, <1>9, <1>10 DEF TraceInv, PlanReconstructible
<1>13. \A e \in Dir : \A k \in Level : \A s : Traceable(e, k, s) => Traceable(e, k, s)'
  BY <1>8, <1>11, TraceableStable DEF TypeOK
<1>14. PlanReconstructible'
  <2>1. sym_cuts' \subseteq Cuts
    <3>1. NewSolutions(PoppedCuts(d))
      BY DEF PopSome, Close
    <3>2. PoppedCuts(d) \subseteq Cuts
      BY <1>1, <1>2, CheapestCutsType DEF PoppedCuts, TypeOK, EngineTypeOK
    <3>3. QED
      BY <3>1, <3>2, NewSolutionsType DEF TypeOK, EngineTypeOK
  <2>2. \A sol \in sym_cuts' : sol.g \in Level /\ sol.h \in Level
    BY <2>1 DEF Cuts
  <2>3. \A sol \in sym_cuts' : \A s \in sol.cut :
           Traceable("fw", sol.g, s)' /\ Traceable("bw", sol.h, s)'
    BY <1>5, <1>13, <2>2 DEF Dir
  <2>4. \A e \in Dir : \A k \in Level : \A s \in closed'[e][k] : Traceable(e, k, s)'
    BY <1>12, <1>13
  <2>5. QED
    BY <1>5, <1>8, <2>3, <2>4 DEF PlanReconstructible, Cost
<1>15. ASSUME NEW e \in Searches
       PROVE  /\ frontier'[e].states \subseteq closed'[e][frontier'[e].g]
              /\ \A k \in Level : \A s \in open'[e][k] : Traceable(e, k, s)'
              /\ lastStepCost'[e] => Keys(open'[e]) = {}
  <2>1. e \in Dir
    BY SearchesAssumption
  <2>2. CASE e = d
    <3>1. frontier'[e].states = new /\ frontier'[e].g = g
      BY <1>6, <2>2 DEF TypeOK, EngineTypeOK
    <3>2. open'[e] = rest
      BY <1>8, <2>2 DEF TypeOK, EngineTypeOK
    <3>3. \A k \in Level : rest[k] \subseteq open[d][k]
      BY <1>1, <1>2 DEF Levels
    <3>4. \A k \in Level : \A s \in open'[e][k] : Traceable(e, k, s)'
      BY <1>13, <2>1, <2>2, <3>2, <3>3 DEF TraceInv
    <3>5. QED
      BY <1>3, <1>8, <1>9, <2>2, <3>1, <3>4
  <2>3. CASE e # d
    <3>1. frontier'[e] = frontier[e] /\ open'[e] = open[e]
      BY <1>6, <1>8, <2>3 DEF TypeOK, EngineTypeOK
    <3>2. frontier[e].g \in Level
      BY DEF TypeOK, EngineTypeOK, Frontier
    <3>3. frontier'[e].states \subseteq closed'[e][frontier'[e].g]
      BY <1>11, <2>1, <3>1, <3>2 DEF TraceInv, ClosedGrows
    <3>4. \A k \in Level : \A s \in open'[e][k] : Traceable(e, k, s)'
      BY <1>13, <2>1, <3>1 DEF TraceInv
    <3>5. QED
      BY <1>8, <3>1, <3>3, <3>4 DEF TraceInv
  <2>4. QED
    BY <2>2, <2>3
<1>16. QED
  BY <1>14, <1>15 DEF TraceInv, Keys

\* Successors lie one operator above the level they were generated from.
LEMMA TraceInvExpand ==
    ASSUME TypeOK, TraceInv, NEW d \in Searches, Expand(d)
    PROVE  TraceInv'
<1> DEFINE fr == frontier[d]
           Succ(c) == Image(task, d, c, fr.states)
           costs == CostsOf(fr.phase)
<1>1. d \in Dir /\ fr \in Frontier /\ fr.g \in Level /\ open[d] \in Levels
  BY SearchesAssumption DEF TypeOK, EngineTypeOK, Frontier
<1>2. \A c \in costs : c \in DOMAIN task.ops /\ c \in Nat /\ fr.g + c \in Level
  <2>1. \A c \in costs : c \in DOMAIN task.ops /\ c \in Nat
    BY MinTransitionCostFacts DEF CostsOf, TypeOK, EngineTypeOK
  <2>2. \A c \in costs : fr.g + c < INT_MAX
    BY DEF Expand
  <2>3. QED
    BY <1>1, <2>1, <2>2, IntMaxAssumption DEF Level
<1>3. ASSUME NEW c \in costs, NEW s \in Succ(c)
      PROVE  Traceable(d, fr.g + c, s)
  <2>1. PICK r \in fr.states : Edge(task, d, c, r, s)
    BY <1>3 DEF Image
  <2>2. r \in closed[d][fr.g]
    BY <2>1 DEF TraceInv
  <2>3. c \in DOMAIN task.ops /\ c <= fr.g + c /\ (fr.g + c) - c = fr.g
    BY <1>1, <1>2 DEF Level
  <2>4. QED
    BY <2>1, <2>2, <2>3 DEF Traceable
<1>4. NewSolutions(ImageCuts(d))
  BY DEF Expand
<1>5. ASSUME NEW sol \in ImageCuts(d)
      PROVE  TraceableCut(sol)
  <2>1. PICK c \in costs : sol \in CheapestCuts(d, fr.g + c, Succ(c))
    BY DEF ImageCuts
  <2>2. Succ(c) \in SUBSET State
    BY ImageType
  <2>3. QED
    BY <1>1, <1>2, <1>3, <2>1, <2>2, CheapestCutsTraceable DEF TraceInv
<1>6. /\ upper_bound' < task.bound =>
            \E sol \in sym_cuts' : Cost(sol) = upper_bound' /\ sol.cut # {}
      /\ \A sol \in sym_cuts' : \A s \in sol.cut :
            Traceable("fw", sol.g, s) /\ Traceable("bw", sol.h, s)
  BY <1>4, <1>5, NewSolutionsTraceable DEF TraceInv
<1>7. UNCHANGED <<task, closed>>
  BY DEF Expand
<1>8. PlanReconstructible'
  BY <1>6, <1>7 DEF TraceInv, PlanReconstructible, Traceable, Cost
<1> DEFINE wider == [g \in Level |-> open[d][g] \cup
                  UNION {Succ(c) \ ClosedTotal(Opposite(d)) :
                         c \in {k \in costs : fr.g + k = g}}]
           rest == IF fr.phase = "zero" THEN [fr EXCEPT !.phase = "cost"]
                   ELSE [fr EXCEPT !.phase = "empty", !.states = {}]
<1>9. /\ open' = [open EXCEPT ![d] = wider]
      /\ frontier' = [frontier EXCEPT ![d] = rest]
      /\ lastStepCost' = [lastStepCost EXCEPT ![d] = FALSE]
  BY DEF Expand
<1>10. \A k \in Level : \A s \in wider[k] : Traceable(d, k, s)
  <2>1. TAKE k \in Level
  <2>2. TAKE s \in wider[k]
  <2>3. CASE s \in open[d][k]
    BY <2>3 DEF TraceInv
  <2>4. CASE s \notin open[d][k]
    <3>1. PICK c \in costs : fr.g + c = k /\ s \in Succ(c)
      BY <2>4
    <3>2. QED
      BY <1>3, <3>1
  <2>5. QED
    BY <2>3, <2>4
<1>11. rest.g = fr.g /\ rest.states \subseteq fr.states
  BY <1>1 DEF Frontier
<1>12. ASSUME NEW e \in Searches
       PROVE  /\ frontier'[e].states \subseteq closed'[e][frontier'[e].g]
              /\ \A k \in Level : \A s \in open'[e][k] : Traceable(e, k, s)'
              /\ lastStepCost'[e] => Keys(open'[e]) = {}
  <2>1. CASE e = d
    <3>1. frontier'[e] = rest /\ open'[e] = wider /\ lastStepCost'[e] = FALSE
      <4>1. frontier'[e] = rest /\ open'[e] = wider
        BY <1>9, <2>1 DEF TypeOK, EngineTypeOK
      <4>2. lastStepCost'[e] = FALSE
        BY <1>9, <2>1, Zenon DEF TypeOK, EngineTypeOK
      <4>3. QED
        BY <4>1, <4>2
    <3>2. frontier'[e].states \subseteq closed'[e][frontier'[e].g]
      BY <1>7, <1>11, <2>1, <3>1 DEF TraceInv
    <3>3. \A k \in Level : \A s \in open'[e][k] : Traceable(e, k, s)'
      BY <1>7, <1>10, <2>1, <3>1 DEF Traceable
    <3>4. QED
      BY <3>1, <3>2, <3>3
  <2>2. CASE e # d
    <3>1. frontier'[e] = frontier[e] /\ open'[e] = open[e]
      BY <1>9, <2>2 DEF TypeOK, EngineTypeOK
    <3>2. lastStepCost'[e] = lastStepCost[e]
      BY <1>9, <2>2, Zenon DEF TypeOK, EngineTypeOK
    <3>3. \A k \in Level : \A s \in open'[e][k] : Traceable(e, k, s)'
      BY <1>7, <3>1 DEF TraceInv, Traceable
    <3>4. QED
      BY <1>7, <3>1, <3>2, <3>3 DEF TraceInv
  <2>3. QED
    BY <2>1, <2>2
<1>13. QED
  BY <1>8, <1>12 DEF TraceInv, Keys

\* TraceInv is inductive: only the driver, a popped bucket and an image touch
\* what it relates.
LEMMA LossyTrace == TypeOK /\ TraceInv /\ [LossyNext]_vars => TraceInv'
<1> SUFFICES ASSUME TypeOK, TraceInv, [LossyNext]_vars PROVE TraceInv'
  OBVIOUS
<1> USE DEF engine, search, control
<1>1. CASE Step
  BY <1>1, TraceInvStep
<1>2. ASSUME NEW d \in Searches, BucketReady(d) PROVE TraceInv'
  BY <1>2, TraceInvFrame DEF BucketReady
<1>3. ASSUME NEW d \in Searches, Exhausted(d) PROVE TraceInv'
  BY <1>3, TraceInvFrame DEF Exhausted
<1>4. ASSUME NEW d \in Searches, PopSome(d) PROVE TraceInv'
  BY <1>4, TraceInvPop
<1>5. ASSUME NEW d \in Searches, Prepare(d) PROVE TraceInv'
  <2>1. \A e \in Searches : /\ frontier'[e].g = frontier[e].g
                             /\ frontier'[e].states \subseteq frontier[e].states
    BY <1>5 DEF Prepare, FilterMutex, TypeOK, EngineTypeOK, Frontier
  <2>2. QED
    BY <1>5, <2>1, TraceInvFrame DEF Prepare
<1>6. ASSUME NEW d \in Searches, PrepareTruncated(d) PROVE TraceInv'
  <2>1. \A e \in Searches : /\ frontier'[e].g = frontier[e].g
                             /\ frontier'[e].states \subseteq frontier[e].states
    BY <1>6 DEF PrepareTruncated, FilteredInPart, TypeOK, EngineTypeOK, Frontier
  <2>2. QED
    BY <1>6, <2>1, TraceInvFrame DEF PrepareTruncated
<1>7. ASSUME NEW d \in Searches, Expand(d) PROVE TraceInv'
  BY <1>7, TraceInvExpand
<1>8. ASSUME NEW d \in Searches, ExpandTruncated(d) PROVE TraceInv'
  BY <1>8, TraceInvFrame DEF ExpandTruncated
<1>9. ASSUME NEW d \in Searches, Finish(d) PROVE TraceInv'
  BY <1>9, TraceInvFrame DEF Finish
<1>10. CASE Return
  BY <1>10, TraceInvFrame DEF Return
<1>11. CASE Done
  BY <1>11, TraceInvFrame DEF Done, vars
<1>12. CASE UNCHANGED vars
  BY <1>12, TraceInvFrame DEF vars
<1>13. QED
  BY <1>1, <1>2, <1>3, <1>4, <1>5, <1>6, <1>7, <1>8, <1>9, <1>10, <1>11, <1>12
     DEF LossyNext

\* TraceInv is an invariant.
LEMMA TraceInvariant == Spec => []TraceInv
BY LossyTrace, TraceInvInit, TypeCorrect, NextIsLossy, PTL DEF Spec

\* The registered solution can always be reconstructed from the closed lists
\* and costs what the engine believes: on every task, in every direction, and
\* however often images are cut off and buckets are cut, pruned and filtered
\* while they wait.
THEOREM PlansReconstructible == Spec => []PlanReconstructible
<1>1. TraceInv => PlanReconstructible
  BY DEF TraceInv
<1>2. QED
  BY <1>1, TraceInvariant, PTL

-----------------------------------------------------------------------------
(* The closed lists grow in order *)

\* What popping a bucket does to the lists: the cheapest level of open is
\* moved, without the states closed before, to the closed list.
LEMMA PopFacts ==
    ASSUME TypeOK, NEW d \in Searches, PopSome(d)
    PROVE  /\ MinG(open[d]) \in Keys(open[d])
           /\ \A k \in Keys(open[d]) : MinG(open[d]) <= k
           /\ frontier'[d].g = MinG(open[d])
           /\ \A e \in Searches \ {d} : frontier'[e] = frontier[e] /\ open'[e] = open[e]
           /\ \A k \in Level : open'[d][k] \subseteq open[d][k]
           /\ ClosedGrows
           /\ \A e \in Dir : \A k \in Level : \A s \in closed'[e][k] \ closed[e][k] :
                 e = d /\ k = MinG(open[d]) /\ s \in open[d][k] /\ s \notin ClosedTotal(d)
<1> DEFINE g == MinG(open[d])
           rest == [open[d] EXCEPT ![g] = {}]
<1>1. d \in Dir /\ open[d] \in Levels
  BY SearchesAssumption DEF TypeOK, EngineTypeOK
<1>2. g \in Keys(open[d]) /\ g \in Level /\ \A k \in Keys(open[d]) : g <= k
  BY <1>1, MinGFacts DEF PopSome, PopReady
<1>3. PICK new \in SUBSET (open[d][g] \ ClosedTotal(d)) :
         /\ frontier' = [frontier EXCEPT ![d] =
               [g |-> g, states |-> new, phase |-> IF new = {} THEN "empty" ELSE "filter"]]
         /\ closed' = IF lastStepCost[d] /\ g = 0 THEN closed
                      ELSE [closed EXCEPT ![d][g] = @ \cup new]
  BY DEF PopSome, Close
<1>4. new \subseteq open[d][g] \ ClosedTotal(d)
  OBVIOUS
<1>5. open' = [open EXCEPT ![d] = rest]
  BY DEF PopSome, Close
<1>6. ASSUME NEW e \in Dir, NEW k \in Level, NEW s \in closed'[e][k] \ closed[e][k]
      PROVE  e = d /\ k = g /\ s \in open[d][k] /\ s \notin ClosedTotal(d)
  <2>1. closed' # closed
    BY <1>6
  <2>2. closed' = [closed EXCEPT ![d][g] = @ \cup new]
    BY <1>3, <2>1
  <2>3. closed \in [Dir -> [Level -> SUBSET State]]
    BY DEF TypeOK, EngineTypeOK, Levels
  <2>4. e = d /\ k = g /\ s \in new
    BY <1>1, <1>2, <1>6, <2>2, <2>3
  <2>5. QED
    BY <1>4, <2>4
<1>7. \A k \in Level : open'[d][k] \subseteq open[d][k]
  <2>1. open'[d] = rest
    BY <1>5 DEF TypeOK
  <2>2. QED
    BY <1>1, <1>2, <2>1 DEF Levels
<1>8. frontier'[d].g = g
  BY <1>3 DEF TypeOK
<1>9. \A e \in Searches \ {d} : frontier'[e] = frontier[e] /\ open'[e] = open[e]
  BY <1>3, <1>5 DEF TypeOK
<1>10. ClosedGrows
  BY <1>1, <1>2, <1>3 DEF ClosedGrows, TypeOK, EngineTypeOK, Levels
<1>11. QED
  BY <1>2, <1>6, <1>7, <1>8, <1>9, <1>10

\* Only popping a bucket closes states.
LEMMA OnlyPopCloses ==
    ASSUME [LossyNext]_vars, \A d \in Searches : ~PopSome(d)
    PROVE  UNCHANGED <<task, closed>>
BY DEF LossyNext, Step, StepEngine, BucketReady, Exhausted, Prepare, PrepareTruncated,
       Expand, ExpandTruncated, Finish, Return, Done, vars, engine, search, control

\* A step closes traceable states only.
LEMMA LossyTraced ==
    TypeOK /\ TraceInv /\ [LossyNext]_vars =>
        \A d \in Dir : \A g \in Level : \A s \in closed'[d][g] \ closed[d][g] :
            Traceable(d, g, s)
<1> DEFINE A == \A d \in Dir : \A g \in Level : \A s \in closed'[d][g] \ closed[d][g] :
                   Traceable(d, g, s)
<1> SUFFICES ASSUME TypeOK, TraceInv, [LossyNext]_vars PROVE A
  OBVIOUS
<1>1. CASE \E d \in Searches : PopSome(d)
  <2>1. PICK d \in Searches : PopSome(d)
    BY <1>1
  <2>2. \A e \in Dir : \A k \in Level : \A s \in closed'[e][k] \ closed[e][k] :
           e = d /\ s \in open[d][k]
    BY <2>1, PopFacts
  <2>3. \A k \in Level : \A s \in open[d][k] : Traceable(d, k, s)
    BY DEF TraceInv
  <2>4. QED
    BY <2>2, <2>3
<1>2. CASE \A d \in Searches : ~PopSome(d)
  BY <1>2, OnlyPopCloses
<1>3. QED
  BY <1>1, <1>2

\* Backward reachability through the closed lists never runs in circles: what
\* TraceInv says of waiting states holds when they are closed.
THEOREM ClosedAreTraced == Spec => ClosedAfterPredecessor
<1>1. Spec => [](TypeOK /\ TraceInv)
  BY TypeCorrect, TraceInvariant, PTL
<1>2. QED
  BY <1>1, LossyTraced, NextIsLossy, PTL DEF Spec, ClosedAfterPredecessor

\* The level the frontier came from separates what is closed from what waits.
OrderInv ==
    \A d \in Searches : \A k \in Level :
        /\ closed[d][k] # {} => k <= frontier[d].g
        /\ open[d][k] # {} => frontier[d].g <= k

\* OrderInv holds at the start: nothing waits, only the sources are closed.
LEMMA OrderInvInit == Init => OrderInv
<1> SUFFICES ASSUME Init, NEW d \in Searches, NEW k \in Level
             PROVE  /\ closed[d][k] # {} => k <= frontier[d].g
                    /\ open[d][k] # {} => frontier[d].g <= k
  BY DEF OrderInv
<1>1. frontier[d].g = 0 /\ open[d][k] = {}
  BY DEF Init, NoStates
<1>2. closed[d][k] # {} => k = 0
  BY SearchesAssumption DEF Init, NoStates
<1>3. QED
  BY <1>1, <1>2

\* Successors are put on open at no smaller g than the frontier's.
LEMMA OrderInvExpand ==
    ASSUME TypeOK, OrderInv, NEW d \in Searches, Expand(d)
    PROVE  OrderInv'
<1> DEFINE fr == frontier[d]
           Succ(c) == Image(task, d, c, fr.states)
           costs == CostsOf(fr.phase)
           wider == [g \in Level |-> open[d][g] \cup
                  UNION {Succ(c) \ ClosedTotal(Opposite(d)) :
                         c \in {k \in costs : fr.g + k = g}}]
           rest == IF fr.phase = "zero" THEN [fr EXCEPT !.phase = "cost"]
                   ELSE [fr EXCEPT !.phase = "empty", !.states = {}]
<1>1. /\ open' = [open EXCEPT ![d] = wider]
      /\ frontier' = [frontier EXCEPT ![d] = rest]
      /\ closed' = closed
  BY DEF Expand
<1>2. fr \in Frontier /\ fr.g \in Nat
  BY IntMaxAssumption DEF TypeOK, Frontier, Level
<1>3. \A c \in costs : c \in Nat
  BY MinTransitionCostFacts DEF CostsOf, TypeOK, EngineTypeOK
<1>4. rest.g = fr.g
  BY <1>2 DEF Frontier
<1>5. ASSUME NEW k \in Level, wider[k] # {}, open[d][k] = {}
      PROVE  fr.g <= k
  <2>1. PICK c \in costs : fr.g + c = k
    BY <1>5
  <2>2. QED
    BY <1>2, <1>3, <2>1
<1>6. ASSUME NEW e \in Searches, NEW k \in Level
      PROVE  /\ closed'[e][k] # {} => k <= frontier'[e].g
             /\ open'[e][k] # {} => frontier'[e].g <= k
  <2>1. CASE e = d
    <3>1. frontier'[e] = rest /\ open'[e] = wider
      BY <1>1, <2>1 DEF TypeOK
    <3>2. frontier'[e].g = fr.g
      BY <1>4, <3>1
    <3>3. open'[e][k] # {} => fr.g <= k
      <4> HIDE DEF wider
      <4> QED
        BY <1>5, <2>1, <3>1 DEF OrderInv
    <3>4. QED
      BY <1>1, <2>1, <3>2, <3>3 DEF OrderInv
  <2>2. CASE e # d
    <3>1. frontier'[e] = frontier[e] /\ open'[e] = open[e]
      BY <1>1, <2>2 DEF TypeOK
    <3>2. QED
      BY <1>1, <3>1 DEF OrderInv
  <2>3. QED
    BY <2>1, <2>2
<1>7. QED
  BY <1>6 DEF OrderInv

\* The popped level becomes the frontier's; no cheaper one is left on open.
LEMMA OrderInvPop ==
    ASSUME TypeOK, OrderInv, NEW d \in Searches, PopSome(d)
    PROVE  OrderInv'
<1> DEFINE g == MinG(open[d])
<1>1. /\ g \in Keys(open[d])
      /\ \A k \in Keys(open[d]) : g <= k
      /\ frontier'[d].g = g
      /\ \A e \in Searches \ {d} : frontier'[e] = frontier[e] /\ open'[e] = open[e]
      /\ \A k \in Level : open'[d][k] \subseteq open[d][k]
      /\ \A e \in Dir : \A k \in Level : \A s \in closed'[e][k] \ closed[e][k] : e = d /\ k = g
  BY PopFacts
<1>2. g \in Nat /\ frontier[d].g \in Nat /\ frontier[d].g <= g
  BY <1>1, IntMaxAssumption DEF OrderInv, Keys, TypeOK, Frontier, Level
<1>3. ASSUME NEW e \in Searches, NEW k \in Level
      PROVE  /\ closed'[e][k] # {} => k <= frontier'[e].g
             /\ open'[e][k] # {} => frontier'[e].g <= k
  <2>1. k \in Nat /\ e \in Dir
    BY IntMaxAssumption, SearchesAssumption DEF Level
  <2>2. closed'[e][k] # {} => closed[e][k] # {} \/ (e = d /\ k = g)
    BY <1>1, <2>1
  <2>3. closed[e][k] # {} => k <= frontier[e].g
    BY DEF OrderInv
  <2>4. open[e][k] # {} => frontier[e].g <= k
    BY DEF OrderInv
  <2>5. CASE e = d
    <3>1. open'[e][k] # {} => g <= k
      BY <1>1, <2>5 DEF Keys
    <3>2. closed'[e][k] # {} => k <= g
      BY <1>2, <2>1, <2>2, <2>3, <2>5
    <3>3. QED
      BY <1>1, <2>5, <3>1, <3>2
  <2>6. CASE e # d
    <3>1. frontier'[e] = frontier[e] /\ open'[e] = open[e]
      BY <1>1, <2>6
    <3>2. QED
      BY <2>2, <2>3, <2>4, <2>6, <3>1
  <2>7. QED
    BY <2>5, <2>6
<1>4. QED
  BY <1>3 DEF OrderInv

\* Every other step leaves the lists and the level of each frontier alone.
LEMMA OrderInvFrame ==
    ASSUME OrderInv, UNCHANGED <<open, closed>>,
           \A d \in Searches : frontier'[d].g = frontier[d].g
    PROVE  OrderInv'
BY DEF OrderInv

\* OrderInv is inductive.
LEMMA LossyOrder == TypeOK /\ OrderInv /\ [LossyNext]_vars => OrderInv'
<1> SUFFICES ASSUME TypeOK, OrderInv, [LossyNext]_vars PROVE OrderInv'
  OBVIOUS
<1> USE DEF engine, search, control
<1>1. CASE Step
  BY <1>1, OrderInvFrame DEF Step, StepEngine
<1>2. ASSUME NEW d \in Searches, PopSome(d) PROVE OrderInv'
  BY <1>2, OrderInvPop
<1>3. ASSUME NEW d \in Searches, Expand(d) PROVE OrderInv'
  BY <1>3, OrderInvExpand
<1>4. ASSUME NEW d \in Searches, Prepare(d) PROVE OrderInv'
  <2>1. \A e \in Searches : frontier'[e].g = frontier[e].g
    BY <1>4 DEF Prepare, TypeOK, Frontier
  <2>2. QED
    BY <1>4, <2>1, OrderInvFrame DEF Prepare
<1>5. ASSUME NEW d \in Searches, PrepareTruncated(d) PROVE OrderInv'
  <2>1. \A e \in Searches : frontier'[e].g = frontier[e].g
    BY <1>5 DEF PrepareTruncated, TypeOK, Frontier
  <2>2. QED
    BY <1>5, <2>1, OrderInvFrame DEF PrepareTruncated
<1>6. ASSUME NEW d \in Searches,
             BucketReady(d) \/ Exhausted(d) \/ ExpandTruncated(d) \/ Finish(d)
      PROVE  OrderInv'
  BY <1>6, OrderInvFrame DEF BucketReady, Exhausted, ExpandTruncated, Finish
<1>7. CASE Return \/ Done \/ UNCHANGED vars
  BY <1>7, OrderInvFrame DEF Return, Done, vars
<1>8. QED
  BY <1>1, <1>2, <1>3, <1>4, <1>5, <1>6, <1>7 DEF LossyNext

\* A step closes states at the highest level so far, and only new ones.
LEMMA LossyClosesInOrder ==
    TypeOK /\ OrderInv /\ [LossyNext]_vars =>
        \A d \in Dir : \A g \in Level : closed'[d][g] # closed[d][g] =>
            /\ \A k \in Level : k > g => closed[d][k] = {}
            /\ (closed'[d][g] \ closed[d][g]) \cap ClosedTotal(d) = {}
<1> SUFFICES ASSUME TypeOK, OrderInv, [LossyNext]_vars,
                    NEW e \in Dir, NEW g \in Level, closed'[e][g] # closed[e][g]
             PROVE  /\ \A k \in Level : k > g => closed[e][k] = {}
                    /\ (closed'[e][g] \ closed[e][g]) \cap ClosedTotal(e) = {}
  OBVIOUS
<1>1. PICK d \in Searches : PopSome(d)
  BY OnlyPopCloses
<1>2. /\ MinG(open[d]) \in Keys(open[d])
      /\ \A s \in closed'[e][g] \ closed[e][g] :
            e = d /\ g = MinG(open[d]) /\ s \notin ClosedTotal(e)
  BY <1>1, PopFacts
<1>3. closed[e][g] \subseteq closed'[e][g]
  BY <1>1, PopFacts DEF ClosedGrows
<1>4. e = d /\ g = MinG(open[d])
  BY <1>2, <1>3
<1>5. frontier[e].g <= g
  BY <1>2, <1>4 DEF OrderInv, Keys
<1>6. ASSUME NEW k \in Level, k > g PROVE closed[e][k] = {}
  <2>1. closed[e][k] # {} => k <= frontier[e].g
    BY <1>4 DEF OrderInv
  <2>2. k \in Nat /\ g \in Nat /\ frontier[e].g \in Nat
    BY <1>4, IntMaxAssumption DEF TypeOK, Frontier, Level
  <2>3. QED
    BY <1>5, <1>6, <2>1, <2>2
<1>7. QED
  BY <1>2, <1>6

\* Levels are closed in increasing order and no state is closed twice, for each
\* direction on its own schedule: what has been read from a closed list below
\* the frontier stays true.
THEOREM ClosedStaysInOrder == Spec => ClosedInOrder
<1>1. Spec => [](TypeOK /\ OrderInv)
  BY LossyOrder, OrderInvInit, TypeCorrect, NextIsLossy, PTL DEF Spec
<1>2. QED
  BY <1>1, LossyClosesInOrder, NextIsLossy, PTL DEF Spec, ClosedInOrder

-----------------------------------------------------------------------------
(* Dropping what is of no use *)

\* A filter may drop, from what Popped leaves, states of the set W through
\* which no plan is cheaper than the best one known by the end of the step.
CarefulPop(d, W) ==
    /\ PopReady(d)
    /\ \E kept \in Popped(d) : \E new \in SUBSET kept :
          /\ Close(d, new)
          /\ \A y \in kept \ new : /\ y \in W
                                   /\ upper_bound' <= MinG(open[d]) + task.dist[Opposite(d)][y]

CarefulStep(d, W) == \/ BucketReady(d) \/ Exhausted(d) \/ CarefulPop(d, W)
                     \/ Prepare(d) \/ PrepareTruncated(d)
                     \/ Expand(d) \/ ExpandTruncated(d)
                     \/ Finish(d)

CarefulNext(W) == \/ Step
                  \/ \E d \in Searches : CarefulStep(d, W)
                  \/ Return
                  \/ Done

\* Without a pruner nothing is dropped.
LEMMA NextIsCareful == [Next]_vars => [CarefulNext({})]_vars
<1>1. ASSUME NEW d \in Searches, Pop(d) PROVE CarefulPop(d, {})
  <2>1. PICK new \in Popped(d) : Close(d, new)
    BY <1>1 DEF Pop
  <2>2. PopReady(d) /\ new \in SUBSET new /\ new \ new = {}
    BY <1>1 DEF Pop
  <2>3. QED
    BY <2>1, <2>2 DEF CarefulPop
<1>2. QED
  BY <1>1 DEF Next, StepImage, CarefulNext, CarefulStep

\* The larger the set, the more may be dropped.
LEMMA CarefulGrows ==
    ASSUME NEW W, NEW V, W \subseteq V, [CarefulNext(W)]_vars
    PROVE  [CarefulNext(V)]_vars
<1>1. ASSUME NEW d \in Searches, CarefulPop(d, W) PROVE CarefulPop(d, V)
  BY <1>1 DEF CarefulPop
<1>2. QED
  BY <1>1 DEF CarefulNext, CarefulStep

\* Popping with care is a special case of popping some.
LEMMA PopIsSome == ASSUME NEW W, NEW d \in Searches, CarefulPop(d, W) PROVE PopSome(d)
<1>1. PICK kept \in Popped(d) : \E new \in SUBSET kept : Close(d, new)
  BY DEF CarefulPop
<1>2. kept \subseteq open[d][MinG(open[d])] \ ClosedTotal(d)
  BY DEF Popped, FilterFrontier, FilteredInPart
<1>3. PopReady(d)
  BY DEF CarefulPop
<1>4. QED
  BY <1>1, <1>2, <1>3 DEF PopSome

\* So what holds although a filter drops anything holds here.
LEMMA CarefulIsLossy == ASSUME NEW W, [CarefulNext(W)]_vars PROVE [LossyNext]_vars
BY PopIsSome DEF CarefulNext, CarefulStep, LossyNext

-----------------------------------------------------------------------------
(* What the steps do *)

\* A step that leaves all lists alone.
Quiet == UNCHANGED <<task, frontier, open, closed>> /\ upper_bound' <= upper_bound

\* The frontier of d goes through the mutex filter, completely or in part.
Filtered(d) ==
    /\ UNCHANGED <<task, open, closed, upper_bound, sym_cuts, lower_bound>>
    /\ pc = "prepare" /\ dir = d
    /\ \A e \in Searches \ {d} : frontier'[e] = frontier[e]
    /\ frontier[d].phase = "filter"
    /\ frontier'[d].g = frontier[d].g
    /\ frontier'[d].states \subseteq frontier[d].states
    /\ frontier[d].states \cap task.notMutex[d] \subseteq frontier'[d].states
    /\ frontier'[d].phase \in {"filter", IF HasZeroCost(task) THEN "zero" ELSE "cost"}

\* The filter keeps what no mutex excludes.
LEMMA FilteredFacts ==
    ASSUME TypeOK, NEW d \in Searches,
           \/ Prepare(d) /\ frontier[d].phase = "filter"
           \/ PrepareTruncated(d)
    PROVE  Filtered(d)
<1> USE DEF engine, search, control
<1>1. frontier \in [Searches -> Frontier] /\ frontier[d] \in Frontier
  BY DEF TypeOK
<1>2. \A init \in BOOLEAN : \A S :
         /\ FilterMutex(task, d, init, S) \subseteq S
         /\ S \cap task.notMutex[d] \subseteq FilterMutex(task, d, init, S)
  BY DEF FilterMutex
<1>3. Initialization(d) \in BOOLEAN
  BY DEF Initialization
<1> DEFINE kept == FilterMutex(task, d, Initialization(d), frontier[d].states)
<1>4. kept \subseteq frontier[d].states /\ frontier[d].states \cap task.notMutex[d] \subseteq kept
  BY <1>2, <1>3
<1>5. CASE Prepare(d) /\ frontier[d].phase = "filter"
  <2>1. frontier' = [frontier EXCEPT ![d].states = kept,
                                     ![d].phase = IF HasZeroCost(task) THEN "zero" ELSE "cost"]
    BY <1>5 DEF Prepare
  <2> HIDE DEF kept
  <2>2. QED
    BY <1>1, <1>4, <1>5, <2>1 DEF Prepare, Filtered, Frontier
<1>6. CASE PrepareTruncated(d)
  <2>1. PICK S \in FilteredInPart(d, Initialization(d), frontier[d].states) :
           frontier' = [frontier EXCEPT ![d].states = S]
    BY <1>6 DEF PrepareTruncated
  <2>2. kept \subseteq S /\ S \subseteq frontier[d].states
    BY <2>1 DEF FilteredInPart
  <2> HIDE DEF kept
  <2>3. QED
    BY <1>1, <1>4, <1>6, <2>1, <2>2 DEF PrepareTruncated, Filtered, Frontier
<1>7. QED
  BY <1>5, <1>6

\* Every step filters, pops, expands or leaves the lists alone.
LEMMA StepKinds ==
    ASSUME TypeOK, NEW W, [CarefulNext(W)]_vars
    PROVE  Quiet \/ \E d \in Searches : Filtered(d) \/ CarefulPop(d, W) \/ Expand(d)
<1> USE DEF engine, search, control
<1>0. upper_bound \in Level /\ upper_bound <= upper_bound
  BY IntMaxAssumption DEF TypeOK, EngineTypeOK, Level
<1>1. CASE Step
  <2>1. EmptyPlan \subseteq Cuts
    BY EmptyPlanType DEF TypeOK, EngineTypeOK
  <2>2. upper_bound' <= upper_bound
    BY <1>0, <1>1, <2>1, NewSolutionsFacts DEF Step, StepEngine
  <2>3. QED
    BY <1>1, <2>2 DEF Step, StepEngine, Quiet
<1>2. ASSUME NEW d \in Searches, BucketReady(d) \/ Exhausted(d) \/ ExpandTruncated(d) \/ Finish(d)
      PROVE  Quiet
  BY <1>0, <1>2 DEF BucketReady, Exhausted, ExpandTruncated, Finish, Quiet
<1>3. ASSUME NEW d \in Searches, Prepare(d) \/ PrepareTruncated(d)
      PROVE  Quiet \/ Filtered(d)
  BY <1>0, <1>3, FilteredFacts DEF Prepare, Quiet
<1>4. CASE Return \/ Done \/ UNCHANGED vars
  BY <1>0, <1>4 DEF Return, Done, vars, Quiet
<1>5. QED
  BY <1>1, <1>2, <1>3, <1>4 DEF CarefulNext, CarefulStep

\* What an image and the insertion of its successors do.
LEMMA ExpandFacts ==
    ASSUME TypeOK, NEW d \in Searches, Expand(d)
    PROVE  /\ d \in Dir /\ UNCHANGED <<task, closed>>
           /\ upper_bound' <= upper_bound
           /\ \A e \in Searches \ {d} : frontier'[e] = frontier[e] /\ open'[e] = open[e]
           /\ frontier'[d].g = frontier[d].g
           /\ frontier[d].phase = "zero" =>
                 frontier'[d].phase = "cost" /\ frontier'[d].states = frontier[d].states
           /\ frontier[d].phase # "zero" =>
                 frontier'[d].phase = "empty" /\ frontier'[d].states = {}
           /\ \A k \in Level : open[d][k] \subseteq open'[d][k]
           /\ \A k \in Level : \A y \in open'[d][k] \ open[d][k] :
                 /\ y \in State /\ y \notin ClosedTotal(Opposite(d))
                 /\ \E c \in CostsOf(frontier[d].phase) : \E x \in frontier[d].states :
                       k = frontier[d].g + c /\ Edge(task, d, c, x, y)
           /\ \A c \in CostsOf(frontier[d].phase) :
                 c \in DOMAIN task.ops /\ c \in Nat /\ frontier[d].g + c \in Level
           /\ \A c \in CostsOf(frontier[d].phase) : \A x \in frontier[d].states : \A y \in State :
                 Edge(task, d, c, x, y) =>
                     /\ y \in open'[d][frontier[d].g + c] \/ y \in ClosedTotal(Opposite(d))
                     /\ \A k \in Level : y \in closed[Opposite(d)][k] =>
                           upper_bound' <= frontier[d].g + c + k
<1> DEFINE fr == frontier[d]
           Succ(c) == Image(task, d, c, fr.states)
           costs == CostsOf(fr.phase)
           wider == [g \in Level |-> open[d][g] \cup
                  UNION {Succ(c) \ ClosedTotal(Opposite(d)) :
                         c \in {k \in costs : fr.g + k = g}}]
           rest == IF fr.phase = "zero" THEN [fr EXCEPT !.phase = "cost"]
                   ELSE [fr EXCEPT !.phase = "empty", !.states = {}]
<1>1. d \in Dir /\ fr \in Frontier /\ fr.g \in Level /\ open[d] \in Levels /\ fr.states \in SUBSET State
  BY SearchesAssumption DEF TypeOK, Frontier
<1>2. /\ open' = [open EXCEPT ![d] = wider]
      /\ frontier' = [frontier EXCEPT ![d] = rest]
      /\ UNCHANGED <<task, closed>>
      /\ NewSolutions(ImageCuts(d))
  BY DEF Expand
<1>3. \A c \in costs : c \in DOMAIN task.ops /\ c \in Nat /\ fr.g + c \in Level
  <2>1. \A c \in costs : c \in DOMAIN task.ops /\ c \in Nat
    BY MinTransitionCostFacts DEF CostsOf, TypeOK, EngineTypeOK
  <2>2. \A c \in costs : fr.g + c < INT_MAX
    BY DEF Expand
  <2>3. QED
    BY <1>1, <2>1, <2>2, IntMaxAssumption DEF Level
<1>4. ImageCuts(d) \subseteq Cuts
  <2>1. \A c \in costs : CheapestCuts(d, fr.g + c, Succ(c)) \subseteq Cuts
    BY <1>1, <1>3, ImageType, CheapestCutsType DEF TypeOK, EngineTypeOK
  <2>2. QED
    BY <2>1 DEF ImageCuts
<1>5. /\ upper_bound' <= upper_bound
      /\ \A sol \in ImageCuts(d) : Cost(sol) \in Nat /\ upper_bound' <= Cost(sol)
      /\ upper_bound' \in Level
  BY <1>2, <1>4, NewSolutionsFacts DEF TypeOK, EngineTypeOK
<1>6. open'[d] = wider /\ frontier'[d] = rest
  BY <1>2 DEF TypeOK
<1>7. \A e \in Searches \ {d} : frontier'[e] = frontier[e] /\ open'[e] = open[e]
  BY <1>2 DEF TypeOK
<1>8. /\ rest.g = fr.g
      /\ fr.phase = "zero" => rest.phase = "cost" /\ rest.states = fr.states
      /\ fr.phase # "zero" => rest.phase = "empty" /\ rest.states = {}
  BY <1>1 DEF Frontier
<1>9. ASSUME NEW k \in Level, NEW y \in wider[k] \ open[d][k]
      PROVE  /\ y \in State /\ y \notin ClosedTotal(Opposite(d))
             /\ \E c \in costs : \E x \in fr.states : k = fr.g + c /\ Edge(task, d, c, x, y)
  <2>1. PICK c \in costs : fr.g + c = k /\ y \in Succ(c) \ ClosedTotal(Opposite(d))
    BY <1>9
  <2>2. QED
    BY <2>1 DEF Image
<1>10. ASSUME NEW c \in costs, NEW x \in fr.states, NEW y \in State, Edge(task, d, c, x, y)
       PROVE  /\ y \in wider[fr.g + c] \/ y \in ClosedTotal(Opposite(d))
              /\ \A k \in Level : y \in closed[Opposite(d)][k] => upper_bound' <= fr.g + c + k
  <2>1. y \in Succ(c) /\ Succ(c) \in SUBSET State
    BY <1>10 DEF Image
  <2>2. y \in wider[fr.g + c] \/ y \in ClosedTotal(Opposite(d))
    BY <1>3, <2>1
  <2>3. ASSUME NEW k \in Level, y \in closed[Opposite(d)][k]
        PROVE  upper_bound' <= fr.g + c + k
    <3>1. PICK sol \in CheapestCuts(d, fr.g + c, Succ(c)) : Cost(sol) <= (fr.g + c) + k
      BY <1>1, <1>3, <2>1, <2>3, CheapestCutsMeet
    <3>2. sol \in ImageCuts(d)
      BY <3>1 DEF ImageCuts
    <3>3. upper_bound' <= Cost(sol) /\ Cost(sol) \in Nat /\ upper_bound' \in Nat
      BY <1>5, <3>2, IntMaxAssumption DEF Level
    <3>4. fr.g \in Nat /\ c \in Nat /\ k \in Nat
      BY <1>1, <1>3, IntMaxAssumption DEF Level
    <3>5. QED
      BY <3>1, <3>3, <3>4
  <2>4. QED
    BY <2>2, <2>3
<1>11. \A k \in Level : open[d][k] \subseteq wider[k]
  OBVIOUS
<1> HIDE DEF wider, rest
<1>12. QED
  BY <1>1, <1>2, <1>3, <1>5, <1>6, <1>7, <1>8, <1>9, <1>10, <1>11

\* What prepareBucket does with the mutexes and the opposite closed list: a
\* state of the popped bucket is closed before or now, excluded by a mutex, or
\* met by the opposite direction at the price of a plan.
LEMMA PopAccounts ==
    ASSUME TypeOK, TraceInv, NEW W, NEW d \in Searches, CarefulPop(d, W)
    PROVE  /\ d \in Dir /\ MinG(open[d]) \in Level
           /\ task' = task /\ upper_bound' <= upper_bound
           /\ frontier[d].phase = "empty" /\ pc \in {"bucket", "drain"}
           /\ \A k \in Level : open'[d][k] = IF k = MinG(open[d]) THEN {} ELSE open[d][k]
           /\ frontier'[d].phase = IF frontier'[d].states = {} THEN "empty" ELSE "filter"
           /\ \A e \in Dir : \A k \in Level : \A s \in closed'[e][k] \ closed[e][k] :
                 e = d /\ k = MinG(open[d]) /\ s \in frontier'[d].states
           /\ \A s \in frontier'[d].states : /\ s \notin ClosedTotal(Opposite(d))
                                             /\ s \in open[d][MinG(open[d])]
           /\ \A y \in open[d][MinG(open[d])] \cap task.notMutex[d] :
                 \/ y \in ClosedTotal(d)
                 \/ y \in closed'[d][MinG(open[d])]
                 \/ \E h \in Level : /\ y \in closed[Opposite(d)][h]
                                     /\ upper_bound' <= MinG(open[d]) + h
                 \/ y \in W /\ upper_bound' <= MinG(open[d]) + task.dist[Opposite(d)][y]
<1> DEFINE g == MinG(open[d])
           rest == [open[d] EXCEPT ![g] = {}]
<1>1. d \in Dir /\ open[d] \in Levels
  BY SearchesAssumption DEF TypeOK
<1>2. g \in Keys(open[d]) /\ g \in Level /\ open[d][g] \in SUBSET State
  BY <1>1, MinGFacts DEF CarefulPop, PopReady, Levels
<1>3. ~lastStepCost[d]
  BY <1>2 DEF TraceInv
<1>d. PICK kept \in Popped(d) : \E new \in SUBSET kept :
         /\ Close(d, new)
         /\ \A y \in kept \ new : /\ y \in W
                                  /\ upper_bound' <= MinG(open[d]) + task.dist[Opposite(d)][y]
  BY DEF CarefulPop
<1>4. PICK new \in SUBSET kept :
         /\ Close(d, new)
         /\ \A y \in kept \ new : /\ y \in W
                                  /\ upper_bound' <= MinG(open[d]) + task.dist[Opposite(d)][y]
  BY <1>d
<1>5. /\ frontier' = [frontier EXCEPT ![d] =
            [g |-> g, states |-> new, phase |-> IF new = {} THEN "empty" ELSE "filter"]]
      /\ closed' = [closed EXCEPT ![d][g] = @ \cup new]
      /\ open' = [open EXCEPT ![d] = rest]
      /\ NewSolutions(PoppedCuts(d))
      /\ task' = task
  BY <1>3, <1>4 DEF Close
<1> DEFINE bucket == (open[d][g] \ ClosedTotal(Opposite(d))) \ ClosedTotal(d)
<1>6. new \subseteq bucket /\ bucket \cap task.notMutex[d] \subseteq kept
  <2>1. kept \in FilteredInPart(d, g = 0 /\ lastStepCost[d], bucket)
    BY DEF Popped, FilterFrontier
  <2>2. kept \subseteq bucket /\ FilterMutex(task, d, g = 0 /\ lastStepCost[d], bucket) \subseteq kept
    BY <2>1 DEF FilteredInPart
  <2> HIDE DEF bucket
  <2>3. bucket \cap task.notMutex[d] \subseteq FilterMutex(task, d, g = 0 /\ lastStepCost[d], bucket)
    BY DEF FilterMutex
  <2>4. QED
    BY <2>2, <2>3
<1>7. /\ frontier'[d].states = new
      /\ frontier'[d].phase = IF new = {} THEN "empty" ELSE "filter"
      /\ open'[d] = rest
  BY <1>5 DEF TypeOK
<1>8. /\ closed'[d][g] = closed[d][g] \cup new
      /\ \A e \in Dir : \A k \in Level : e # d \/ k # g => closed'[e][k] = closed[e][k]
  BY <1>1, <1>2, <1>5 DEF TypeOK, EngineTypeOK, Levels
<1>9. \A k \in Level : rest[k] = IF k = g THEN {} ELSE open[d][k]
  BY <1>1, <1>2 DEF Levels
<1>10. PoppedCuts(d) \subseteq Cuts
  BY <1>1, <1>2, CheapestCutsType DEF PoppedCuts, TypeOK, EngineTypeOK
<1>11. /\ upper_bound' <= upper_bound /\ upper_bound' \in Nat
       /\ \A sol \in PoppedCuts(d) : Cost(sol) \in Nat /\ upper_bound' <= Cost(sol)
  <2>1. upper_bound' \in Level => upper_bound' \in Nat
    BY IntMaxAssumption DEF Level
  <2>2. QED
    BY <1>5, <1>10, <2>1, NewSolutionsFacts DEF TypeOK, EngineTypeOK
<1>12. ASSUME NEW y \in open[d][g] \cap task.notMutex[d]
       PROVE  \/ y \in ClosedTotal(d)
              \/ y \in closed'[d][g]
              \/ \E h \in Level : y \in closed[Opposite(d)][h] /\ upper_bound' <= g + h
              \/ y \in W /\ upper_bound' <= g + task.dist[Opposite(d)][y]
  <2>1. CASE y \in ClosedTotal(Opposite(d))
    <3>1. PICK h \in Level : y \in closed[Opposite(d)][h]
      BY <2>1 DEF ClosedTotal
    <3>2. PICK sol \in PoppedCuts(d) : Cost(sol) <= g + h
      BY <1>1, <1>2, <1>12, <3>1, CheapestCutsMeet DEF PoppedCuts
    <3>3. upper_bound' <= g + h
      BY <1>2, <1>11, <3>2, IntMaxAssumption DEF Level
    <3>4. QED
      BY <3>1, <3>3
  <2>2. CASE y \notin ClosedTotal(Opposite(d)) /\ y \notin ClosedTotal(d)
    <3>1. y \in kept
      BY <1>6, <1>12, <2>2
    <3>2. CASE y \in kept \ new
      BY <1>4, <3>2
    <3>3. QED
      BY <1>8, <3>1, <3>2
  <2>3. QED
    BY <2>1, <2>2
<1>13. frontier[d].phase = "empty" /\ pc \in {"bucket", "drain"}
  BY DEF CarefulPop, PopReady
<1> HIDE DEF g, rest
<1>14. \A e \in Dir : \A k \in Level : \A s \in closed'[e][k] \ closed[e][k] :
          e = d /\ k = g /\ s \in frontier'[d].states
  BY <1>7, <1>8
<1>15. \A s \in frontier'[d].states : s \notin ClosedTotal(Opposite(d)) /\ s \in open[d][g]
  BY <1>6, <1>7
<1>16. QED
  BY <1>1, <1>2, <1>5, <1>7, <1>9, <1>11, <1>12, <1>13, <1>14, <1>15 DEF g

-----------------------------------------------------------------------------
(* Levels and registered plans are never too cheap *)

\* No state is listed at less than its distance.
LevelInv ==
    /\ \A d \in Dir : \A g \in Level : \A s \in closed[d][g] : task.dist[d][s] <= g
    /\ \A d \in Searches : \A g \in Level : \A s \in open[d][g] : task.dist[d][s] <= g

\* Both hold at the start.
LEMMA LevelInvInit == Init => LevelInv /\ PlanInv
<1> SUFFICES ASSUME Init PROVE LevelInv /\ PlanInv
  OBVIOUS
<1>1. TypeOK
  BY InitType
<1>2. ASSUME NEW d \in Dir, NEW g \in Level, NEW s \in closed[d][g] PROVE task.dist[d][s] <= g
  <2>1. g = 0 /\ s \in Source(task, d)
    BY DEF Init, NoStates
  <2>2. s \in State
    BY <1>1 DEF TypeOK, EngineTypeOK, Levels
  <2>3. QED
    BY <1>1, <2>1, <2>2, DistanceFacts DEF TypeOK, EngineTypeOK
<1>3. LevelInv
  BY <1>2 DEF LevelInv, Init, NoStates
<1>4. QED
  BY <1>3 DEF Init, PlanInv

\* LevelInv is inductive: successors are as much dearer as their operators.
LEMMA LevelInvNext ==
    TypeOK /\ TraceInv /\ LevelInv /\ [CarefulNext(State)]_vars
    => LevelInv'
<1> SUFFICES ASSUME TypeOK, TraceInv, LevelInv, [CarefulNext(State)]_vars PROVE LevelInv'
  OBVIOUS
<1>0. IsTask(task)
  BY DEF TypeOK, EngineTypeOK
<1>1. CASE Quiet
  BY <1>1 DEF Quiet, LevelInv
<1>2. ASSUME NEW d \in Searches, Filtered(d) PROVE LevelInv'
  BY <1>2 DEF Filtered, LevelInv
<1>3. ASSUME NEW d \in Searches, CarefulPop(d, State) PROVE LevelInv'
  <2>1. PopSome(d)
    BY <1>3, PopIsSome
  <2>2. /\ \A e \in Searches \ {d} : open'[e] = open[e]
        /\ \A k \in Level : open'[d][k] \subseteq open[d][k]
        /\ \A e \in Dir : \A k \in Level : \A s \in closed'[e][k] \ closed[e][k] :
              e = d /\ s \in open[d][k]
    BY <2>1, PopFacts
  <2>3. task' = task
    BY <1>3, PopAccounts
  <2>4. QED
    BY <2>2, <2>3 DEF LevelInv
<1>4. ASSUME NEW d \in Searches, Expand(d) PROVE LevelInv'
  <2>1. /\ d \in Dir /\ UNCHANGED <<task, closed>>
        /\ \A e \in Searches \ {d} : open'[e] = open[e]
        /\ \A k \in Level : \A y \in open'[d][k] \ open[d][k] :
              /\ y \in State
              /\ \E c \in CostsOf(frontier[d].phase) : \E x \in frontier[d].states :
                    k = frontier[d].g + c /\ Edge(task, d, c, x, y)
        /\ \A c \in CostsOf(frontier[d].phase) : c \in DOMAIN task.ops /\ c \in Nat
    BY <1>4, ExpandFacts
  <2>2. frontier[d].g \in Level /\ frontier[d].states \in SUBSET State
    BY DEF TypeOK, Frontier
  <2>3. ASSUME NEW k \in Level, NEW y \in open'[d][k] \ open[d][k]
        PROVE  task.dist[d][y] <= k
    <3>1. y \in State
      BY <2>1, <2>3
    <3>2. PICK c \in CostsOf(frontier[d].phase) : \E x \in frontier[d].states :
             k = frontier[d].g + c /\ Edge(task, d, c, x, y)
      BY <2>1, <2>3
    <3>3. PICK x \in frontier[d].states : k = frontier[d].g + c /\ Edge(task, d, c, x, y)
      BY <3>2
    <3>4. x \in State /\ c \in DOMAIN task.ops /\ c \in Nat
      BY <2>1, <2>2
    <3>5. task.dist[d][x] <= frontier[d].g
      BY <2>1, <2>2 DEF TraceInv, LevelInv
    <3>6. task.dist[d][y] <= task.dist[d][x] + c
      BY <1>0, <2>1, <3>1, <3>3, <3>4 DEF IsTask, IsDistance
    <3>7. task.dist[d][x] \in Nat /\ task.dist[d][y] \in Nat
      BY <1>0, <2>1, <3>1, <3>4, DistanceFacts
    <3>8. QED
      BY <2>2, <3>3, <3>4, <3>5, <3>6, <3>7, IntMaxAssumption DEF Level
  <2>4. QED
    BY <2>1, <2>3 DEF LevelInv
<1>5. QED
  BY <1>1, <1>2, <1>3, <1>4, StepKinds

\* PlanInv is inductive: plans come from the driver, a popped bucket, an image.
LEMMA PlanInvNext ==
    TypeOK /\ TraceInv /\ LevelInv /\ PlanInv /\ [CarefulNext(State)]_vars
    => PlanInv'
<1> SUFFICES ASSUME TypeOK, TraceInv, LevelInv, PlanInv,
                    [CarefulNext(State)]_vars
             PROVE  PlanInv'
  OBVIOUS
<1> USE DEF engine, search, control
<1>0. IsTask(task)
  BY DEF TypeOK, EngineTypeOK
<1>00. /\ EngineTypeOK
       /\ \A d \in Dir : \A k \in Level : \A s \in closed[Opposite(d)][k] :
             task.dist[Opposite(d)][s] <= k
  BY OppositeFacts DEF TypeOK, LevelInv
<1>1. CASE Step
  <2>1. \A sol \in EmptyPlan : Optimum <= Cost(sol)
    BY EmptyPlanIsSound DEF TypeOK
  <2>2. EmptyPlan \subseteq Cuts /\ NewSolutions(EmptyPlan) /\ task' = task
    BY <1>0, <1>1, EmptyPlanType DEF Step, StepEngine
  <2>3. QED
    BY <2>1, <2>2, PlanInvNewSolutions DEF TypeOK
<1>2. ASSUME NEW d \in Searches, CarefulPop(d, State) PROVE PlanInv'
  <2>1. d \in Dir /\ MinG(open[d]) \in Level /\ task' = task
    BY <1>2, PopAccounts
  <2>2. open[d][MinG(open[d])] \in SUBSET State
    BY <2>1 DEF TypeOK, Levels
  <2>3. NewSolutions(PoppedCuts(d))
    BY <1>2 DEF CarefulPop, Close
  <2>4. PoppedCuts(d) \subseteq Cuts
    BY <2>1, <2>2, CheapestCutsType DEF PoppedCuts, TypeOK, EngineTypeOK
  <2>5. \A s \in open[d][MinG(open[d])] : task.dist[d][s] <= MinG(open[d])
    BY <2>1 DEF LevelInv
  <2>6. \A sol \in PoppedCuts(d) : Optimum <= Cost(sol)
    BY <1>00, <2>1, <2>2, <2>5, CutsAreNotTooCheap DEF PoppedCuts
  <2>7. QED
    BY <1>00, <2>1, <2>3, <2>4, <2>6, PlanInvNewSolutions
<1>3. ASSUME NEW d \in Searches, Expand(d) PROVE PlanInv'
  <2> DEFINE g == frontier[d].g
             X == frontier[d].states
             costs == CostsOf(frontier[d].phase)
  <2>1. /\ d \in Dir /\ task' = task
        /\ \A c \in costs : c \in DOMAIN task.ops /\ c \in Nat /\ g + c \in Level
    BY <1>3, ExpandFacts
  <2>2. g \in Level /\ X \in SUBSET State
    BY DEF TypeOK, Frontier
  <2>3. NewSolutions(ImageCuts(d))
    BY <1>3 DEF Expand
  <2>4. ASSUME NEW c \in costs, NEW y \in Image(task, d, c, X)
        PROVE  task.dist[d][y] <= g + c
    <3>1. PICK x \in X : Edge(task, d, c, x, y) /\ y \in State
      BY <2>4 DEF Image
    <3>2. x \in State /\ task.dist[d][x] <= g
      BY <2>1, <2>2 DEF TraceInv, LevelInv
    <3>3. task.dist[d][y] <= task.dist[d][x] + c
      BY <1>0, <2>1, <3>1, <3>2 DEF IsTask, IsDistance
    <3>4. task.dist[d][x] \in Nat /\ task.dist[d][y] \in Nat
      BY <1>0, <2>1, <3>1, <3>2, DistanceFacts
    <3>5. QED
      BY <2>1, <2>2, <3>2, <3>3, <3>4, IntMaxAssumption DEF Level
  <2>5. \A c \in costs : Image(task, d, c, X) \in SUBSET State
    BY ImageType
  <2>6. ASSUME NEW sol \in ImageCuts(d) PROVE sol \in Cuts /\ Optimum <= Cost(sol)
    <3>1. PICK c \in costs : sol \in CheapestCuts(d, g + c, Image(task, d, c, X))
      BY <2>6 DEF ImageCuts
    <3>2. sol \in Cuts
      BY <2>1, <2>5, <3>1, CheapestCutsType DEF TypeOK, EngineTypeOK
    <3>3. QED
      BY <1>00, <2>1, <2>4, <2>5, <3>1, <3>2, CutsAreNotTooCheap
  <2>7. QED
    BY <1>00, <2>1, <2>3, <2>6, PlanInvNewSolutions
<1>4. ASSUME NEW d \in Searches,
             \/ BucketReady(d) \/ Exhausted(d) \/ Prepare(d) \/ PrepareTruncated(d)
             \/ ExpandTruncated(d) \/ Finish(d)
      PROVE  UNCHANGED <<task, sym_cuts, upper_bound>>
  BY <1>4 DEF BucketReady, Exhausted, Prepare, PrepareTruncated, ExpandTruncated, Finish
<1>5. CASE Return \/ Done \/ UNCHANGED vars
  <2>1. UNCHANGED <<task, sym_cuts, upper_bound>>
    BY <1>5 DEF Return, Done, vars
  <2>2. QED
    BY <2>1 DEF PlanInv, Cost, Optimum
<1>6. UNCHANGED <<task, sym_cuts, upper_bound>> => PlanInv'
  BY DEF PlanInv, Cost, Optimum
<1>7. QED
  BY <1>1, <1>2, <1>3, <1>4, <1>5, <1>6 DEF CarefulNext, CarefulStep

-----------------------------------------------------------------------------
(* The places in a step, sources, and meetings *)

\* An image is computed in one of its two phases, and only an empty frontier
\* has no phase.
PhaseInv ==
    \A d \in Searches :
        /\ frontier[d].phase = "empty" => frontier[d].states = {}
        /\ pc = "expand" /\ dir = d => frontier[d].phase # "filter"

\* A direction that is not at work holds a bucket, if it has any left, unless
\* the bounds have met.
Stocked(d) == frontier[d].phase # "empty" \/ Keys(open[d]) = {}

StockInv ==
    \A d \in Searches :
        \/ pc \in {"bucket", "prepare", "expand", "drain"} /\ dir = d
        \/ Stocked(d)
        \/ Solved

\* Sources stay closed at cost 0, and a state that the opposite direction
\* started from never waits.
SourceInv ==
    /\ \A d \in Dir : Source(task, d) \subseteq closed[d][0]
    /\ \A d \in Searches : \A k \in Level : open[d][k] \cap Source(task, Opposite(d)) = {}

\* What both directions have closed is a plan that has been registered.
MetInv ==
    /\ pc = "init" =>
          \A d \in Dir : \A k \in Level : \A s \in closed[d][k] : k = 0 /\ s \in Source(task, d)
    /\ pc # "init" =>
          \A g, h \in Level : closed["fw"][g] \cap closed["bw"][h] # {} => upper_bound <= g + h

\* Without zero-cost operators nothing waits on the level of the frontier.
StrictInv ==
    ~HasZeroCost(task) => \A d \in Searches : open[d][frontier[d].g] = {}

ControlInv == PhaseInv /\ StockInv /\ SourceInv /\ MetInv /\ StrictInv

\* All of them hold at the start.
LEMMA ControlInvInit == Init => ControlInv
<1> SUFFICES ASSUME Init PROVE ControlInv
  OBVIOUS
<1>1. PhaseInv /\ StrictInv
  <2>1. 0 \in Level
    BY IntMaxAssumption DEF Level
  <2>2. \A d \in Searches : /\ frontier[d].g = 0 /\ frontier[d].phase = "filter"
                            /\ open[d][0] = {}
    BY <2>1 DEF Init, NoStates
  <2>3. pc # "expand"
    BY DEF Init
  <2>4. QED
    BY <2>2, <2>3 DEF PhaseInv, StrictInv
<1>2. StockInv
  BY DEF Init, StockInv, Stocked
<1>3. \A d \in Dir : closed[d][0] = Source(task, d) /\ 0 \in Level
  BY IntMaxAssumption DEF Init, NoStates, Level
<1>4. SourceInv
  BY <1>3 DEF Init, SourceInv, NoStates
<1>5. MetInv
  BY DEF Init, MetInv, NoStates
<1>6. QED
  BY <1>1, <1>2, <1>4, <1>5 DEF ControlInv

\* PhaseInv and StockInv are inductive.
LEMMA PlacesNext ==
    TypeOK /\ PhaseInv /\ StockInv /\ [CarefulNext(State)]_vars
    => PhaseInv' /\ StockInv'
<1> SUFFICES ASSUME TypeOK, PhaseInv, StockInv,
                    [CarefulNext(State)]_vars
             PROVE  PhaseInv' /\ StockInv'
  OBVIOUS
<1> USE DEF engine, search, control
<1>0. lower_bound \in Nat /\ upper_bound \in Nat
  BY IntMaxAssumption DEF TypeOK, EngineTypeOK, Level
<1>p. TypeOK'
  BY LossyType, CarefulIsLossy
<1>1. CASE Step
  <2>1. UNCHANGED <<frontier, open, lower_bound>> /\ pc \in {"init", "step"} /\ pc' # "expand"
    BY <1>1 DEF Step, StepEngine
  <2>2. NewSolutions(EmptyPlan) /\ EmptyPlan \subseteq Cuts
    BY <1>1, EmptyPlanType DEF Step, StepEngine, TypeOK, EngineTypeOK
  <2>3. upper_bound' <= upper_bound /\ upper_bound' \in Level
    BY <2>2, NewSolutionsFacts DEF TypeOK, EngineTypeOK
  <2>4. upper_bound' \in Nat
    BY <2>3, IntMaxAssumption DEF Level
  <2>5. Solved => Solved'
    BY <1>0, <2>1, <2>3, <2>4 DEF Solved
  <2>6. QED
    BY <2>1, <2>5 DEF PhaseInv, StockInv, Stocked
<1>2. ASSUME NEW d \in Searches, BucketReady(d) PROVE PhaseInv' /\ StockInv'
  BY <1>2 DEF BucketReady, ReturnPoint, PhaseInv, StockInv, Stocked, Solved
<1>3. ASSUME NEW d \in Searches, Exhausted(d) \/ Finish(d) PROVE PhaseInv' /\ StockInv'
  <2>1. /\ UNCHANGED <<frontier, open, upper_bound, dir>>
        /\ dir = d /\ Stocked(d)
        /\ pc' # "expand" /\ \E x \in Int : SetLowerBound(x)
    <3>1. frontier[d] \in Frontier /\ open[d] \in Levels /\ IsTask(task)
      BY DEF TypeOK, EngineTypeOK
    <3>2. Plus(GetG(frontier[d], open[d]), MinTransitionCost(task)) \in Int
      BY <3>1, GetFFacts, MinTransitionCostFacts, PlusFacts
    <3>3. INT_MAX \in Int
      BY IntMaxAssumption
    <3>4. QED
      BY <1>3, <3>2, <3>3 DEF Exhausted, Finish, ReturnPoint, Stocked
  <2>2. Solved => Solved'
    BY <1>0, <2>1 DEF Solved, SetLowerBound, GreaterOf
  <2>3. QED
    BY <2>1, <2>2 DEF PhaseInv, StockInv, Stocked
<1>4. ASSUME NEW d \in Searches, CarefulPop(d, State) PROVE PhaseInv' /\ StockInv'
  <2>1. PICK new : Close(d, new)
    BY <1>4 DEF CarefulPop
  <2>c. PopReady(d)
    BY <1>4 DEF CarefulPop
  <2>2. /\ frontier' = [frontier EXCEPT ![d] =
              [g |-> MinG(open[d]), states |-> new,
               phase |-> IF new = {} THEN "empty" ELSE "filter"]]
        /\ open' = [open EXCEPT ![d] = [open[d] EXCEPT ![MinG(open[d])] = {}]]
        /\ pc' = IF pc = "drain" THEN "drain"
                 ELSE IF lower_bound' >= upper_bound' THEN ReturnPoint ELSE "prepare"
        /\ dir' = dir /\ dir = d
    BY <2>1, <2>c DEF Close, PopReady
  <2>3. frontier'[d].phase = "empty" => frontier'[d].states = {}
    BY <2>2 DEF TypeOK
  <2>4. \A e \in Searches \ {d} : frontier'[e] = frontier[e] /\ open'[e] = open[e]
    BY <2>2 DEF TypeOK
  <2>5. pc' # "expand"
    BY <2>2 DEF ReturnPoint
  <2>6. PhaseInv'
    BY <2>3, <2>4, <2>5 DEF PhaseInv
  <2>7. pc' \in {"drain", "prepare"} \/ Solved'
    BY <2>2 DEF Solved
  <2>8. \A e \in Searches \ {d} : Stocked(e) \/ Solved
    BY <2>2 DEF StockInv
  <2>9. Solved => Solved'
    <3>1. upper_bound' <= upper_bound /\ upper_bound' \in Nat
      <4>1. PopSome(d) /\ d \in Dir /\ MinG(open[d]) \in Level
        BY <1>4, PopIsSome, MinGFacts, SearchesAssumption DEF TypeOK
      <4>2. open[d][MinG(open[d])] \in SUBSET State
        BY <4>1 DEF TypeOK, Levels
      <4>3. PoppedCuts(d) \subseteq Cuts
        BY <4>1, <4>2, CheapestCutsType DEF PoppedCuts, TypeOK, EngineTypeOK
      <4>4. NewSolutions(PoppedCuts(d))
        BY <2>1 DEF Close
      <4>5. upper_bound' <= upper_bound /\ upper_bound' \in Level
        BY <4>3, <4>4, NewSolutionsFacts DEF TypeOK, EngineTypeOK
      <4>6. QED
        BY <4>5, IntMaxAssumption DEF Level
    <3>2. PICK x \in Int : SetLowerBound(x)
      <4>1. \A fr, rest : fr \in Frontier /\ rest \in Levels => GetF(fr, rest) \in Int
        BY GetFFacts DEF TypeOK, EngineTypeOK
      <4>2. frontier'[d] \in Frontier /\ open'[d] \in Levels
        BY <1>p DEF TypeOK
      <4>3. SetLowerBound(GetF(frontier'[d], open'[d]))
        BY <2>1 DEF Close, TypeOK
      <4>4. QED
        BY <4>1, <4>2, <4>3
    <3>3. QED
      BY <1>0, <3>1, <3>2 DEF Solved, SetLowerBound, GreaterOf
  <2>10. StockInv'
    BY <2>2, <2>4, <2>7, <2>8, <2>9 DEF StockInv, Stocked
  <2>11. QED
    BY <2>6, <2>10
<1>5. ASSUME NEW d \in Searches, Prepare(d) PROVE PhaseInv' /\ StockInv'
  <2>1. /\ UNCHANGED <<open, upper_bound, lower_bound, dir>>
        /\ pc' = "expand" /\ dir = d
        /\ frontier[d].phase # "filter" => frontier' = frontier
    BY <1>5 DEF Prepare
  <2>2. frontier[d].phase = "filter" => Filtered(d) /\ frontier'[d].phase \in {"zero", "cost"}
    <3>1. frontier[d].phase = "filter" => Filtered(d)
      BY <1>5, FilteredFacts
    <3>2. frontier[d].phase = "filter" => frontier'[d].phase \in {"zero", "cost"}
      BY <1>5 DEF Prepare, TypeOK, Frontier
    <3>3. QED
      BY <3>1, <3>2
  <2>3. \A e \in Searches \ {d} : frontier'[e] = frontier[e]
    BY <2>1, <2>2 DEF Filtered
  <2>4. /\ frontier'[d].phase # "filter"
        /\ frontier'[d].phase = "empty" => frontier'[d].states = {}
    BY <2>1, <2>2 DEF PhaseInv
  <2>5. QED
    BY <2>1, <2>3, <2>4 DEF PhaseInv, StockInv, Stocked, Solved
<1>6. ASSUME NEW d \in Searches, PrepareTruncated(d) PROVE PhaseInv' /\ StockInv'
  <2>1. /\ UNCHANGED <<open, upper_bound, lower_bound, dir>>
        /\ pc' # "expand" /\ dir = d
    BY <1>6 DEF PrepareTruncated, ReturnPoint
  <2>2. frontier'[d].phase = "filter"
    BY <1>6 DEF PrepareTruncated, TypeOK, Frontier
  <2>3. \A e \in Searches \ {d} : frontier'[e] = frontier[e]
    BY <1>6 DEF PrepareTruncated, TypeOK
  <2>4. QED
    BY <2>1, <2>2, <2>3 DEF PhaseInv, StockInv, Stocked, Solved
<1>7. ASSUME NEW d \in Searches, Expand(d) PROVE PhaseInv' /\ StockInv'
  <2>1. /\ \A e \in Searches \ {d} : frontier'[e] = frontier[e] /\ open'[e] = open[e]
        /\ frontier'[d].phase \in {"cost", "empty"}
        /\ frontier'[d].phase = "empty" => frontier'[d].states = {}
        /\ upper_bound' <= upper_bound
    BY <1>7, ExpandFacts
  <2>2. pc' = "drain" /\ dir' = dir /\ dir = d /\ lower_bound' = lower_bound
    BY <1>7 DEF Expand
  <2>3. Solved => Solved'
    <3>1. upper_bound' \in Nat
      BY <1>p, IntMaxAssumption DEF TypeOK, EngineTypeOK, Level
    <3>2. QED
      BY <1>0, <2>1, <2>2, <3>1 DEF Solved
  <2>4. QED
    BY <2>1, <2>2, <2>3 DEF PhaseInv, StockInv, Stocked
<1>8. ASSUME NEW d \in Searches, ExpandTruncated(d) PROVE PhaseInv' /\ StockInv'
  BY <1>8 DEF ExpandTruncated, PhaseInv, StockInv, Stocked, Solved
<1>9. CASE Return
  <2>1. /\ UNCHANGED <<frontier, open, upper_bound, dir>>
        /\ pc = "return" /\ pc' = "step" /\ SetLowerBound(BidirectionalF) /\ BidirectionalF \in Int
    BY <1>9, BidirectionalFFacts DEF Return
  <2>2. Solved => Solved'
    BY <1>0, <2>1 DEF Solved, SetLowerBound, GreaterOf
  <2>3. QED
    BY <2>1, <2>2 DEF PhaseInv, StockInv, Stocked
<1>10. CASE Done \/ UNCHANGED vars
  BY <1>10 DEF Done, vars, PhaseInv, StockInv, Stocked, Solved
<1>11. QED
  BY <1>1, <1>2, <1>3, <1>4, <1>5, <1>6, <1>7, <1>8, <1>9, <1>10 DEF CarefulNext, CarefulStep

\* SourceInv is inductive.
LEMMA SourceInvNext ==
    TypeOK /\ TraceInv /\ SourceInv /\ [CarefulNext(State)]_vars
    => SourceInv'
<1> SUFFICES ASSUME TypeOK, TraceInv, SourceInv,
                    [CarefulNext(State)]_vars
             PROVE  SourceInv'
  OBVIOUS
<1>0. 0 \in Level
  BY IntMaxAssumption DEF Level
<1>1. CASE Quiet
  BY <1>1 DEF Quiet, SourceInv
<1>2. ASSUME NEW d \in Searches, Filtered(d) PROVE SourceInv'
  BY <1>2 DEF Filtered, SourceInv
<1>3. ASSUME NEW d \in Searches, CarefulPop(d, State) PROVE SourceInv'
  <2>1. /\ ClosedGrows
        /\ \A e \in Searches \ {d} : open'[e] = open[e]
        /\ \A k \in Level : open'[d][k] \subseteq open[d][k]
    BY <1>3, PopIsSome, PopFacts
  <2>2. task' = task
    BY <1>3, PopAccounts
  <2>3. QED
    BY <1>0, <2>1, <2>2 DEF SourceInv, ClosedGrows
<1>4. ASSUME NEW d \in Searches, Expand(d) PROVE SourceInv'
  <2>1. /\ d \in Dir /\ UNCHANGED <<task, closed>>
        /\ \A e \in Searches \ {d} : open'[e] = open[e]
        /\ \A k \in Level : \A y \in open'[d][k] \ open[d][k] : y \notin ClosedTotal(Opposite(d))
    BY <1>4, ExpandFacts
  <2>2. Source(task, Opposite(d)) \subseteq ClosedTotal(Opposite(d))
    BY <1>0, <2>1, OppositeFacts DEF SourceInv, ClosedTotal
  <2>3. QED
    BY <2>1, <2>2 DEF SourceInv
<1>5. QED
  BY <1>1, <1>2, <1>3, <1>4, StepKinds

\* MetInv is inductive: a popped bucket loses what the opposite direction has
\* closed, and before the first pop only a source can be closed by both.
LEMMA MetInvNext == TypeOK /\ TraceInv /\ MetInv /\ [CarefulNext(State)]_vars => MetInv'
<1> SUFFICES ASSUME TypeOK, TraceInv, MetInv, [CarefulNext(State)]_vars PROVE MetInv'
  OBVIOUS
<1> USE DEF engine, search, control
<1>p. TypeOK'
  BY LossyType, CarefulIsLossy
<1>q. upper_bound \in Nat /\ upper_bound' \in Nat
  BY <1>p, IntMaxAssumption DEF TypeOK, EngineTypeOK, Level
<1>1. CASE Step
  <2>1. UNCHANGED <<task, closed>> /\ pc' # "init" /\ NewSolutions(EmptyPlan)
    BY <1>1 DEF Step, StepEngine
  <2>2. EmptyPlan \subseteq Cuts
    BY EmptyPlanType DEF TypeOK, EngineTypeOK
  <2>3. upper_bound' <= upper_bound /\ \A sol \in EmptyPlan : upper_bound' <= Cost(sol)
    BY <2>1, <2>2, NewSolutionsFacts DEF TypeOK, EngineTypeOK
  <2>4. ASSUME NEW g \in Level, NEW h \in Level, closed["fw"][g] \cap closed["bw"][h] # {}
        PROVE  upper_bound' <= g + h
    <3>1. CASE pc = "init"
      <4>1. PICK s : s \in closed["fw"][g] /\ s \in closed["bw"][h]
        BY <2>4
      <4>2. g = 0 /\ h = 0 /\ s \in Source(task, "fw") /\ s \in Source(task, "bw")
        BY <3>1, <4>1 DEF MetInv, Dir
      <4>3. task.init \in task.goal
        BY <4>2 DEF Source
      <4> DEFINE empty == [g |-> 0, h |-> 0, cut |-> {task.init}]
      <4>4. empty \in EmptyPlan /\ Cost(empty) = 0
        BY <3>1, <4>3 DEF EmptyPlan, Cost
      <4>5. upper_bound' <= 0
        <5> HIDE DEF empty
        <5> QED
          BY <2>3, <4>4
      <4>6. QED
        BY <4>2, <4>5
    <3>2. CASE pc # "init"
      <4>1. upper_bound <= g + h
        BY <2>4, <3>2 DEF MetInv
      <4>2. QED
        BY <1>q, <2>3, <4>1, IntMaxAssumption DEF Level
    <3>3. QED
      BY <3>1, <3>2
  <2>5. QED
    BY <2>1, <2>4 DEF MetInv
<1>2. CASE UNCHANGED <<task, closed>> /\ upper_bound' <= upper_bound /\ pc # "init" /\ pc' # "init"
  <2>1. ASSUME NEW g \in Level, NEW h \in Level, closed["fw"][g] \cap closed["bw"][h] # {}
        PROVE  upper_bound' <= g + h
    <3>1. upper_bound <= g + h
      BY <1>2, <2>1 DEF MetInv
    <3>2. QED
      BY <1>q, <1>2, <3>1, IntMaxAssumption DEF Level
  <2>2. QED
    BY <1>2, <2>1 DEF MetInv
<1>3. ASSUME NEW d \in Searches, CarefulPop(d, State) PROVE MetInv'
  <2>1. /\ d \in Dir /\ pc # "init" /\ upper_bound' <= upper_bound /\ task' = task
        /\ \A e \in Dir : \A k \in Level : \A s \in closed'[e][k] \ closed[e][k] :
              e = d /\ s \in frontier'[d].states
        /\ \A s \in frontier'[d].states : s \notin ClosedTotal(Opposite(d))
    BY <1>3, PopAccounts
  <2>2. pc' # "init"
    BY <1>3 DEF CarefulPop, Close, ReturnPoint
  <2>3. ASSUME NEW g \in Level, NEW h \in Level, NEW s,
               s \in closed'["fw"][g], s \in closed'["bw"][h]
        PROVE  s \in closed["fw"][g] /\ s \in closed["bw"][h]
    <3>1. CASE d = "fw"
      <4>1. s \in closed["bw"][h]
        BY <2>1, <2>3, <3>1 DEF Dir
      <4>2. s \in ClosedTotal(Opposite(d))
        BY <3>1, <4>1 DEF ClosedTotal, Opposite
      <4>3. QED
        BY <2>1, <2>3, <4>1, <4>2 DEF Dir
    <3>2. CASE d = "bw"
      <4>1. s \in closed["fw"][g]
        BY <2>1, <2>3, <3>2 DEF Dir
      <4>2. s \in ClosedTotal(Opposite(d))
        BY <3>2, <4>1 DEF ClosedTotal, Opposite
      <4>3. QED
        BY <2>1, <2>3, <4>1, <4>2 DEF Dir
    <3>3. QED
      BY <2>1, <3>1, <3>2 DEF Dir
  <2>4. ASSUME NEW g \in Level, NEW h \in Level, closed'["fw"][g] \cap closed'["bw"][h] # {}
        PROVE  upper_bound' <= g + h
    <3>1. closed["fw"][g] \cap closed["bw"][h] # {}
      BY <2>3, <2>4
    <3>2. upper_bound <= g + h
      BY <2>1, <3>1 DEF MetInv
    <3>3. QED
      BY <1>q, <2>1, <3>2, IntMaxAssumption DEF Level
  <2>5. QED
    BY <2>2, <2>4 DEF MetInv
<1>4. ASSUME NEW d \in Searches, Expand(d) PROVE MetInv'
  <2>1. UNCHANGED <<task, closed>> /\ upper_bound' <= upper_bound
    BY <1>4, ExpandFacts
  <2>2. pc # "init" /\ pc' # "init"
    BY <1>4 DEF Expand
  <2>3. QED
    BY <1>2, <2>1, <2>2
<1>5. ASSUME NEW d \in Searches,
             \/ BucketReady(d) \/ Exhausted(d) \/ Prepare(d) \/ PrepareTruncated(d)
             \/ ExpandTruncated(d) \/ Finish(d)
      PROVE  MetInv'
  <2>1. UNCHANGED <<task, closed, upper_bound>> /\ pc # "init" /\ pc' # "init"
    BY <1>5 DEF BucketReady, Exhausted, Prepare, PrepareTruncated, ExpandTruncated, Finish,
                ReturnPoint
  <2>2. QED
    BY <1>q, <1>2, <2>1
<1>6. CASE Return
  BY <1>q, <1>2, <1>6 DEF Return
<1>7. CASE Done \/ UNCHANGED vars
  BY <1>7 DEF Done, vars, MetInv
<1>8. QED
  BY <1>1, <1>3, <1>4, <1>5, <1>6, <1>7 DEF CarefulNext, CarefulStep

\* StrictInv is inductive: a popped level is empty, and operators that cost
\* something lead above it.
LEMMA StrictInvNext ==
    TypeOK /\ OrderInv /\ StrictInv /\ TraceInv /\ [CarefulNext(State)]_vars
    => StrictInv'
<1> SUFFICES ASSUME TypeOK, OrderInv, StrictInv, TraceInv,
                    [CarefulNext(State)]_vars
             PROVE  StrictInv'
  OBVIOUS
<1>1. CASE Quiet
  BY <1>1 DEF Quiet, StrictInv, HasZeroCost, MinTransitionCost
<1>2. ASSUME NEW d \in Searches, Filtered(d) PROVE StrictInv'
  <2>1. \A e \in Searches : frontier'[e].g = frontier[e].g
    BY <1>2 DEF Filtered
  <2>2. QED
    BY <1>2, <2>1 DEF Filtered, StrictInv, HasZeroCost, MinTransitionCost
<1>3. ASSUME NEW d \in Searches, CarefulPop(d, State) PROVE StrictInv'
  <2>1. /\ \A e \in Searches \ {d} : frontier'[e] = frontier[e] /\ open'[e] = open[e]
        /\ frontier'[d].g = MinG(open[d])
    BY <1>3, PopIsSome, PopFacts
  <2>2. task' = task /\ open'[d][MinG(open[d])] = {}
    BY <1>3, PopAccounts
  <2>3. QED
    BY <2>1, <2>2 DEF StrictInv, HasZeroCost, MinTransitionCost
<1>4. ASSUME NEW d \in Searches, Expand(d) PROVE StrictInv'
  <2>1. /\ UNCHANGED <<task, closed>> /\ frontier'[d].g = frontier[d].g
        /\ \A e \in Searches \ {d} : frontier'[e] = frontier[e] /\ open'[e] = open[e]
        /\ \A k \in Level : \A y \in open'[d][k] \ open[d][k] :
              \E c \in CostsOf(frontier[d].phase) : k = frontier[d].g + c
        /\ \A c \in CostsOf(frontier[d].phase) : c \in DOMAIN task.ops
    BY <1>4, ExpandFacts
  <2>2. frontier[d].g \in Level
    BY DEF TypeOK, Frontier
  <2>3. ASSUME ~HasZeroCost(task) PROVE open'[d][frontier[d].g] = {}
    <3>1. open[d][frontier[d].g] = {}
      BY <2>3 DEF StrictInv
    <3>2. \A c \in CostsOf(frontier[d].phase) : frontier[d].g # frontier[d].g + c
      <4>1. \A c \in DOMAIN task.ops : c \in Nat /\ MinTransitionCost(task) <= c
        BY MinTransitionCostFacts DEF TypeOK, EngineTypeOK
      <4>2. MinTransitionCost(task) # 0 /\ MinTransitionCost(task) \in Nat
        BY <2>3, MinTransitionCostFacts, IntMaxAssumption DEF HasZeroCost, Level, TypeOK, EngineTypeOK
      <4>3. QED
        BY <2>1, <2>2, <4>1, <4>2, IntMaxAssumption DEF Level
    <3>3. QED
      BY <2>1, <2>2, <3>1, <3>2
  <2>4. QED
    BY <2>1, <2>3 DEF StrictInv, HasZeroCost, MinTransitionCost
<1>5. QED
  BY <1>1, <1>2, <1>3, <1>4, StepKinds

-----------------------------------------------------------------------------
(* Nothing is lost *)

\* NothingLost, for a search that may drop useless states of the set W.
NothingLostBut(W) ==
    \A d \in Searches : \A g \in Level : \A c \in DOMAIN task.ops :
        \A s \in closed[d][g] \cap task.notMutex[d] : Expanded(d, g, s, c) =>
            \A y \in Image(task, d, c, {s}) \cap task.notMutex[d] :
                \/ y \in W /\ upper_bound <= g + c + task.dist[Opposite(d)][y]
                \/ \E k \in Level :
                      \/ k <= g + c /\ y \in closed[d][k] \cup open[d][k]
                      \/ upper_bound <= g + c + k /\ y \in closed[Opposite(d)][k]

\* Only an image makes a state expanded, under the operators it is computed
\* for; a state that has just been closed is not expanded.
LEMMA NewlyExpanded ==
    ASSUME TypeOK, TraceInv, PhaseInv, [CarefulNext(State)]_vars,
           NEW e \in Searches, NEW g \in Level,
           NEW c \in DOMAIN task'.ops, NEW s \in closed'[e][g] \cap task'.notMutex[e],
           Expanded(e, g, s, c)'
    PROVE  /\ task' = task /\ s \in closed[e][g]
           /\ \/ Expanded(e, g, s, c)
              \/ /\ Expand(e) /\ s \in frontier[e].states /\ g = frontier[e].g
                 /\ c \in CostsOf(frontier[e].phase)
<1>0. e \in Dir
  BY SearchesAssumption
<1>1. CASE Quiet
  BY <1>1 DEF Quiet, Expanded
<1>2. ASSUME NEW d \in Searches, Filtered(d)
      PROVE  task' = task /\ s \in closed[e][g] /\ Expanded(e, g, s, c)
  <2>1. UNCHANGED <<task, closed>>
    BY <1>2 DEF Filtered
  <2>2. CASE e # d
    BY <1>2, <2>1, <2>2 DEF Filtered, Expanded
  <2>3. CASE e = d
    <3> SUFFICES ASSUME s \in frontier[d].states, g = frontier[d].g PROVE FALSE
      BY <1>2, <2>1, <2>3 DEF Filtered, Expanded
    <3>1. s \in frontier'[d].states /\ g = frontier'[d].g
      BY <1>2, <2>1, <2>3 DEF Filtered
    <3>2. frontier'[d].phase = "cost" => c # 0
      <4> SUFFICES ASSUME frontier'[d].phase = "cost" PROVE c # 0
        OBVIOUS
      <4>1. MinTransitionCost(task) # 0 /\ MinTransitionCost(task) \in Nat
        BY <1>2, MinTransitionCostFacts, IntMaxAssumption
           DEF Filtered, HasZeroCost, Level, TypeOK, EngineTypeOK
      <4>2. c \in Nat /\ MinTransitionCost(task) <= c
        BY <2>1, MinTransitionCostFacts DEF TypeOK, EngineTypeOK
      <4>3. QED
        BY <4>1, <4>2
    <3>3. frontier'[d].phase \in {"filter", "zero", "cost"}
      BY <1>2 DEF Filtered
    <3>4. QED
      BY <2>3, <3>1, <3>2, <3>3 DEF Expanded
  <2>4. QED
    BY <2>1, <2>2, <2>3
<1>3. ASSUME NEW d \in Searches, CarefulPop(d, State)
      PROVE  task' = task /\ s \in closed[e][g] /\ Expanded(e, g, s, c)
  <2>1. /\ task' = task
        /\ frontier[d].phase = "empty"
        /\ frontier'[d].phase = IF frontier'[d].states = {} THEN "empty" ELSE "filter"
        /\ \A f \in Dir : \A k \in Level : \A x \in closed'[f][k] \ closed[f][k] :
              f = d /\ k = MinG(open[d]) /\ x \in frontier'[d].states
    BY <1>3, PopAccounts
  <2>2. /\ \A f \in Searches \ {d} : frontier'[f] = frontier[f]
        /\ frontier'[d].g = MinG(open[d])
    BY <1>3, PopIsSome, PopFacts
  <2>3. s \in closed[e][g]
    <3> SUFFICES ASSUME s \notin closed[e][g] PROVE FALSE
      OBVIOUS
    <3>1. e = d /\ g = MinG(open[d]) /\ s \in frontier'[d].states
      BY <1>0, <2>1
    <3>2. frontier'[d].phase = "filter"
      BY <2>1, <3>1
    <3>3. QED
      BY <2>2, <3>1, <3>2 DEF Expanded
  <2>4. CASE e = d
    BY <2>1, <2>3, <2>4 DEF Expanded
  <2>5. CASE e # d
    BY <2>1, <2>2, <2>3, <2>5 DEF Expanded
  <2>6. QED
    BY <2>4, <2>5
<1>4. ASSUME NEW d \in Searches, Expand(d)
      PROVE  /\ task' = task /\ s \in closed[e][g]
             /\ \/ Expanded(e, g, s, c)
                \/ /\ e = d /\ s \in frontier[d].states /\ g = frontier[d].g
                   /\ c \in CostsOf(frontier[d].phase)
  <2>1. /\ UNCHANGED <<task, closed>>
        /\ \A f \in Searches \ {d} : frontier'[f] = frontier[f]
        /\ frontier'[d].g = frontier[d].g
        /\ frontier[d].phase = "zero" =>
              frontier'[d].phase = "cost" /\ frontier'[d].states = frontier[d].states
    BY <1>4, ExpandFacts
  <2>2. CASE ~Expanded(e, g, s, c)
    <3>1. e = d
      BY <2>1, <2>2 DEF Expanded
    <3>2. s \in frontier[d].states /\ g = frontier[d].g
      BY <2>2, <3>1 DEF Expanded
    <3>3. frontier[d].phase \in {"zero", "cost"}
      BY <1>4, <2>2, <3>1 DEF Expanded, PhaseInv, Expand
    <3>4. frontier[d].phase = "cost" => c # 0
      BY <2>2, <3>1, <3>3 DEF Expanded
    <3>5. frontier[d].phase = "zero" => c = 0
      BY <2>1, <3>1, <3>2 DEF Expanded
    <3>6. QED
      BY <2>1, <3>1, <3>2, <3>3, <3>4, <3>5 DEF CostsOf
  <2>3. QED
    BY <2>1, <2>2
<1>5. QED
  BY <1>1, <1>2, <1>3, <1>4, StepKinds

\* No step raises the upper bound.
LEMMA UpperBoundFalls ==
    ASSUME TypeOK, TraceInv, [CarefulNext(State)]_vars
    PROVE  upper_bound' <= upper_bound /\ upper_bound \in Nat /\ upper_bound' \in Nat
<1>1. TypeOK'
  BY LossyType, CarefulIsLossy
<1>2. upper_bound \in Nat /\ upper_bound' \in Nat
  BY <1>1, IntMaxAssumption DEF TypeOK, EngineTypeOK, Level
<1>3. ASSUME NEW d \in Searches, Filtered(d) \/ CarefulPop(d, State) \/ Expand(d)
      PROVE  upper_bound' <= upper_bound
  BY <1>2, <1>3, PopAccounts, ExpandFacts DEF Filtered
<1>4. QED
  BY <1>2, <1>3, StepKinds DEF Quiet

\* It is inductive: each step accounts for the states it takes away.
LEMMA NothingLostButNext ==
    ASSUME NEW W \in SUBSET State, TypeOK, TraceInv, OrderInv, PhaseInv,
           NothingLostBut(W), [CarefulNext(W)]_vars
    PROVE  NothingLostBut(W)'
<1>a. [CarefulNext(State)]_vars
  BY CarefulGrows
<1> DEFINE Accounted(e, g, c, y) ==
             \/ y \in W /\ upper_bound <= g + c + task.dist[Opposite(e)][y]
             \/ \E k \in Level :
                   \/ k <= g + c /\ y \in closed[e][k] \cup open[e][k]
                   \/ upper_bound <= g + c + k /\ y \in closed[Opposite(e)][k]
<1>q. upper_bound' <= upper_bound /\ upper_bound \in Nat /\ upper_bound' \in Nat
  BY <1>a, UpperBoundFalls
<1>k. \A k \in Level : k \in Nat
  BY IntMaxAssumption DEF Level
<1>c. \A c \in DOMAIN task.ops : c \in Nat
  BY MinTransitionCostFacts DEF TypeOK, EngineTypeOK
<1>o. \A e \in Searches : e \in Dir /\ Opposite(e) \in Dir
  BY SearchesAssumption, OppositeFacts
<1>w. \A e \in Searches : \A y \in W : task.dist[Opposite(e)][y] \in Nat
  BY <1>o, DistanceFacts DEF TypeOK, EngineTypeOK
<1>z. ASSUME task' = task, NEW e \in Searches, NEW g \in Level, NEW c \in DOMAIN task.ops,
             NEW y \in W, upper_bound <= g + c + task.dist[Opposite(e)][y]
      PROVE  Accounted(e, g, c, y)'
  <2>1. upper_bound' <= g + c + task.dist[Opposite(e)][y]
    BY <1>q, <1>k, <1>c, <1>w, <1>z
  <2>2. QED
    BY <1>z, <2>1
<1>u. ASSUME task' = task, ClosedGrows,
             NEW e \in Searches, \A k \in Level : open[e][k] \subseteq open'[e][k],
             NEW g \in Level, NEW c \in DOMAIN task.ops, NEW y, Accounted(e, g, c, y)
      PROVE  Accounted(e, g, c, y)'
  <2> SUFFICES ASSUME ~ /\ y \in W
                        /\ upper_bound <= g + c + task.dist[Opposite(e)][y]
               PROVE  Accounted(e, g, c, y)'
    BY <1>u, <1>z
  <2>1. PICK k \in Level : \/ k <= g + c /\ y \in closed[e][k] \cup open[e][k]
                           \/ upper_bound <= g + c + k /\ y \in closed[Opposite(e)][k]
    BY <1>u
  <2>2. closed[e][k] \subseteq closed'[e][k] /\ closed[Opposite(e)][k] \subseteq closed'[Opposite(e)][k]
    BY <1>o, <1>u DEF ClosedGrows
  <2>3. CASE k <= g + c /\ y \in closed[e][k] \cup open[e][k]
    BY <1>u, <2>2, <2>3
  <2>4. CASE upper_bound <= g + c + k /\ y \in closed[Opposite(e)][k]
    <3>1. upper_bound' <= g + c + k
      BY <1>q, <1>k, <1>c, <1>u, <2>4
    <3>2. QED
      BY <2>2, <2>4, <3>1
  <2>5. QED
    BY <2>1, <2>3, <2>4
<1>n. \A e \in Searches : \A g \in Level : \A c \in DOMAIN task.ops :
         \A s \in closed[e][g] \cap task.notMutex[e] : Expanded(e, g, s, c) =>
            \A y \in Image(task, e, c, {s}) \cap task.notMutex[e] : Accounted(e, g, c, y)
  BY DEF NothingLostBut
<1>s. SUFFICES ASSUME NEW e \in Searches, NEW g \in Level, NEW c \in DOMAIN task'.ops,
                      NEW s \in closed'[e][g] \cap task'.notMutex[e], Expanded(e, g, s, c)',
                      NEW y \in Image(task', e, c, {s}) \cap task'.notMutex[e]
               PROVE  Accounted(e, g, c, y)'
  BY DEF NothingLostBut
<1>e. /\ task' = task /\ s \in closed[e][g]
      /\ \/ Expanded(e, g, s, c)
         \/ /\ Expand(e) /\ s \in frontier[e].states /\ g = frontier[e].g
            /\ c \in CostsOf(frontier[e].phase)
  BY <1>a, <1>s, NewlyExpanded
<1>0. Expanded(e, g, s, c) => Accounted(e, g, c, y)
  BY <1>n, <1>s, <1>e
<1> HIDE DEF Accounted
<1>1. CASE Quiet \/ \E d \in Searches : Filtered(d)
  <2>1. UNCHANGED <<open, closed>> /\ ClosedGrows
    BY <1>1 DEF Quiet, Filtered, ClosedGrows
  <2>2. ~Expand(e) \/ Expanded(e, g, s, c)
    BY <1>s, <1>1, <1>e, <2>1 DEF Expanded, Expand, Quiet, Filtered
  <2>3. QED
    BY <1>u, <1>s, <1>e, <1>0, <2>1, <2>2
<1>2. ASSUME NEW d \in Searches, CarefulPop(d, W) PROVE Accounted(e, g, c, y)'
  <2> DEFINE m == MinG(open[d])
  <2>1. /\ d \in Dir /\ m \in Level
        /\ \A k \in Level : open'[d][k] = IF k = m THEN {} ELSE open[d][k]
        /\ \A x \in open[d][m] \cap task.notMutex[d] :
              \/ x \in ClosedTotal(d)
              \/ x \in closed'[d][m]
              \/ \E h \in Level : /\ x \in closed[Opposite(d)][h]
                                  /\ upper_bound' <= m + h
              \/ x \in W /\ upper_bound' <= m + task.dist[Opposite(d)][x]
    BY <1>2, PopAccounts
  <2>2. /\ \A f \in Searches \ {d} : frontier'[f] = frontier[f] /\ open'[f] = open[f]
        /\ ClosedGrows
        /\ m \in Keys(open[d])
    BY <1>2, PopIsSome, PopFacts
  <2> HIDE DEF m
  <2>3. Accounted(e, g, c, y)
    <3>1. ~Expand(e)
      BY <1>2 DEF CarefulPop, PopReady, Expand
    <3>2. QED
      BY <1>e, <1>0, <3>1
  <2>4. CASE e # d
    BY <1>u, <1>s, <1>e, <2>2, <2>3, <2>4
  <2>5. CASE e = d
    <3> SUFFICES ASSUME ~ /\ y \in W
                          /\ upper_bound <= g + c + task.dist[Opposite(e)][y]
                 PROVE  Accounted(e, g, c, y)'
      BY <1>s, <1>e, <1>z
    <3>1. PICK k \in Level : \/ k <= g + c /\ y \in closed[e][k] \cup open[e][k]
                             \/ upper_bound <= g + c + k /\ y \in closed[Opposite(e)][k]
      BY <2>3 DEF Accounted
    <3>2. closed[e][k] \subseteq closed'[e][k] /\ closed[Opposite(e)][k] \subseteq closed'[Opposite(e)][k]
      BY <1>o, <2>2 DEF ClosedGrows
    <3>3. CASE k <= g + c /\ y \in closed[e][k]
      BY <3>2, <3>3 DEF Accounted
    <3>4. CASE k <= g + c /\ y \in open[e][k] /\ k # m
      BY <2>1, <2>5, <3>4 DEF Accounted
    <3>5. CASE k <= g + c /\ y \in open[e][k] /\ k = m
      <4>1. CASE y \in ClosedTotal(d)
        <5>1. PICK j \in Level : y \in closed[d][j]
          BY <4>1 DEF ClosedTotal
        <5>2. j <= frontier[d].g /\ frontier[d].g <= m
          BY <2>1, <2>2, <5>1 DEF OrderInv, Keys
        <5>3. frontier[d].g \in Nat /\ j \in Nat /\ m \in Nat /\ g \in Nat /\ c \in Nat
          BY <1>k, <1>c, <1>s, <1>e, <2>1 DEF TypeOK, Frontier
        <5>4. j <= g + c
          BY <3>5, <5>2, <5>3
        <5>5. y \in closed'[d][j]
          BY <2>1, <2>2, <5>1 DEF ClosedGrows
        <5>6. QED
          BY <2>5, <5>4, <5>5 DEF Accounted
      <4>2. CASE y \in closed'[d][m]
        BY <2>1, <2>5, <3>5, <4>2 DEF Accounted
      <4>3. ASSUME NEW h \in Level, y \in closed[Opposite(d)][h], upper_bound' <= m + h
            PROVE  Accounted(e, g, c, y)'
        <5>1. y \in closed'[Opposite(d)][h]
          BY <1>o, <2>2, <4>3 DEF ClosedGrows
        <5>2. upper_bound' <= g + c + h
          BY <1>q, <1>k, <1>c, <1>s, <1>e, <2>1, <3>5, <4>3
        <5>3. QED
          BY <2>5, <5>1, <5>2 DEF Accounted
      <4>4. CASE y \in W /\ upper_bound' <= m + task.dist[Opposite(d)][y]
        <5>1. upper_bound' <= g + c + task.dist[Opposite(d)][y]
          BY <1>q, <1>k, <1>c, <1>o, <1>w, <1>s, <1>e, <2>1, <3>5, <4>4
        <5>2. QED
          BY <1>e, <2>5, <4>4, <5>1 DEF Accounted
      <4>5. QED
        BY <1>s, <1>e, <2>1, <2>5, <3>5, <4>1, <4>2, <4>3, <4>4
    <3>6. CASE upper_bound <= g + c + k /\ y \in closed[Opposite(e)][k]
      <4>1. upper_bound' <= g + c + k
        BY <1>q, <1>k, <1>c, <1>s, <1>e, <3>6
      <4>2. QED
        BY <3>2, <3>6, <4>1 DEF Accounted
    <3>7. QED
      BY <3>1, <3>3, <3>4, <3>5, <3>6
  <2>6. QED
    BY <2>4, <2>5
<1>3. ASSUME NEW d \in Searches, Expand(d) PROVE Accounted(e, g, c, y)'
  <2>1. /\ d \in Dir /\ UNCHANGED <<task, closed>>
        /\ \A f \in Searches \ {d} : open'[f] = open[f]
        /\ \A k \in Level : open[d][k] \subseteq open'[d][k]
        /\ \A k \in CostsOf(frontier[d].phase) : frontier[d].g + k \in Level
        /\ \A k \in CostsOf(frontier[d].phase) : \A x \in frontier[d].states : \A z \in State :
              Edge(task, d, k, x, z) =>
                  /\ z \in open'[d][frontier[d].g + k] \/ z \in ClosedTotal(Opposite(d))
                  /\ \A h \in Level : z \in closed[Opposite(d)][h] =>
                        upper_bound' <= frontier[d].g + k + h
    BY <1>3, ExpandFacts
  <2>2. ClosedGrows /\ \A f \in Searches : \A k \in Level : open[f][k] \subseteq open'[f][k]
    BY <2>1 DEF ClosedGrows
  <2>3. CASE Expanded(e, g, s, c)
    BY <1>u, <1>s, <1>e, <1>0, <2>2, <2>3
  <2>4. CASE ~Expanded(e, g, s, c)
    <3>1. /\ s \in frontier[d].states /\ g = frontier[d].g /\ e = d
          /\ c \in CostsOf(frontier[d].phase)
      BY <1>e, <1>3, <2>4 DEF Expand
    <3>2. Edge(task, d, c, s, y) /\ y \in State
      BY <1>s, <1>e, <3>1 DEF Image
    <3>3. CASE y \in open'[d][g + c]
      <4>1. g + c \in Level /\ g + c <= g + c
        BY <1>k, <2>1, <3>1
      <4>2. QED
        BY <3>1, <3>3, <4>1 DEF Accounted
    <3>4. CASE y \in ClosedTotal(Opposite(d))
      <4>1. PICK h \in Level : y \in closed[Opposite(d)][h]
        BY <3>4 DEF ClosedTotal
      <4>2. upper_bound' <= g + c + h
        BY <2>1, <3>1, <3>2, <4>1
      <4>3. QED
        BY <2>1, <3>1, <4>1, <4>2 DEF Accounted
    <3>5. QED
      BY <2>1, <3>1, <3>2, <3>3, <3>4
  <2>5. QED
    BY <2>3, <2>4
<1>4. QED
  BY <1>1, <1>2, <1>3, StepKinds

-----------------------------------------------------------------------------
(* Edges between the two searches *)

\* When both ends of an edge have been expanded, one from either side, the
\* later image has met the earlier closed state and registered the plan.
EdgeInv ==
    \A d \in Searches : Opposite(d) \in Searches =>
        \A g, h \in Level : \A c \in DOMAIN task.ops :
            \A x \in closed[d][g] \cap task.notMutex[d] :
                \A y \in closed[Opposite(d)][h] \cap task.notMutex[Opposite(d)] :
                    /\ Edge(task, d, c, x, y)
                    /\ Expanded(d, g, x, c)
                    /\ Expanded(Opposite(d), h, y, c)
                    => upper_bound <= g + c + h

\* EdgeInv is inductive.
LEMMA EdgeInvNext ==
    TypeOK /\ TraceInv /\ PhaseInv /\ EdgeInv /\ [CarefulNext(State)]_vars
    => EdgeInv'
<1> SUFFICES ASSUME TypeOK, TraceInv, PhaseInv, EdgeInv, [CarefulNext(State)]_vars,
                    NEW d \in Searches, Opposite(d) \in Searches,
                    NEW g \in Level, NEW h \in Level, NEW c \in DOMAIN task'.ops,
                    NEW x \in closed'[d][g] \cap task'.notMutex[d],
                    NEW y \in closed'[Opposite(d)][h] \cap task'.notMutex[Opposite(d)],
                    Edge(task', d, c, x, y),
                    Expanded(d, g, x, c)', Expanded(Opposite(d), h, y, c)'
             PROVE  upper_bound' <= g + c + h
  BY DEF EdgeInv
<1> DEFINE o == Opposite(d)
<1>1. /\ task' = task /\ x \in closed[d][g]
      /\ \/ Expanded(d, g, x, c)
         \/ /\ Expand(d) /\ x \in frontier[d].states /\ g = frontier[d].g
            /\ c \in CostsOf(frontier[d].phase)
  BY NewlyExpanded
<1>2. /\ y \in closed[o][h]
      /\ \/ Expanded(o, h, y, c)
         \/ /\ Expand(o) /\ y \in frontier[o].states /\ h = frontier[o].g
            /\ c \in CostsOf(frontier[o].phase)
  BY NewlyExpanded
<1>3. upper_bound' <= upper_bound /\ upper_bound \in Nat /\ upper_bound' \in Nat
  BY UpperBoundFalls
<1>4. g \in Nat /\ h \in Nat /\ c \in Nat
  BY <1>1, MinTransitionCostFacts, IntMaxAssumption DEF Level, TypeOK, EngineTypeOK
<1>5. d \in Dir /\ Opposite(o) = d /\ Edge(task, o, c, y, x)
  BY <1>1, SearchesAssumption, OppositeFacts
<1>6. x \in State /\ y \in State
  BY <1>1, <1>2, <1>5, OppositeFacts DEF TypeOK, EngineTypeOK, Levels
<1>7. CASE Expanded(d, g, x, c) /\ Expanded(o, h, y, c)
  <2>1. upper_bound <= g + c + h
    BY <1>1, <1>2, <1>7 DEF EdgeInv
  <2>2. QED
    BY <1>3, <1>4, <2>1
<1>8. CASE /\ Expand(d) /\ x \in frontier[d].states /\ g = frontier[d].g
           /\ c \in CostsOf(frontier[d].phase)
  BY <1>1, <1>2, <1>6, <1>8, ExpandFacts
<1>9. CASE /\ Expand(o) /\ y \in frontier[o].states /\ h = frontier[o].g
           /\ c \in CostsOf(frontier[o].phase)
  <2>1. upper_bound' <= h + c + g
    <3>1. \A k \in Level : x \in closed[Opposite(o)][k] => upper_bound' <= frontier[o].g + c + k
      BY <1>5, <1>6, <1>9, ExpandFacts
    <3>2. QED
      BY <1>1, <1>5, <1>9, <3>1
  <2>2. QED
    BY <1>3, <1>4, <2>1
<1>10. QED
  BY <1>1, <1>2, <1>7, <1>8, <1>9

-----------------------------------------------------------------------------
(* Levels are exact *)

\* What the argument about a state of the search rests on.
SearchInv ==
    /\ TypeOK /\ TraceInv /\ OrderInv /\ LevelInv /\ PlanInv
    /\ ControlInv /\ NothingLostBut(State) /\ EdgeInv

\* Everything that costs k has been found: k is below the cheapest open bucket
\* and below what the frontier still generates.
Ahead(d, k) == /\ k < MinG(open[d])
               /\ frontier[d].phase # "empty" => k < frontier[d].g + MinTransitionCost(task)

\* A state on a plan that is still of use is found by the image of a closed
\* predecessor on the same plan, at its distance.
LEMMA FoundByImage ==
    ASSUME SearchInv, ExactLevels, NEW d \in Searches,
           NEW p \in State, NEW x \in State, NEW c \in DOMAIN task.ops,
           CostThrough(task, p) < upper_bound, CostThrough(task, x) < upper_bound,
           p \in closed[d][task.dist[d][p]],
           Edge(task, d, c, p, x), task.dist[d][x] = task.dist[d][p] + c,
           Expanded(d, task.dist[d][p], p, c)
    PROVE  x \in closed[d][task.dist[d][x]] \cup open[d][task.dist[d][x]]
<1> DEFINE g == task.dist[d][p]
           k == task.dist[d][x]
           o == Opposite(d)
<1>1. d \in Dir /\ o \in Dir /\ IsTask(task)
  BY SearchesAssumption, OppositeFacts DEF SearchInv, TypeOK, EngineTypeOK
<1>2. /\ g \in Level /\ g \in Nat /\ k \in Level /\ k \in Nat
      /\ task.dist[o][x] \in Level /\ task.dist[o][x] \in Nat
      /\ CostThrough(task, x) = k + task.dist[o][x]
  BY <1>1, DistanceFacts
<1>3. upper_bound \in Nat /\ upper_bound <= INT_MAX /\ c \in Nat
  BY <1>1, MinTransitionCostFacts, IntMaxAssumption
     DEF SearchInv, TypeOK, EngineTypeOK, Level
<1>4. p \in task.notMutex[d] /\ x \in task.notMutex[d]
  <2>1. CostThrough(task, p) < INT_MAX
    <3>1. CostThrough(task, p) \in Nat
      BY <1>1, DistanceFacts
    <3>2. QED
      BY <1>3, <3>1, IntMaxAssumption
  <2>2. CostThrough(task, x) < INT_MAX
    BY <1>2, <1>3, IntMaxAssumption
  <2>3. QED
    BY <1>1, <2>1, <2>2, PlansAvoidMutexes
<1>5. x \in Image(task, d, c, {p})
  BY DEF Image
<1>x. ~ upper_bound <= g + c + task.dist[o][x]
  BY <1>2, <1>3
<1>6. PICK j \in Level : \/ j <= g + c /\ x \in closed[d][j] \cup open[d][j]
                         \/ upper_bound <= g + c + j /\ x \in closed[o][j]
  BY <1>2, <1>4, <1>5, <1>x DEF SearchInv, NothingLostBut
<1>7. j \in Nat
  BY IntMaxAssumption DEF Level
<1>8. CASE j <= g + c /\ x \in closed[d][j] \cup open[d][j]
  <2>1. k <= j
    BY <1>1, <1>8 DEF SearchInv, LevelInv
  <2>2. j = k
    BY <1>2, <1>3, <1>7, <1>8, <2>1
  <2>3. QED
    BY <1>8, <2>2
<1>9. CASE upper_bound <= g + c + j /\ x \in closed[o][j]
  <2>1. j = task.dist[o][x]
    BY <1>1, <1>9 DEF ExactLevels
  <2>2. QED
    BY <1>2, <1>3, <1>7, <1>9, <2>1
<1>10. QED
  BY <1>6, <1>8, <1>9

\* A direction has closed every useful state whose distance is below what is
\* still to come.  Of the others, take one of least rank: its predecessor on a
\* cheapest walk has been closed and expanded.
LEMMA BehindIsClosed ==
    ASSUME SearchInv, ExactLevels, NEW d \in Searches,
           NEW s \in State, CostThrough(task, s) < upper_bound, Ahead(d, task.dist[d][s])
    PROVE  s \in closed[d][task.dist[d][s]]
<1> DEFINE Missing == {x \in State : /\ CostThrough(task, x) < upper_bound
                                     /\ Ahead(d, task.dist[d][x])
                                     /\ x \notin closed[d][task.dist[d][x]]}
<1>1. d \in Dir /\ IsTask(task) /\ Opposite(d) \in Dir
  BY SearchesAssumption, OppositeFacts DEF SearchInv, TypeOK, EngineTypeOK
<1>2. /\ upper_bound \in Nat /\ upper_bound <= INT_MAX
      /\ open[d] \in Levels /\ frontier[d].g \in Nat
      /\ MinTransitionCost(task) \in Nat
  BY <1>1, MinTransitionCostFacts, IntMaxAssumption
     DEF SearchInv, TypeOK, EngineTypeOK, Level, Frontier
<1>3. MinG(open[d]) \in Nat /\ \A j \in Keys(open[d]) : MinG(open[d]) <= j
  BY <1>2, MinGFacts, IntMaxAssumption DEF Level
<1> SUFFICES ASSUME Missing # {} PROVE FALSE
  OBVIOUS
<1>4. PICK x \in Missing : \A y \in Missing : task.rank[d][x] <= task.rank[d][y]
  BY <1>1, LeastRank, DistanceFacts
<1> DEFINE k == task.dist[d][x]
<1>5. /\ x \in State /\ k \in Nat /\ k \in Level /\ task.rank[d] \in [State -> Nat]
      /\ CostThrough(task, x) = k + task.dist[Opposite(d)][x]
      /\ task.dist[Opposite(d)][x] \in Nat
      /\ x \in Source(task, d) => k = 0
  BY <1>1, DistanceFacts
<1>6. x \notin Source(task, d)
  BY <1>1, <1>5 DEF SearchInv, ControlInv, SourceInv
<1>7. k < INT_MAX
  BY <1>2, <1>5, IntMaxAssumption
<1>8. PICK c \in DOMAIN task.ops : \E p \in State :
              /\ c \in Nat
              /\ Edge(task, d, c, p, x)
              /\ k = task.dist[d][p] + c
              /\ task.rank[d][p] < task.rank[d][x]
              /\ CostThrough(task, p) <= CostThrough(task, x)
  BY <1>1, <1>5, <1>6, <1>7, CheapestPredecessor
<1>9. PICK p \in State :
              /\ c \in Nat
              /\ Edge(task, d, c, p, x)
              /\ k = task.dist[d][p] + c
              /\ task.rank[d][p] < task.rank[d][x]
              /\ CostThrough(task, p) <= CostThrough(task, x)
  BY <1>8
<1> DEFINE g == task.dist[d][p]
<1>10. /\ g \in Nat /\ CostThrough(task, p) = g + task.dist[Opposite(d)][p]
       /\ task.dist[Opposite(d)][p] \in Nat
  BY <1>1, DistanceFacts
<1>11. CostThrough(task, p) < upper_bound
  BY <1>2, <1>5, <1>9, <1>10
<1>12. Ahead(d, g)
  BY <1>2, <1>3, <1>5, <1>9, <1>10 DEF Ahead
<1>13. p \in closed[d][g]
  BY <1>4, <1>5, <1>9, <1>11, <1>12
<1>14. MinTransitionCost(task) <= c
  BY <1>1, MinTransitionCostFacts
<1>15. Expanded(d, g, p, c)
  <2> SUFFICES ASSUME g = frontier[d].g, frontier[d].phase # "empty" PROVE FALSE
    BY DEF Expanded
  <2>1. k < frontier[d].g + MinTransitionCost(task)
    BY <1>4 DEF Ahead
  <2>2. QED
    BY <1>2, <1>9, <1>10, <1>14, <2>1
<1>16. x \in closed[d][k] \cup open[d][k]
  BY <1>9, <1>11, <1>13, <1>15, FoundByImage
<1>17. x \notin open[d][k]
  <2> SUFFICES ASSUME x \in open[d][k] PROVE FALSE
    OBVIOUS
  <2>1. MinG(open[d]) <= k
    BY <1>3, <1>5 DEF Keys
  <2>2. QED
    BY <1>3, <1>4, <1>5, <2>1 DEF Ahead
<1>18. QED
  BY <1>4, <1>16, <1>17

\* ExactLevels is inductive: a popped state that has a shorter distance than
\* its bucket has been closed before.
LEMMA ExactLevelsNext ==
    SearchInv /\ ExactLevels /\ [CarefulNext(State)]_vars
    => ExactLevels'
<1> SUFFICES ASSUME SearchInv, ExactLevels, [CarefulNext(State)]_vars,
                    NEW e \in Dir, NEW g \in Level, NEW s \in closed'[e][g],
                    CostThrough(task', s) < upper_bound'
             PROVE  g = task'.dist[e][s]
  BY DEF ExactLevels
<1>0. TypeOK /\ TraceInv /\ LevelInv /\ IsTask(task)
  BY DEF SearchInv, TypeOK, EngineTypeOK
<1>1. upper_bound' <= upper_bound /\ upper_bound \in Nat /\ upper_bound' \in Nat
  BY <1>0, UpperBoundFalls
<1>2. CASE task' = task /\ s \in closed[e][g]
  <2>1. s \in State
    BY <1>0, <1>2 DEF TypeOK, EngineTypeOK, Levels
  <2>2. CostThrough(task, s) \in Nat
    BY <1>0, <2>1, DistanceFacts, OppositeFacts
  <2>3. CostThrough(task, s) < upper_bound
    BY <1>1, <1>2, <2>2
  <2>4. QED
    BY <1>2, <2>3 DEF ExactLevels
<1>3. ASSUME NEW d \in Searches, CarefulPop(d, State), s \notin closed[e][g]
      PROVE  g = task'.dist[e][s]
  <2>1. /\ d \in Dir /\ task' = task /\ frontier[d].phase = "empty"
        /\ e = d /\ g = MinG(open[d]) /\ s \in open[d][g]
    BY <1>0, <1>3, PopAccounts
  <2>2. s \notin ClosedTotal(d)
    BY <1>0, <1>3, PopIsSome, PopFacts
  <2>3. open[d] \in Levels /\ g \in Nat /\ s \in State
    BY <1>0, <2>1, IntMaxAssumption DEF TypeOK, Levels, Level
  <2>4. task.dist[d][s] <= g /\ task.dist[d][s] \in Nat /\ CostThrough(task, s) \in Nat
        /\ task.dist[d][s] \in Level
    BY <1>0, <2>1, <2>3, DistanceFacts, OppositeFacts DEF LevelInv
  <2>5. CostThrough(task, s) < upper_bound
    BY <1>1, <2>1, <2>4
  <2>6. CASE task.dist[d][s] < g
    <3>1. Ahead(d, task.dist[d][s])
      BY <2>1, <2>6 DEF Ahead
    <3>2. s \in closed[d][task.dist[d][s]]
      BY <2>3, <2>5, <3>1, BehindIsClosed
    <3>3. QED
      BY <2>2, <2>4, <3>2 DEF ClosedTotal
  <2>7. QED
    BY <2>1, <2>3, <2>4, <2>6
<1>4. CASE \A d \in Searches : ~CarefulPop(d, State)
  <2>1. UNCHANGED <<task, closed>>
    BY <1>0, <1>4, StepKinds, ExpandFacts DEF Quiet, Filtered
  <2>2. QED
    BY <1>2, <2>1
<1>5. QED
  <2>1. ASSUME NEW d \in Searches, CarefulPop(d, State) PROVE task' = task
    BY <1>0, <2>1, PopAccounts
  <2>2. QED
    BY <1>2, <1>3, <1>4, <2>1

-----------------------------------------------------------------------------
(* The invariant *)

\* Before the first step only the sources are closed, and not expanded.
LEMMA NothingIsExpandedYet ==
    ASSUME Init, NEW d \in Searches, NEW g \in Level, NEW s \in closed[d][g], NEW c
    PROVE  ~Expanded(d, g, s, c)
<1>1. g = 0 /\ s \in Source(task, d)
  BY SearchesAssumption DEF Init, NoStates
<1>2. frontier[d] = [g |-> 0, phase |-> "filter", states |-> Source(task, d)]
  BY DEF Init
<1>3. QED
  BY <1>1, <1>2 DEF Expanded

\* All parts hold at the start.
LEMMA SearchInvInit == Init => SearchInv /\ ExactLevels
<1> SUFFICES ASSUME Init PROVE SearchInv /\ ExactLevels
  OBVIOUS
<1>1. TypeOK /\ TraceInv /\ OrderInv /\ LevelInv /\ PlanInv /\ ControlInv
  BY InitType, TraceInvInit, OrderInvInit, LevelInvInit, ControlInvInit
<1>2. ASSUME NEW d \in Dir, NEW g \in Level, NEW s \in closed[d][g]
      PROVE  g = 0 /\ s \in Source(task, d) /\ s \in State
  BY <1>1 DEF Init, NoStates, TypeOK, EngineTypeOK, Levels
<1>3. ASSUME NEW d \in Searches, NEW g \in Level, NEW s \in closed[d][g], NEW c
      PROVE  ~Expanded(d, g, s, c)
  BY <1>3, NothingIsExpandedYet
<1>4. NothingLostBut(State)
  BY <1>3 DEF NothingLostBut
<1>5. EdgeInv
  BY <1>3 DEF EdgeInv
<1>6. ExactLevels
  BY <1>1, <1>2, DistanceFacts DEF ExactLevels, TypeOK, EngineTypeOK
<1>7. QED
  BY <1>1, <1>4, <1>5, <1>6 DEF SearchInv

\* All parts are preserved by every step.
LEMMA SearchInvNext ==
    SearchInv /\ ExactLevels /\ [CarefulNext(State)]_vars
    => SearchInv' /\ ExactLevels'
<1> SUFFICES ASSUME SearchInv, ExactLevels,
                    [CarefulNext(State)]_vars
             PROVE  SearchInv' /\ ExactLevels'
  OBVIOUS
<1>1. /\ TypeOK /\ TraceInv /\ OrderInv /\ LevelInv /\ PlanInv /\ NothingLostBut(State) /\ EdgeInv
      /\ PhaseInv /\ StockInv /\ SourceInv /\ MetInv /\ StrictInv
  BY DEF SearchInv, ControlInv
<1>2. TypeOK' /\ TraceInv' /\ OrderInv'
  BY <1>1, LossyType, LossyTrace, LossyOrder, CarefulIsLossy
<1>3. LevelInv' /\ PlanInv'
  BY <1>1, LevelInvNext, PlanInvNext
<1>4. ControlInv'
  BY <1>1, PlacesNext, SourceInvNext, MetInvNext, StrictInvNext DEF ControlInv
<1>5. NothingLostBut(State)' /\ EdgeInv'
  BY <1>1, NothingLostButNext, EdgeInvNext
<1>6. ExactLevels'
  BY ExactLevelsNext
<1>7. QED
  BY <1>2, <1>3, <1>4, <1>5, <1>6 DEF SearchInv

\* SearchInv and ExactLevels are invariants.
LEMMA SearchInvariant == Spec => [](SearchInv /\ ExactLevels)
<1>1. [Next]_vars => [CarefulNext(State)]_vars
  BY NextIsCareful, CarefulGrows
<1>2. QED
  BY <1>1, SearchInvInit, SearchInvNext, PTL DEF Spec

\* However the directions interleave, wherever the opposite closed list, the
\* mutexes and the duplicate detection prune, and wherever an image is cut off
\* and resumed: the successors of an expanded state are accounted for.
THEOREM NothingIsLost == Spec => []NothingLost
<1>1. Init => NothingLostBut({})
  BY NothingIsExpandedYet DEF NothingLostBut
<1>2. SearchInv /\ NothingLostBut({}) /\ [Next]_vars => NothingLostBut({})'
  BY NextIsCareful, NothingLostButNext DEF SearchInv, ControlInv
<1>3. NothingLostBut({}) => NothingLost
  BY DEF NothingLostBut, NothingLost
<1>4. QED
  BY <1>1, <1>2, <1>3, SearchInvariant, PTL DEF Spec

\* A closed state on a plan that is still of use was closed at its distance:
\* pruning one direction by the other never makes it reach such a state late.
THEOREM LevelsAreExact == Spec => []ExactLevels
BY SearchInvariant, PTL

-----------------------------------------------------------------------------
(* The estimates of a search *)

\* getG is the level of the frontier, or else the cheapest key of open.
LEMMA GetGFacts ==
    ASSUME SearchInv, NEW d \in Searches
    PROVE  /\ GetG(frontier[d], open[d]) \in Nat
           /\ MinG(open[d]) \in Nat /\ MinG(open[d]) <= INT_MAX
           /\ frontier[d].g \in Nat /\ frontier[d].g \in Level
           /\ GetG(frontier[d], open[d]) <= MinG(open[d])
           /\ \A k \in Level : open[d][k] # {} => MinG(open[d]) <= k
           /\ frontier[d].phase # "empty" => GetG(frontier[d], open[d]) = frontier[d].g
           /\ frontier[d].phase = "empty" => GetG(frontier[d], open[d]) = MinG(open[d])
<1>1. open[d] \in Levels /\ frontier[d] \in Frontier
  BY DEF SearchInv, TypeOK
<1>2. frontier[d].g \in Level /\ frontier[d].g \in Nat /\ frontier[d].g <= INT_MAX
  BY <1>1, LevelFacts DEF Frontier
<1>3. /\ MinG(open[d]) \in Nat /\ MinG(open[d]) <= INT_MAX
      /\ \A k \in Level : open[d][k] # {} => MinG(open[d]) <= k
  BY <1>1, MinGFacts, LevelFacts DEF Keys
<1>4. frontier[d].g <= MinG(open[d])
  <2>1. CASE Keys(open[d]) = {}
    BY <1>2, <2>1 DEF MinG
  <2>2. CASE Keys(open[d]) # {}
    BY <1>1, <2>2, MinGFacts DEF SearchInv, OrderInv, Keys
  <2>3. QED
    BY <2>1, <2>2
<1>5. QED
  BY <1>2, <1>3, <1>4 DEF GetG

\* A useful state cheaper than getG has been closed and expanded.
LEMMA BelowG ==
    ASSUME SearchInv, ExactLevels, NEW d \in Searches, NEW s \in State,
           CostThrough(task, s) < upper_bound,
           task.dist[d][s] < GetG(frontier[d], open[d])
    PROVE  /\ s \in closed[d][task.dist[d][s]]
           /\ \A c \in DOMAIN task.ops : Expanded(d, task.dist[d][s], s, c)
<1>1. /\ task.dist[d][s] \in Nat
      /\ MinTransitionCost(task) \in Nat
  BY SearchesAssumption, DistanceFacts, MinTransitionCostFacts, LevelFacts
     DEF SearchInv, TypeOK, EngineTypeOK
<1>2. Ahead(d, task.dist[d][s])
  BY <1>1, GetGFacts DEF Ahead
<1>3. s \in closed[d][task.dist[d][s]]
  BY <1>2, BehindIsClosed
<1>4. task.dist[d][s] = frontier[d].g => frontier[d].phase = "empty"
  BY <1>1, GetGFacts
<1>5. QED
  BY <1>3, <1>4 DEF Expanded

\* A state closed by both directions is on a registered plan.
LEMMA MetCosts ==
    ASSUME SearchInv, pc # "init", NEW d \in Dir, NEW g \in Level, NEW h \in Level,
           NEW s \in closed[d][g], s \in closed[Opposite(d)][h]
    PROVE  upper_bound <= g + h
<1>1. MetInv
  BY DEF SearchInv, ControlInv
<1>2. CASE d = "fw"
  <2>1. closed["fw"][g] \cap closed["bw"][h] # {}
    BY <1>2 DEF Opposite
  <2>2. QED
    BY <1>1, <2>1 DEF MetInv
<1>3. CASE d = "bw"
  <2>1. closed["fw"][h] \cap closed["bw"][g] # {}
    BY <1>3 DEF Opposite
  <2>2. upper_bound <= h + g
    BY <1>1, <2>1 DEF MetInv
  <2>3. QED
    BY <2>2, LevelFacts
<1>4. QED
  BY <1>2, <1>3 DEF Dir

\* While a cheapest plan is missing, direction d has yet to reach the state at
\* its far end.
LEMMA FarEnd ==
    ASSUME SearchInv, Optimum < upper_bound, NEW d \in Searches
    PROVE  \E s \in State : /\ s \in Source(task, Opposite(d))
                            /\ CostThrough(task, s) = Optimum
                            /\ task.dist[d][s] = Optimum
                            /\ s \in closed[Opposite(d)][0]
<1>1. d \in Dir /\ Opposite(d) \in Dir /\ Opposite(Opposite(d)) = d /\ IsTask(task)
  BY SearchesAssumption, OppositeFacts DEF SearchInv, TypeOK, EngineTypeOK
<1>2. Optimum < INT_MAX
  <2>1. upper_bound \in Nat /\ upper_bound <= INT_MAX
    BY LevelFacts DEF SearchInv, TypeOK, EngineTypeOK
  <2>2. Optimum \in Nat
    <3>1. "bw" \in Dir /\ task.init \in State
      BY <1>1 DEF Dir, IsTask
    <3>2. QED
      BY <1>1, <3>1, DistanceFacts DEF Optimum
  <2>3. QED
    BY <2>1, <2>2, LevelFacts
<1>3. PICK s \in Source(task, Opposite(d)) : CostThrough(task, s) = Optimum
  BY <1>1, <1>2, CheapestSource DEF Optimum
<1>4. Source(task, Opposite(d)) \subseteq State
  BY <1>1 DEF Source, IsTask
<1>5. s \in State
  BY <1>4
<1>6. /\ task.dist[Opposite(d)][s] = 0 /\ task.dist[d][s] \in Nat
      /\ CostThrough(task, s) = task.dist[d][s] + task.dist[Opposite(d)][s]
  BY <1>1, <1>5, DistanceFacts
<1>7. s \in closed[Opposite(d)][0]
  BY <1>1 DEF SearchInv, ControlInv, SourceInv
<1>8. QED
  BY <1>3, <1>5, <1>6, <1>7

\* The optimum is an int.
LEMMA OptimumType == SearchInv => Optimum \in Nat /\ Optimum <= INT_MAX
BY EngineFacts DEF SearchInv, TypeOK

\* getF never passes the optimum while a cheapest plan is missing: its far end
\* would be closed by both directions.
LEMMA GetFIsSound ==
    ASSUME SearchInv, ExactLevels, pc # "init", Optimum < upper_bound, NEW d \in Searches
    PROVE  GetF(frontier[d], open[d]) <= Optimum
<1>1. d \in Dir /\ IsTask(task)
  BY SearchesAssumption DEF SearchInv, TypeOK, EngineTypeOK
<1>2. Optimum \in Nat /\ Optimum <= INT_MAX /\ Optimum \in Level
  BY OptimumType, IntMaxAssumption DEF Level
<1>3. /\ GetF(frontier[d], open[d]) \in Int
      /\ MinTransitionCost(task) \in Level
  BY <1>1, GetFFacts, MinTransitionCostFacts DEF SearchInv, TypeOK
<1> SUFFICES ASSUME Optimum < GetF(frontier[d], open[d]) PROVE FALSE
  BY <1>2, <1>3
<1>4. Ahead(d, Optimum)
  <2>1. MinG(open[d]) \in Nat /\ frontier[d].g \in Nat /\ frontier[d].g \in Level
    BY GetGFacts
  <2>2. MinTransitionCost(task) \in Nat
    BY <1>3, LevelFacts
  <2>3. /\ Plus(frontier[d].g, MinTransitionCost(task)) \in Int
        /\ Plus(frontier[d].g, MinTransitionCost(task))
              <= frontier[d].g + MinTransitionCost(task)
    <3>1. \A a, b \in Nat : Plus(a, b) \in Int /\ Plus(a, b) <= a + b
      BY LevelFacts DEF Plus
    <3>2. QED
      BY <2>1, <2>2, <3>1
  <2>4. QED
    BY <1>2, <2>1, <2>2, <2>3, LevelFacts DEF Ahead, GetF, LesserOf
<1>5. PICK s \in State : /\ CostThrough(task, s) = Optimum
                         /\ task.dist[d][s] = Optimum
                         /\ s \in closed[Opposite(d)][0]
  BY FarEnd
<1>6. s \in closed[d][Optimum]
  BY <1>4, <1>5, BehindIsClosed
<1>7. upper_bound <= Optimum + 0
  BY <1>1, <1>2, <1>5, <1>6, MetCosts, LevelFacts
<1>8. QED
  BY <1>2, <1>7, LevelFacts DEF SearchInv, TypeOK, EngineTypeOK

\* Nor does getG plus the cheapest operator: the predecessor of the far end
\* would be expanded, and the far end met.
LEMMA GetGIsSound ==
    ASSUME SearchInv, ExactLevels, pc # "init", Optimum < upper_bound, NEW d \in Searches
    PROVE  GetG(frontier[d], open[d]) + MinTransitionCost(task) <= Optimum
<1> DEFINE G == GetG(frontier[d], open[d])
           min == MinTransitionCost(task)
<1>1. d \in Dir /\ Opposite(d) \in Dir /\ IsTask(task)
  BY SearchesAssumption, OppositeFacts DEF SearchInv, TypeOK, EngineTypeOK
<1>2. Optimum \in Nat /\ Optimum <= INT_MAX /\ Optimum \in Level
  BY OptimumType, IntMaxAssumption DEF Level
<1>3. G \in Nat /\ min \in Nat /\ upper_bound \in Nat /\ upper_bound <= INT_MAX
  BY <1>1, GetGFacts, MinTransitionCostFacts, LevelFacts DEF SearchInv, TypeOK, EngineTypeOK
<1> SUFFICES ASSUME Optimum < G + min PROVE FALSE
  BY <1>2, <1>3
<1>4. PICK s \in State : /\ s \in Source(task, Opposite(d))
                         /\ CostThrough(task, s) = Optimum
                         /\ task.dist[d][s] = Optimum
                         /\ s \in closed[Opposite(d)][0]
  BY FarEnd
<1>5. s \notin closed[d][Optimum]
  <2> SUFFICES ASSUME s \in closed[d][Optimum] PROVE FALSE
    OBVIOUS
  <2>1. upper_bound <= Optimum + 0
    BY <1>1, <1>2, <1>4, MetCosts, LevelFacts
  <2>2. QED
    BY <1>2, <1>3, <2>1
<1>6. s \notin Source(task, d)
  <2> SUFFICES ASSUME s \in Source(task, d) PROVE FALSE
    OBVIOUS
  <2>1. task.dist[d][s] = 0
    BY <1>1, DistanceFacts
  <2>2. s \in closed[d][0]
    BY <1>1 DEF SearchInv, ControlInv, SourceInv
  <2>3. QED
    BY <1>4, <1>5, <2>1, <2>2
<1>7. PICK c \in DOMAIN task.ops : \E p \in State :
              /\ c \in Nat
              /\ Edge(task, d, c, p, s)
              /\ task.dist[d][s] = task.dist[d][p] + c
              /\ CostThrough(task, p) <= CostThrough(task, s)
  <2>1. task.dist[d][s] < INT_MAX
    BY <1>2, <1>3, <1>4, LevelFacts
  <2>2. s \in State \ Source(task, d)
    BY <1>6
  <2>3. QED
    BY <1>1, <2>1, <2>2, CheapestPredecessor
<1>8. PICK p \in State :
              /\ c \in Nat
              /\ Edge(task, d, c, p, s)
              /\ task.dist[d][s] = task.dist[d][p] + c
              /\ CostThrough(task, p) <= CostThrough(task, s)
  BY <1>7
<1>9. min <= c /\ task.dist[d][p] \in Nat /\ CostThrough(task, p) \in Nat
  BY <1>1, MinTransitionCostFacts, DistanceFacts
<1>10. task.dist[d][p] < G /\ CostThrough(task, p) < upper_bound
  BY <1>2, <1>3, <1>4, <1>8, <1>9
<1>11. p \in closed[d][task.dist[d][p]] /\ Expanded(d, task.dist[d][p], p, c)
  BY <1>10, BelowG
<1>12. s \in closed[d][Optimum] \cup open[d][Optimum]
  BY <1>4, <1>8, <1>10, <1>11, FoundByImage
<1>13. s \notin open[d][Optimum]
  BY <1>2, <1>4 DEF SearchInv, ControlInv, SourceInv
<1>14. QED
  BY <1>5, <1>12, <1>13

\* A direction that is stocked has nothing waiting on its level, if every
\* operator costs something.
LEMMA NothingWaits ==
    ASSUME SearchInv, NEW d \in Searches, Stocked(d), ~HasZeroCost(task)
    PROVE  open[d][GetG(frontier[d], open[d])] = {} \/ GetG(frontier[d], open[d]) = INT_MAX
<1>1. CASE Keys(open[d]) = {} /\ frontier[d].phase = "empty"
  BY <1>1 DEF GetG, MinG
<1>2. CASE frontier[d].phase # "empty"
  BY <1>2, GetGFacts DEF SearchInv, ControlInv, StrictInv
<1>3. QED
  BY <1>1, <1>2 DEF Stocked

\* A state at distance getG on a cheapest plan is closed as well, when nothing
\* waits on that level.
LEMMA AtG ==
    ASSUME SearchInv, ExactLevels, Optimum < upper_bound,
           NEW d \in Searches, Stocked(d), ~HasZeroCost(task), NEW x \in State,
           CostThrough(task, x) = Optimum,
           task.dist[d][x] = GetG(frontier[d], open[d]), task.dist[d][x] # 0
    PROVE  x \in closed[d][task.dist[d][x]]
<1>1. d \in Dir /\ IsTask(task)
  BY SearchesAssumption DEF SearchInv, TypeOK, EngineTypeOK
<1>2. /\ task.dist[d][x] \in Nat /\ CostThrough(task, x) \in Nat
      /\ task.dist[d][x] <= CostThrough(task, x)
      /\ x \notin Source(task, d)
  BY <1>1, DistanceFacts, OppositeFacts
<1>3. upper_bound \in Nat /\ upper_bound <= INT_MAX /\ Optimum \in Nat
  BY LevelFacts, OptimumType DEF SearchInv, TypeOK, EngineTypeOK
<1>4. task.dist[d][x] < INT_MAX
  BY <1>2, <1>3, LevelFacts
<1>5. PICK c \in DOMAIN task.ops : \E p \in State :
              /\ c \in Nat
              /\ Edge(task, d, c, p, x)
              /\ task.dist[d][x] = task.dist[d][p] + c
              /\ CostThrough(task, p) <= CostThrough(task, x)
  BY <1>1, <1>2, <1>4, CheapestPredecessor
<1>6. PICK p \in State :
              /\ c \in Nat
              /\ Edge(task, d, c, p, x)
              /\ task.dist[d][x] = task.dist[d][p] + c
              /\ CostThrough(task, p) <= CostThrough(task, x)
  BY <1>5
<1>7. c # 0
  <2>1. MinTransitionCost(task) <= c /\ MinTransitionCost(task) \in Nat
    BY <1>1, MinTransitionCostFacts, LevelFacts
  <2>2. QED
    BY <1>6, <2>1 DEF HasZeroCost
<1>8. task.dist[d][p] \in Nat /\ CostThrough(task, p) \in Nat
  BY <1>1, DistanceFacts, OppositeFacts
<1>9. task.dist[d][p] < task.dist[d][x] /\ CostThrough(task, p) < upper_bound
  BY <1>2, <1>3, <1>6, <1>7, <1>8
<1>10. p \in closed[d][task.dist[d][p]] /\ Expanded(d, task.dist[d][p], p, c)
  BY <1>9, BelowG
<1>11. x \in closed[d][task.dist[d][x]] \cup open[d][task.dist[d][x]]
  BY <1>6, <1>9, <1>10, FoundByImage
<1>12. open[d][task.dist[d][x]] = {}
  BY <1>2, <1>4, NothingWaits, LevelFacts
<1>13. QED
  BY <1>11, <1>12

\* The sum of both directions' getG, plus one if every operator costs
\* something, never passes the optimum while a cheapest plan is missing.  On
\* such a plan, take the last state that the backward search may not have
\* closed: if the forward search had closed it, the edge behind it would have
\* been met; so it is as far from the initial state as the forward search has
\* got, and if it lies on both levels both searches have closed it.
LEMMA SumIsSound ==
    ASSUME SearchInv, ExactLevels, pc # "init", Optimum < upper_bound,
           Bidirectional, Stocked("fw"), Stocked("bw")
    PROVE  GetG(frontier["fw"], open["fw"]) + GetG(frontier["bw"], open["bw"])
              + LesserOf(1, MinTransitionCost(task)) <= Optimum
<1> DEFINE a == GetG(frontier["fw"], open["fw"])
           b == GetG(frontier["bw"], open["bw"])
           min == MinTransitionCost(task)
           e == LesserOf(1, min)
<1>1. /\ "fw" \in Searches /\ "bw" \in Searches /\ "fw" \in Dir /\ "bw" \in Dir
      /\ Opposite("fw") = "bw" /\ Opposite("bw") = "fw"
  BY DEF Bidirectional, Dir, Opposite
<1>2. IsTask(task)
  BY DEF SearchInv, TypeOK, EngineTypeOK
<1>3. a \in Nat /\ b \in Nat /\ min \in Nat
  BY <1>1, <1>2, GetGFacts, MinTransitionCostFacts, LevelFacts
<1>4. Optimum \in Nat /\ upper_bound \in Nat /\ upper_bound <= INT_MAX
  BY OptimumType, LevelFacts DEF SearchInv, TypeOK, EngineTypeOK
<1>5. a + min <= Optimum /\ b + min <= Optimum
  BY <1>1, GetGIsSound
<1>6. e \in {0, 1} /\ e <= min
  BY <1>3 DEF LesserOf
<1>7. ASSUME NEW x \in State
      PROVE  /\ task.dist["fw"][x] \in Nat /\ task.dist["bw"][x] \in Nat
             /\ task.dist["fw"][x] \in Level /\ task.dist["bw"][x] \in Level
             /\ CostThrough(task, x) = task.dist["fw"][x] + task.dist["bw"][x]
             /\ Optimum <= CostThrough(task, x)
             /\ task.rank["bw"] \in [State -> Nat]
             /\ x \in Source(task, "bw") => task.dist["bw"][x] = 0
  BY <1>1, <1>2, DistanceFacts, OptimumIsLeast DEF Optimum
<1> DEFINE Waiting == {x \in State : CostThrough(task, x) <= Optimum /\ b <= task.dist["bw"][x]}
<1>8. task.init \in Waiting
  <2>1. task.init \in State /\ task.init \in Source(task, "fw")
    BY <1>2 DEF IsTask, Source
  <2>2. task.dist["fw"][task.init] = 0
    BY <1>1, <1>2, <2>1, DistanceFacts
  <2>3. QED
    BY <1>3, <1>4, <1>5, <1>7, <2>1, <2>2 DEF Optimum, OptimalCost
<1>9. PICK x \in Waiting : \A y \in Waiting : task.rank["bw"][x] <= task.rank["bw"][y]
  BY <1>7, <1>8, LeastRank
<1>10. CASE a = 0 \/ b = 0
  BY <1>3, <1>4, <1>5, <1>6, <1>10
<1>11. CASE a # 0 /\ b # 0
  <2>1. CostThrough(task, x) = Optimum
    BY <1>4, <1>7, <1>9
  <2>2. x \notin Source(task, "bw") /\ task.dist["bw"][x] < INT_MAX
    BY <1>3, <1>4, <1>7, <1>9, <1>11, <2>1, LevelFacts
  <2>3. PICK c \in DOMAIN task.ops : \E y \in State :
              /\ c \in Nat
              /\ Edge(task, "bw", c, y, x)
              /\ task.dist["bw"][x] = task.dist["bw"][y] + c
              /\ task.rank["bw"][y] < task.rank["bw"][x]
              /\ CostThrough(task, y) <= CostThrough(task, x)
    BY <1>1, <1>2, <2>2, CheapestPredecessor
  <2>4. PICK y \in State :
              /\ c \in Nat
              /\ Edge(task, "bw", c, y, x)
              /\ task.dist["bw"][x] = task.dist["bw"][y] + c
              /\ task.rank["bw"][y] < task.rank["bw"][x]
              /\ CostThrough(task, y) <= CostThrough(task, x)
    BY <2>3
  <2>5. CostThrough(task, y) = Optimum
    BY <1>4, <1>7, <2>1, <2>4
  <2>6. task.dist["bw"][y] < b
    <3>1. task.rank["bw"][y] \in Nat /\ task.rank["bw"][x] \in Nat
      BY <1>7
    <3>2. y \notin Waiting
      BY <1>9, <2>4, <3>1
    <3>3. QED
      BY <1>3, <1>4, <1>7, <2>5, <3>2
  <2>7. CostThrough(task, x) < upper_bound /\ CostThrough(task, y) < upper_bound
    BY <2>1, <2>5
  <2>8. y \in closed["bw"][task.dist["bw"][y]] /\ Expanded("bw", task.dist["bw"][y], y, c)
    BY <1>1, <2>6, <2>7, BelowG
  <2>9. a <= task.dist["fw"][x]
    <3> SUFFICES ASSUME task.dist["fw"][x] < a PROVE FALSE
      BY <1>3, <1>7
    <3>1. x \in closed["fw"][task.dist["fw"][x]] /\ Expanded("fw", task.dist["fw"][x], x, c)
      BY <1>1, <2>7, BelowG
    <3>2. Edge(task, "fw", c, x, y)
      BY <2>4 DEF Edge
    <3>3. x \in task.notMutex["fw"] /\ y \in task.notMutex["bw"]
      BY <1>1, <1>2, <1>4, <2>1, <2>5, PlansAvoidMutexes, LevelFacts
    <3>4. upper_bound <= task.dist["fw"][x] + c + task.dist["bw"][y]
      BY <1>1, <1>7, <2>8, <3>1, <3>2, <3>3 DEF SearchInv, EdgeInv
    <3>5. QED
      BY <1>4, <1>7, <2>1, <2>4, <3>4
  <2>10. a + b <= Optimum
    BY <1>3, <1>4, <1>7, <1>9, <2>1, <2>9
  <2>11. CASE e = 0 \/ a + b < Optimum
    BY <1>3, <1>4, <1>6, <2>10, <2>11
  <2>12. CASE e = 1 /\ a + b = Optimum
    <3>1. task.dist["fw"][x] = a /\ task.dist["bw"][x] = b
      BY <1>3, <1>4, <1>7, <1>9, <2>1, <2>9, <2>12
    <3>2. ~HasZeroCost(task)
      BY <1>3, <1>6, <2>12 DEF HasZeroCost
    <3>3. x \in closed["fw"][a] /\ x \in closed["bw"][b]
      BY <1>1, <1>11, <2>1, <3>1, <3>2, AtG
    <3>4. a \in Level /\ b \in Level
      BY <1>7, <3>1
    <3>5. upper_bound <= a + b
      BY <1>1, <3>3, <3>4, MetCosts
    <3>6. QED
      BY <1>3, <1>4, <2>12, <3>5
  <2>13. QED
    BY <1>3, <1>4, <1>6, <2>10, <2>11, <2>12
<1>12. QED
  BY <1>10, <1>11

-----------------------------------------------------------------------------
(* The lower bound *)

\* Every value that a search passes to setLowerBound.
EstimatesSound ==
    pc # "init" /\ Optimum < upper_bound =>
        /\ \A d \in Searches :
              /\ GetF(frontier[d], open[d]) <= Optimum
              /\ Plus(GetG(frontier[d], open[d]), MinTransitionCost(task)) <= Optimum
        /\ Bidirectional /\ Stocked("fw") /\ Stocked("bw") => BidirectionalF <= Optimum

\* The estimates are sound in every state of the search.
LEMMA EstimatesAreSound == SearchInv /\ ExactLevels => EstimatesSound
<1> SUFFICES ASSUME SearchInv, ExactLevels, pc # "init", Optimum < upper_bound
             PROVE  /\ \A d \in Searches :
                          /\ GetF(frontier[d], open[d]) <= Optimum
                          /\ Plus(GetG(frontier[d], open[d]), MinTransitionCost(task)) <= Optimum
                    /\ Bidirectional /\ Stocked("fw") /\ Stocked("bw") =>
                          BidirectionalF <= Optimum
  BY DEF EstimatesSound
<1>1. Optimum \in Nat /\ Optimum <= INT_MAX
  BY OptimumType
<1>2. MinTransitionCost(task) \in Nat
  BY MinTransitionCostFacts, LevelFacts DEF SearchInv, TypeOK, EngineTypeOK
<1>3. ASSUME NEW d \in Searches
      PROVE  /\ GetF(frontier[d], open[d]) <= Optimum
             /\ Plus(GetG(frontier[d], open[d]), MinTransitionCost(task)) <= Optimum
  <2>1. GetG(frontier[d], open[d]) + MinTransitionCost(task) <= Optimum
    BY GetGIsSound
  <2>2. GetG(frontier[d], open[d]) \in Nat
    BY GetGFacts
  <2>3. QED
    BY <1>1, <1>2, <2>1, <2>2, GetFIsSound, LevelFacts DEF Plus
<1>4. ASSUME Bidirectional, Stocked("fw"), Stocked("bw") PROVE BidirectionalF <= Optimum
  <2> DEFINE a == GetG(frontier["fw"], open["fw"])
             b == GetG(frontier["bw"], open["bw"])
             e == LesserOf(1, MinTransitionCost(task))
             f == GetF(frontier["fw"], open["fw"])
             h == GetF(frontier["bw"], open["bw"])
  <2>1. "fw" \in Searches /\ "bw" \in Searches
    BY <1>4 DEF Bidirectional, Dir
  <2>2. a \in Nat /\ b \in Nat /\ e \in Nat
    BY <1>2, <2>1, GetGFacts DEF LesserOf
  <2>3. a + b + e <= Optimum
    BY <1>4, SumIsSound
  <2>4. f <= Optimum /\ h <= Optimum
    BY <1>3, <2>1
  <2>5. BidirectionalF = GreaterOf(GreaterOf(f, h), Plus(Plus(a, b), e))
    BY DEF BidirectionalF
  <2> HIDE DEF a, b, e, f, h
  <2>6. Plus(Plus(a, b), e) = a + b + e
    BY <1>1, <2>2, <2>3, LevelFacts DEF Plus
  <2>7. QED
    BY <2>3, <2>4, <2>5, <2>6 DEF GreaterOf
<1>5. QED
  BY <1>3, <1>4

\* A task whose initial state is no goal needs at least one operator.
LEMMA OneOperatorAtLeast ==
    ASSUME SearchInv, task.init \notin task.goal
    PROVE  MinTransitionCost(task) <= Optimum
<1>1. IsTask(task) /\ "bw" \in Dir
  BY DEF SearchInv, TypeOK, EngineTypeOK, Dir
<1>2. task.init \in State \ Source(task, "bw")
  BY <1>1 DEF IsTask, Source
<1>3. MinTransitionCost(task) \in Nat /\ MinTransitionCost(task) <= INT_MAX
  BY <1>1, MinTransitionCostFacts, LevelFacts
<1>4. Optimum \in Nat /\ Optimum <= INT_MAX
  BY OptimumType
<1>5. CASE Optimum = INT_MAX
  BY <1>3, <1>5
<1>6. CASE Optimum < INT_MAX
  <2>1. task.dist["bw"][task.init] < INT_MAX
    BY <1>6 DEF Optimum, OptimalCost
  <2>2. PICK c \in DOMAIN task.ops : \E p \in State :
              /\ c \in Nat
              /\ Edge(task, "bw", c, p, task.init)
              /\ task.dist["bw"][task.init] = task.dist["bw"][p] + c
              /\ task.rank["bw"][p] < task.rank["bw"][task.init]
              /\ CostThrough(task, p) <= CostThrough(task, task.init)
    BY <1>1, <1>2, <2>1, CheapestPredecessor
  <2>3. PICK p \in State : Optimum = task.dist["bw"][p] + c /\ c \in Nat
    BY <2>2 DEF Optimum, OptimalCost
  <2>4. task.dist["bw"][p] \in Nat /\ MinTransitionCost(task) <= c
    BY <1>1, DistanceFacts, MinTransitionCostFacts
  <2>5. QED
    BY <1>3, <2>3, <2>4
<1>7. QED
  BY <1>4, <1>5, <1>6, LevelFacts

\* The bounds are sound, and what initialize sets is the cost of one operator.
BoundInv == /\ BoundsSound
            /\ pc = "init" => lower_bound = MinTransitionCost(task)
            /\ status # "IN_PROGRESS" => pc = "step"

\* BoundInv holds at the start.
LEMMA BoundInvInit == Init => BoundInv
BY DEF Init, BoundInv, BoundsSound

\* The first call of step considers the empty plan, and from then on the lower
\* bound is a claim.
LEMMA StepIsSound ==
    ASSUME SearchInv, BoundInv, Step, [CarefulNext(State)]_vars
    PROVE  BoundInv'
<1> USE DEF engine, search, control
<1>1. IsTask(task) /\ upper_bound \in Level
  BY DEF SearchInv, TypeOK, EngineTypeOK
<1>2. /\ pc \in {"init", "step"} /\ UNCHANGED <<task, lower_bound>>
      /\ NewSolutions(EmptyPlan) /\ pc' \in {"step", "bucket"}
      /\ status' # "IN_PROGRESS" => pc' = "step"
  BY DEF Step, StepEngine
<1>3. upper_bound' <= upper_bound /\ upper_bound \in Nat /\ upper_bound' \in Nat
  BY UpperBoundFalls DEF SearchInv
<1>4. Optimum \in Nat /\ Optimum' = Optimum /\ lower_bound \in Nat
  BY <1>2, OptimumType, LevelFacts DEF Optimum, SearchInv, TypeOK, EngineTypeOK
<1>5. BoundsSound'
  <2>1. CASE pc = "step"
    BY <1>2, <1>3, <1>4, <2>1 DEF BoundInv, BoundsSound
  <2>2. CASE pc = "init" /\ task.init \in task.goal
    <3>1. EmptyPlan = {[g |-> 0, h |-> 0, cut |-> {task.init}]}
      BY <2>2 DEF EmptyPlan
    <3>2. EmptyPlan \subseteq Cuts
      BY <1>1, EmptyPlanType
    <3>3. \A sol \in EmptyPlan : upper_bound' <= Cost(sol)
      BY <1>1, <1>2, <3>2, NewSolutionsFacts
    <3>4. upper_bound' <= 0
      BY <3>1, <3>3 DEF Cost
    <3>5. QED
      BY <1>3, <1>4, <3>4 DEF BoundsSound
  <2>3. CASE pc = "init" /\ task.init \notin task.goal
    BY <1>2, <1>4, <2>3, OneOperatorAtLeast DEF BoundInv, BoundsSound
  <2>4. QED
    BY <1>2, <2>1, <2>2, <2>3
<1>6. QED
  BY <1>2, <1>5 DEF BoundInv

\* Every other step hands the driver an estimate, or none.
LEMMA BoundInvNext ==
    SearchInv /\ EstimatesSound /\ EstimatesSound' /\ BoundInv /\ [CarefulNext(State)]_vars
    => BoundInv'
<1> SUFFICES ASSUME SearchInv, EstimatesSound, EstimatesSound', BoundInv,
                    [CarefulNext(State)]_vars
             PROVE  BoundInv'
  OBVIOUS
<1> USE DEF engine, search, control
<1>1. TypeOK /\ EngineTypeOK /\ IsTask(task) /\ BoundsSound
  BY DEF SearchInv, TypeOK, EngineTypeOK, BoundInv
<1>2. Optimum \in Nat /\ Optimum <= INT_MAX /\ INT_MAX \in Nat
  BY OptimumType, LevelFacts
<1>3. upper_bound' <= upper_bound /\ upper_bound \in Nat /\ upper_bound' \in Nat
  BY <1>1, UpperBoundFalls DEF SearchInv
<1>4. CASE Step
  BY <1>4, StepIsSound
<1>5. ASSUME NEW d \in Searches, Exhausted(d) PROVE BoundInv'
  <2>1. /\ pc = "bucket" /\ pc' # "init" /\ task' = task /\ status' = status
        /\ upper_bound' = upper_bound /\ SetLowerBound(INT_MAX)
    BY <1>5 DEF Exhausted, ReturnPoint
  <2>2. GetF(frontier[d], open[d]) = INT_MAX
    BY <1>2, <1>5 DEF Exhausted, GetF, MinG, LesserOf
  <2>3. Optimum < upper_bound' => INT_MAX <= Optimum
    BY <2>1, <2>2 DEF EstimatesSound
  <2>4. BoundsSound'
    BY <1>1, <1>3, <1>2, <2>1, <2>3, BoundRises
  <2>5. QED
    BY <2>1, <2>4 DEF BoundInv
<1>6. ASSUME NEW d \in Searches, Finish(d) PROVE BoundInv'
  <2> DEFINE x == Plus(GetG(frontier[d], open[d]), MinTransitionCost(task))
  <2>1. /\ pc = "drain" /\ pc' # "init" /\ task' = task /\ status' = status
        /\ upper_bound' = upper_bound /\ SetLowerBound(x)
    BY <1>6 DEF Finish, ReturnPoint
  <2>2. x \in Int
    BY <1>1, GetFFacts, MinTransitionCostFacts, PlusFacts DEF TypeOK
  <2>3. Optimum < upper_bound' => x <= Optimum
    BY <2>1 DEF EstimatesSound
  <2> HIDE DEF x
  <2>4. BoundsSound'
    BY <1>1, <1>3, <2>1, <2>2, <2>3, BoundRises
  <2>5. QED
    BY <2>1, <2>4 DEF BoundInv
<1>7. ASSUME NEW d \in Searches, CarefulPop(d, State) PROVE BoundInv'
  <2> DEFINE x == GetF(frontier'[d], open'[d])
  <2>0. PopReady(d)
    BY <1>7 DEF CarefulPop
  <2>1. PICK new : Close(d, new)
    BY <1>7 DEF CarefulPop
  <2>2. /\ pc \in {"bucket", "drain"} /\ pc' # "init" /\ task' = task /\ status' = status
    BY <2>0, <2>1 DEF Close, PopReady, ReturnPoint
  <2>3. SetLowerBound(x)
    BY <1>1, <2>1 DEF Close, TypeOK, GetF, MinTransitionCost
  <2>4. x \in Int
    <3>1. TypeOK'
      BY <1>1, LossyType, CarefulIsLossy
    <3>2. frontier'[d] \in Frontier /\ open'[d] \in Levels
      BY <3>1 DEF TypeOK
    <3>3. QED
      BY <1>1, <3>2, GetFFacts
  <2>5. Optimum < upper_bound' => x <= Optimum
    BY <2>2 DEF EstimatesSound, Optimum, GetF, MinTransitionCost
  <2> HIDE DEF x
  <2>6. BoundsSound'
    BY <1>1, <1>3, <2>2, <2>3, <2>4, <2>5, BoundRises
  <2>7. QED
    BY <2>2, <2>6 DEF BoundInv
<1>8. CASE Return
  <2>1. /\ pc = "return" /\ pc' # "init" /\ task' = task /\ status' = status /\ Bidirectional
        /\ upper_bound' = upper_bound /\ SetLowerBound(BidirectionalF)
    BY <1>8 DEF Return
  <2>2. BidirectionalF \in Int
    BY <1>1, <2>1, BidirectionalFFacts
  <2>3. ASSUME Optimum < upper_bound' PROVE BidirectionalF <= Optimum
    <3>1. ~Solved
      BY <1>1, <1>2, <1>3, <2>1, <2>3, LevelFacts DEF BoundsSound, Solved, TypeOK, EngineTypeOK
    <3>2. Stocked("fw") /\ Stocked("bw")
      BY <2>1, <3>1 DEF SearchInv, ControlInv, StockInv, Bidirectional, Dir
    <3>3. QED
      BY <2>1, <2>3, <3>2 DEF EstimatesSound
  <2>4. BoundsSound'
    BY <1>1, <1>3, <2>1, <2>2, <2>3, BoundRises
  <2>5. QED
    BY <2>1, <2>4 DEF BoundInv
<1>9. ASSUME UNCHANGED <<task, status, lower_bound>>, pc' = pc \/ pc \notin {"init", "step"},
             pc' # "init" \/ pc' = pc
      PROVE  BoundInv'
  <2>1. Optimum' = Optimum /\ lower_bound \in Nat
    BY <1>1, <1>9, LevelFacts DEF Optimum, TypeOK, EngineTypeOK
  <2>2. BoundsSound'
    BY <1>1, <1>2, <1>3, <1>9, <2>1 DEF BoundsSound
  <2>3. QED
    BY <1>9, <2>2 DEF BoundInv, MinTransitionCost
<1>10. ASSUME NEW d \in Searches,
              \/ BucketReady(d) \/ Prepare(d) \/ PrepareTruncated(d)
              \/ Expand(d) \/ ExpandTruncated(d)
       PROVE  BoundInv'
  BY <1>9, <1>10 DEF BucketReady, Prepare, PrepareTruncated, Expand, ExpandTruncated, ReturnPoint
<1>11. CASE Done \/ UNCHANGED vars
  BY <1>9, <1>11 DEF Done, vars
<1>12. QED
  BY <1>4, <1>5, <1>6, <1>7, <1>8, <1>10, <1>11 DEF CarefulNext, CarefulStep

\* The search invariant and that of the driver hold together.
LEMMA BoundInvariant == Spec => [](SearchInv /\ BoundInv)
<1>1. [Next]_vars => [CarefulNext(State)]_vars
  BY NextIsCareful, CarefulGrows
<1>2. Spec => []EstimatesSound
  BY SearchInvariant, EstimatesAreSound, PTL
<1>3. QED
  BY <1>1, <1>2, SearchInvariant, BoundInvInit, BoundInvNext, PTL DEF Spec

\* Each setLowerBound call of each engine justifies its value: the estimate of
\* one direction, the estimate that adds both, min_transition_cost for the
\* first operator, and INT_MAX for a search that has nothing left, also when
\* the sum of two ints wraps around.
THEOREM BoundsAreSound == Spec => []BoundsSound
<1>1. BoundInv => BoundsSound
  BY DEF BoundInv
<1>2. QED
  BY <1>1, BoundInvariant, PTL

-----------------------------------------------------------------------------
(* The answer *)

\* A search never changes the status.
LEMMA OnlyStepAnswers ==
    ASSUME [CarefulNext(State)]_vars
    PROVE  \/ Step
           \/ UNCHANGED <<task, status, upper_bound, sym_cuts>>
           \/ UNCHANGED <<task, status>> /\ pc \notin {"init", "step"}
<1> USE DEF engine, search, control
<1>1. ASSUME NEW d \in Searches, CarefulStep(d, State)
      PROVE  UNCHANGED <<task, status>> /\ pc \notin {"init", "step"}
  BY <1>1 DEF CarefulStep, BucketReady, Exhausted, CarefulPop, PopReady, Close, Prepare,
              PrepareTruncated, Expand, ExpandTruncated, Finish
<1>2. Return => UNCHANGED <<task, status, upper_bound, sym_cuts>>
  BY DEF Return
<1>3. Done \/ UNCHANGED vars => UNCHANGED <<task, status, upper_bound, sym_cuts>>
  BY DEF Done, vars
<1>4. QED
  BY <1>1, <1>2, <1>3 DEF CarefulNext

\* The engine answers in Step only.
LEMMA AnswerOptimalNext ==
    /\ SearchInv /\ SearchInv' /\ BoundInv /\ BoundInv' /\ AnswerOptimal
    /\ [CarefulNext(State)]_vars
    => AnswerOptimal'
<1> SUFFICES ASSUME SearchInv, SearchInv', BoundInv, BoundInv', AnswerOptimal,
                    [CarefulNext(State)]_vars
             PROVE  AnswerOptimal'
  OBVIOUS
<1>1. CASE Step /\ status' # "IN_PROGRESS"
  BY <1>1, Verdict DEF AnswerOptimal, Cost, SearchInv, TypeOK, BoundInv, Step
<1>2. CASE status' = "IN_PROGRESS"
  BY <1>2 DEF AnswerOptimal
<1>3. CASE UNCHANGED <<task, status, upper_bound, sym_cuts>>
  BY <1>3 DEF AnswerOptimal, Optimum, Cost
<1>4. CASE UNCHANGED <<task, status>> /\ pc \notin {"init", "step"}
  BY <1>2, <1>4 DEF BoundInv
<1>5. QED
  BY <1>1, <1>2, <1>3, <1>4, OnlyStepAnswers

\* sym_fw, sym_bw and sym_bd answer with a cheapest plan, and with none only if
\* no plan is cheaper than the user's bound.
THEOREM AnswersAreOptimal == Spec => []AnswerOptimal
<1>1. Init => AnswerOptimal
  BY DEF Init, AnswerOptimal
<1>2. [Next]_vars => [CarefulNext(State)]_vars
  BY NextIsCareful, CarefulGrows
<1>3. QED
  BY <1>1, <1>2, AnswerOptimalNext, BoundInvariant, PTL DEF Spec

-----------------------------------------------------------------------------
(* The engines implement AnytimeBounds *)

\* The lower bound never falls.
LEMMA LowerBoundRises ==
    ASSUME SearchInv, SearchInv', [CarefulNext(State)]_vars
    PROVE  lower_bound <= lower_bound' /\ (pc' = "init" => pc = "init")
<1> USE DEF engine, search, control
<1>1. lower_bound \in Nat /\ lower_bound' \in Nat
  <2>1. lower_bound \in Level /\ lower_bound' \in Level
    BY DEF SearchInv, TypeOK, EngineTypeOK
  <2>2. QED
    BY <2>1, LevelFacts
<1>2. ASSUME NEW x, SetLowerBound(x) PROVE lower_bound <= lower_bound'
  BY <1>1, <1>2 DEF SetLowerBound, GreaterOf
<1>3. ASSUME NEW d \in Searches, CarefulStep(d, State)
      PROVE  lower_bound <= lower_bound' /\ pc' # "init"
  <2>1. CASE Exhausted(d) \/ Finish(d)
    BY <1>2, <2>1 DEF Exhausted, Finish, ReturnPoint
  <2>2. CASE CarefulPop(d, State)
    BY <1>2, <2>2 DEF CarefulPop, Close, ReturnPoint
  <2>3. CASE ~Exhausted(d) /\ ~Finish(d) /\ ~CarefulPop(d, State)
    BY <1>1, <1>3, <2>3 DEF CarefulStep, BucketReady, Prepare, PrepareTruncated, Expand,
                            ExpandTruncated, ReturnPoint
  <2>4. QED
    BY <2>1, <2>2, <2>3
<1>4. Return => lower_bound <= lower_bound' /\ pc' # "init"
  BY <1>2 DEF Return
<1>5. Step => lower_bound' = lower_bound /\ pc' # "init"
  BY DEF Step, StepEngine
<1>6. Done \/ UNCHANGED vars => lower_bound' = lower_bound /\ pc' = pc
  BY DEF Done, vars
<1>7. QED
  BY <1>1, <1>3, <1>4, <1>5, <1>6 DEF CarefulNext

\* Once it has answered, the engine does nothing.
LEMMA AnswerIsFinal ==
    ASSUME [CarefulNext(State)]_vars, status # "IN_PROGRESS", pc = "step"
    PROVE  UNCHANGED vars
<1>1. ~Step
  BY DEF Step, StepEngine
<1>2. ASSUME NEW d \in Searches PROVE ~CarefulStep(d, State)
  BY DEF CarefulStep, BucketReady, Exhausted, CarefulPop, PopReady, Prepare, PrepareTruncated,
         Expand, ExpandTruncated, Finish
<1>3. ~Return
  BY DEF Return
<1>4. QED
  BY <1>1, <1>2, <1>3 DEF CarefulNext, Done

\* A search starts with a state of AnytimeBounds.
LEMMA BoundsInit == Init => Bounds!Init
<1> SUFFICES ASSUME Init PROVE Bounds!Init
  OBVIOUS
<1>1. IsTask(task)
  BY TasksAssumption DEF Init
<1>2. "bw" \in Dir /\ task.init \in State
  BY <1>1 DEF Dir, IsTask
<1>3. OptimalCost(task) \in Level /\ task.bound \in Level
  BY <1>1, <1>2, DistanceFacts DEF IsTask
<1>4. QED
  BY <1>3 DEF Init, Bounds!Init, Bounds!Cost, Level

\* Each step tightens the bounds, answers, or is none of the driver's business.
LEMMA BoundsNext ==
    SearchInv /\ SearchInv' /\ BoundInv /\ BoundInv' /\ [CarefulNext(State)]_vars
    => [Bounds!Next]_(Bounds!vars)
<1> SUFFICES ASSUME SearchInv, SearchInv', BoundInv, BoundInv', [CarefulNext(State)]_vars
             PROVE  [Bounds!Next]_(Bounds!vars)
  OBVIOUS
<1>1. CASE status # "IN_PROGRESS"
  <2>1. UNCHANGED vars
    BY <1>1, AnswerIsFinal DEF BoundInv
  <2>2. QED
    BY <2>1 DEF vars, engine, search, control, Bounds!vars
<1>2. CASE status = "IN_PROGRESS"
  <2>1. task' = task /\ (status' = "IN_PROGRESS" \/ (StepEngine /\ pc' = "step"))
    BY <1>2, OnlyStepAnswers DEF Step, StepEngine
  <2>2. upper_bound' <= upper_bound
    BY UpperBoundFalls DEF SearchInv
  <2>3. lower_bound <= lower_bound' /\ (pc' = "init" => pc = "init")
    BY LowerBoundRises
  <2>4. Bounds!Next
    BY <1>2, <2>1, <2>2, <2>3, BoundsMove DEF SearchInv, TypeOK, BoundInv
  <2>5. QED
    BY <2>4
<1>3. QED
  BY <1>1, <1>2

\* Every behaviour of the engine, seen through its two bounds and its status, is
\* one of AnytimeBounds.
THEOREM EngineIsAnytime == Spec => ImplementsBounds
<1>1. [Next]_vars => [CarefulNext(State)]_vars
  BY NextIsCareful, CarefulGrows
<1>2. Spec => Bounds!Init /\ [][Bounds!Next]_(Bounds!vars)
  BY <1>1, BoundsInit, BoundsNext, BoundInvariant, PTL DEF Spec
<1>3. QED
  BY <1>2, PTL DEF ImplementsBounds, Bounds!Spec
=============================================================================
