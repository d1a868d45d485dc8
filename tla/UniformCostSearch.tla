-------------------------- MODULE UniformCostSearch --------------------------
(***************************************************************************)
(* The single-plan engines sym_fw, sym_bw and sym_bd: the UniformCost-     *)
(* Search of each direction, and the BidirectionalSearch that chooses      *)
(* between two of them, under the driver of SymbolicSearch.                *)
(*                                                                         *)
(* One call of SymbolicSearch::step goes through the places                *)
(*   "step"      the driver, which compares the bounds and selects the     *)
(*               direction dir                                             *)
(*   "bucket"    dir's stepImage, at prepareBucket                         *)
(*   "prepare"   ... at frontier.prepare                                   *)
(*   "expand"    ... at frontier.expand and the insertion of successors    *)
(*   "drain"     ... in the loop that pops buckets until one is non-empty  *)
(*   "return"    back in BidirectionalSearch::stepImage                    *)
(*                                                                         *)
(* The four buckets of a Frontier are one set of states and the phase they *)
(* are in: "filter" (in Sfilter/Smerge), "zero" (in Szero and S, the image *)
(* under zero-cost operators is due), "cost" (in S only), "empty".         *)
(***************************************************************************)
EXTENDS SymbolicSearch

CONSTANTS Searches,     \* the directions the engine runs
          MaxIncreases  \* increase_bound calls after which every image fits

ASSUME SearchesAssumption == Searches \subseteq Dir /\ Searches # {}

ASSUME IncreasesAssumption == MaxIncreases \in Nat

VARIABLES
  (* BidirectionalSearch *)
  dir,
  increases,            \* how often increase_bound was called
  (* UniformCostSearch, per direction *)
  frontier, open, lastStepCost,
  failed                \* step_estimation.failed

search == <<frontier, open, closed, lastStepCost>>
control == <<pc, dir, increases, failed>>
vars == <<task, engine, search, control>>

Bidirectional == Searches = Dir

Phases == {"filter", "zero", "cost", "empty"}

Frontier == [g : Level, phase : Phases, states : SUBSET State]

TypeOK ==
    /\ EngineTypeOK
    /\ pc \in {"init", "step", "bucket", "prepare", "expand", "drain", "return"}
    /\ dir \in Dir
    /\ increases \in Nat
    /\ frontier \in [Searches -> Frontier]
    /\ open \in [Searches -> Levels]
    /\ lastStepCost \in [Searches -> BOOLEAN]
    /\ failed \in [Searches -> BOOLEAN]

-----------------------------------------------------------------------------
(* OpenList and Frontier: the queries the searches use *)

Keys(levels) == {g \in Level : levels[g] # {}}

\* OpenList::minG
MinG(op) == IF Keys(op) = {} THEN INT_MAX ELSE Least(Keys(op))

\* UniformCostSearch::getG, of a direction with frontier fr and open list op
GetG(fr, op) == IF fr.phase = "empty" THEN MinG(op) ELSE fr.g

\* Faulty: what the frontier still generates is overlooked.
OpenOnlyGetF(fr, op) == MinG(op)

\* OpenList::minNextG, which is UniformCostSearch::getF
GetF(fr, op) ==
    LesserOf(MinG(op), IF fr.phase = "empty" THEN INT_MAX
                       ELSE Plus(fr.g, MinTransitionCost(task)))

\* Faulty: every operator is taken to cost at least one.
UnitCostBidirectionalF ==
    Plus(Plus(GetG(frontier["fw"], open["fw"]), GetG(frontier["bw"], open["bw"])), 1)

\* BidirectionalSearch::getF
BidirectionalF ==
    LET G(d) == GetG(frontier[d], open[d])
        F(d) == GetF(frontier[d], open[d])
    IN GreaterOf(GreaterOf(F("fw"), F("bw")),
                 Plus(Plus(G("fw"), G("bw")), LesserOf(1, MinTransitionCost(task))))

Initialization(d) == frontier[d].g = 0 /\ lastStepCost[d]

-----------------------------------------------------------------------------
(* Initial state: SymbolicUniformCostSearch::initialize *)

\* The closed list of a direction that is not searched is the perfect
\* heuristic of the other one, seeded with the states that one must reach.
Init ==
    /\ task \in Tasks
    /\ status = "IN_PROGRESS"
    /\ lower_bound = MinTransitionCost(task)
    /\ upper_bound = task.bound
    /\ lower_bound_increased = TRUE
    /\ min_g = 0
    /\ sym_cuts = {}
    /\ pc = "init"
    /\ dir = IF Bidirectional THEN "bw" ELSE CHOOSE d \in Searches : TRUE
    /\ increases = 0
    /\ frontier = [d \in Searches |->
                     [g |-> 0, phase |-> "filter", states |-> Source(task, d)]]
    /\ open = [d \in Searches |-> NoStates]
    /\ closed = [d \in Dir |-> [NoStates EXCEPT ![0] = Source(task, d)]]
    /\ lastStepCost = [d \in Searches |-> TRUE]
    /\ failed = [d \in Searches |-> FALSE]

-----------------------------------------------------------------------------
(* BidirectionalSearch::selectBestDirection, at the end of SymbolicSearch::step *)

\* Faulty: the limits are not raised when both directions have failed.
SelectWithoutIncrease ==
    IF ~Bidirectional THEN UNCHANGED <<dir, increases, failed>>
    ELSE /\ dir' \in {d \in Dir : failed[d] => failed[Opposite(d)]}
         /\ UNCHANGED <<increases, failed>>

\* BidirectionalSearch::selectBestDirection.  The estimates compare measured
\* times, so between two directions neither of which failed either may be
\* chosen.  dir starts as "bw" so that alternation starts with "fw".
SelectDirection ==
    IF ~Bidirectional THEN UNCHANGED <<dir, increases, failed>>
    ELSE IF task.alternating
    THEN dir' = Opposite(dir) /\ UNCHANGED <<increases, failed>>
    ELSE IF failed["fw"] /\ failed["bw"]
    THEN /\ increases' = increases + 1
         /\ failed' = [failed EXCEPT !["bw"] = FALSE]
         /\ dir' = "fw"
    ELSE /\ dir' \in {d \in Dir : ~failed[d]}
         /\ UNCHANGED <<increases, failed>>

Step ==
    /\ StepEngine
    /\ IF status' = "IN_PROGRESS"
       THEN SelectDirection /\ pc' = "bucket"
       ELSE pc' = "step" /\ UNCHANGED <<dir, increases, failed>>
    /\ UNCHANGED <<frontier, open, lastStepCost>>

-----------------------------------------------------------------------------
(* UniformCostSearch::stepImage of the selected direction *)

\* Only the bidirectional search has work left when stepImage returns.
ReturnPoint == IF Bidirectional THEN "return" ELSE "step"

\* The frontier still holds states: prepareBucket has nothing to do.
BucketReady(d) ==
    /\ pc = "bucket"
    /\ dir = d
    /\ frontier[d].phase # "empty"
    /\ pc' = IF Solved THEN ReturnPoint ELSE "prepare"
    /\ UNCHANGED <<task, engine, search, dir, increases, failed>>

\* provable_no_more_plans: neither a frontier nor an open bucket is left.
Exhausted(d) ==
    /\ pc = "bucket"
    /\ dir = d
    /\ frontier[d].phase = "empty"
    /\ Keys(open[d]) = {}
    /\ SetLowerBound(INT_MAX)
    /\ pc' = ReturnPoint
    /\ UNCHANGED <<task, search, dir, increases, failed,
                   status, upper_bound, min_g, sym_cuts>>

\* Faulty: states that were closed while the bucket waited stay in it.
KeepDuplicates(d, g, bucket) == FilteredInPart(d, g = 0 /\ lastStepCost[d], bucket)

\* filterFrontier: duplicates and mutex states go.
FilterFrontier(d, g, bucket) ==
    FilteredInPart(d, g = 0 /\ lastStepCost[d], bucket \ ClosedTotal(d))

\* prepareBucket with an empty frontier and a bucket to pop.
PopReady(d) ==
    /\ pc \in {"bucket", "drain"}
    /\ dir = d
    /\ frontier[d].phase = "empty"
    /\ Keys(open[d]) # {}

\* The cuts of the cheapest open bucket with the opposite direction.
PoppedCuts(d) == CheapestCuts(d, MinG(open[d]), open[d][MinG(open[d])])

\* What the cut with the opposite direction and filterFrontier leave of it.
Popped(d) ==
    FilterFrontier(d, MinG(open[d]), open[d][MinG(open[d])] \ ClosedTotal(Opposite(d)))

\* The cheapest open bucket is popped and cut, and what is left of it, new,
\* becomes the frontier and is closed.
Close(d, new) ==
    /\ LET g == MinG(open[d])
           rest == [open[d] EXCEPT ![g] = {}]
           fr == [g |-> g, states |-> new,
                  phase |-> IF new = {} THEN "empty" ELSE "filter"]
       IN /\ NewSolutions(PoppedCuts(d))
          /\ frontier' = [frontier EXCEPT ![d] = fr]
          /\ closed' = IF lastStepCost[d] /\ g = 0 THEN closed
                       ELSE [closed EXCEPT ![d][g] = @ \cup new]
          /\ SetLowerBound(GetF(fr, rest))
          /\ SetMinG(GetG(fr, rest))
          /\ open' = [open EXCEPT ![d] = rest]
    /\ pc' = IF pc = "drain" THEN "drain"
             ELSE IF lower_bound' >= upper_bound' THEN ReturnPoint ELSE "prepare"
    /\ UNCHANGED <<task, status, lastStepCost, dir, increases, failed>>

Pop(d) == PopReady(d) /\ \E new \in Popped(d) : Close(d, new)

\* The image limits only bind the bidirectional search, and no longer once
\* they have been raised often enough.
MayTruncate == Bidirectional /\ increases < MaxIncreases

\* frontier.prepare
Prepare(d) ==
    /\ pc = "prepare"
    /\ dir = d
    /\ IF frontier[d].phase = "filter"
       THEN frontier' = [frontier EXCEPT
                ![d].states = FilterMutex(task, d, Initialization(d), @),
                ![d].phase = IF HasZeroCost(task) THEN "zero" ELSE "cost"]
       ELSE UNCHANGED frontier
    /\ pc' = "expand"
    /\ UNCHANGED <<task, engine, open, closed, lastStepCost, dir, increases, failed>>

\* frontier.prepare runs out of time or nodes (FILTER_MUTEX) and is resumed by
\* the next stepImage of this direction; a part may have been filtered.
PrepareTruncated(d) ==
    /\ pc = "prepare"
    /\ dir = d
    /\ frontier[d].phase = "filter"
    /\ MayTruncate
    /\ \E S \in FilteredInPart(d, Initialization(d), frontier[d].states) :
          frontier' = [frontier EXCEPT ![d].states = S]
    /\ failed' = [failed EXCEPT ![d] = TRUE]
    /\ pc' = ReturnPoint
    /\ UNCHANGED <<task, engine, open, closed, lastStepCost, dir, increases>>

\* The operator costs of an image in the given phase.
CostsOf(phase) == {c \in DOMAIN task.ops : phase = "zero" <=> c = 0}

\* The cuts of the successors with the opposite direction.
ImageCuts(d) ==
    UNION {CheapestCuts(d, frontier[d].g + c, Image(task, d, c, frontier[d].states)) :
           c \in CostsOf(frontier[d].phase)}

\* frontier.expand and what stepImage does with its result: the successors of
\* each cost are cut with the opposite direction, rid of the states it has
\* closed, and put on open.  Bound: the next g-values must fit an int.
Expand(d) ==
    LET fr == frontier[d]
        Succ(c) == Image(task, d, c, fr.states)
        costs == CostsOf(fr.phase)
    IN /\ pc = "expand"
       /\ dir = d
       /\ \A c \in costs : fr.g + c < INT_MAX
       /\ NewSolutions(ImageCuts(d))
       /\ open' = [open EXCEPT ![d] = [g \in Level |->
             open[d][g] \cup
             UNION {Succ(c) \ ClosedTotal(Opposite(d)) : c \in {k \in costs : fr.g + k = g}}]]
       /\ frontier' = [frontier EXCEPT ![d] =
             IF fr.phase = "zero" THEN [fr EXCEPT !.phase = "cost"]
                                  ELSE [fr EXCEPT !.phase = "empty", !.states = {}]]
       /\ lastStepCost' = [lastStepCost EXCEPT ![d] = FALSE]
       /\ failed' = [failed EXCEPT ![d] = FALSE]
       /\ pc' = "drain"
       /\ UNCHANGED <<task, status, lower_bound, lower_bound_increased, min_g,
                      closed, dir, increases>>

\* The image runs out of time or nodes: the frontier keeps what it held.
ExpandTruncated(d) ==
    /\ pc = "expand"
    /\ dir = d
    /\ frontier[d].phase # "empty"
    /\ MayTruncate
    /\ failed' = [failed EXCEPT ![d] = TRUE]
    /\ pc' = "drain"
    /\ UNCHANGED <<task, engine, search, dir, increases>>

\* The end of stepImage, once the popping loop is over.
Finish(d) ==
    /\ pc = "drain"
    /\ dir = d
    /\ frontier[d].phase # "empty" \/ Keys(open[d]) = {}
    /\ SetLowerBound(Plus(GetG(frontier[d], open[d]), MinTransitionCost(task)))
    /\ pc' = ReturnPoint
    /\ UNCHANGED <<task, search, dir, increases, failed,
                   status, upper_bound, min_g, sym_cuts>>

\* The end of BidirectionalSearch::stepImage.
Return ==
    /\ pc = "return"
    /\ Bidirectional
    /\ SetLowerBound(BidirectionalF)
    /\ SetMinG(Plus(GetG(frontier["fw"], open["fw"]), GetG(frontier["bw"], open["bw"])))
    /\ pc' = "step"
    /\ UNCHANGED <<task, search, dir, increases, failed,
                   status, upper_bound, sym_cuts>>

\* The engine has answered.
Done == status # "IN_PROGRESS" /\ UNCHANGED vars

StepImage(d) == \/ BucketReady(d) \/ Exhausted(d) \/ Pop(d)
                \/ Prepare(d) \/ PrepareTruncated(d)
                \/ Expand(d) \/ ExpandTruncated(d)
                \/ Finish(d)

Next == \/ Step
        \/ \E d \in Searches : StepImage(d)
        \/ Return
        \/ Done

Spec == Init /\ [][Next]_vars

\* The program is one thread that never waits.
FairSpec == Spec /\ WF_vars(Next)
-----------------------------------------------------------------------------
(* Properties *)

\* The image of s under the operators of cost c has been computed.
Expanded(d, g, s, c) ==
    ~ /\ s \in frontier[d].states
      /\ g = frontier[d].g
      /\ \/ frontier[d].phase \in {"filter", "zero"}
         \/ frontier[d].phase = "cost" /\ c # 0

\* No successor of an expanded state is lost: it is closed or open at no
\* larger cost, a mutex excludes it, or it was met by the opposite direction
\* and the plan through it was registered.
NothingLost ==
    \A d \in Searches : \A g \in Level : \A c \in DOMAIN task.ops :
        \A s \in closed[d][g] \cap task.notMutex[d] : Expanded(d, g, s, c) =>
            \A y \in Image(task, d, c, {s}) \cap task.notMutex[d] :
                \E k \in Level :
                    \/ k <= g + c /\ y \in closed[d][k] \cup open[d][k]
                    \/ upper_bound <= g + c + k /\ y \in closed[Opposite(d)][k]

\* A level of a closed list is complete before the next one is opened, and no
\* state is closed on two levels: what reconstruction reads never changes
\* behind the frontier.
ClosedInOrder ==
    [][\A d \in Dir : \A g \in Level : closed'[d][g] # closed[d][g] =>
          /\ \A k \in Level : k > g => closed[d][k] = {}
          /\ (closed'[d][g] \ closed[d][g]) \cap ClosedTotal(d) = {}]_vars

\* A state is closed after a state it is reached from: zero-cost cycles cannot
\* vouch for each other, so tracing a plan back through the closed lists ends
\* at a source.
ClosedAfterPredecessor ==
    [][\A d \in Dir : \A g \in Level : \A s \in closed'[d][g] \ closed[d][g] :
          Traceable(d, g, s)]_vars
=============================================================================
