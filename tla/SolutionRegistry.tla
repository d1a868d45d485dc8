-------------------------- MODULE SolutionRegistry --------------------------
(***************************************************************************)
(* Plan reconstruction of the single-plan engines: once UniformCostSearch  *)
(* has decided that the registered cut is to be turned into a plan,        *)
(* SymSolutionRegistry walks from the cut through the closed lists, to the *)
(* initial state and to the goal, one operator at a time.                  *)
(*                                                                         *)
(* The search never compares the two: it takes for granted that a cut can  *)
(* be reconstructed.  What reconstruction reads besides the levels of the  *)
(* closed lists are their zero-cost layers, the order in which the states  *)
(* of one level were closed; they are kept here, next to the search.       *)
(***************************************************************************)
EXTENDS UniformCostSearch, Sequences, FiniteSetsExt

CONSTANT MaxPlanLength  \* bound: longer plans are not extended

ASSUME RegistryAssumption == MaxPlanLength \in Nat

\* A plan without loops costs less than this.
SimpleBound(t) ==
    1 + (Cardinality(State) - 1) * Max(DOMAIN t.ops \cup {0})

\* A task has here further fields.  simple is the option of the same name: to
\* find plans without loops only; SymbolicSearch::initialize lowers the bound to
\* what they may cost.  operators are the operators in the order in which
\* expand_actions goes through them.  An operator is a partial function on
\* states, given by its relation.
HasOperators(t) ==
    /\ t.simple \in BOOLEAN
    /\ t.simple => t.bound <= SimpleBound(t)
    /\ t.operators \in Seq([cost : DOMAIN t.ops, rel : SUBSET (State \X State)])
    /\ \A i \in DOMAIN t.operators : \A e, f \in t.operators[i].rel :
          e[1] = f[1] => e = f
    /\ \A i, j \in DOMAIN t.operators :
          i < j => t.operators[i].cost >= t.operators[j].cost
    /\ \A c \in DOMAIN t.ops :
          t.ops[c] = UNION {t.operators[i].rel :
                            i \in {j \in DOMAIN t.operators : t.operators[j].cost = c}}

ASSUME OperatorsAssumption == \A t \in Tasks : HasOperators(t)

VARIABLES
  zeroCostClosed,  \* per direction and level: its layers, in order
  registry,        \* "idle", "reconstruct" in reconstruct_plans, "returned"
  queue,           \* the ReconstructionNodes that wait
  plan             \* the plans in the plan data base, none or one

registryVars == <<registry, queue, plan>>
allVars == <<vars, zeroCostClosed, registryVars>>

\* A ReconstructionNode.  Its predecessors and successors are the operators of
\* the plan found so far, before and behind the states it has still to connect.
Node == [g : Level, h : Level, layer : Nat, states : SUBSET State,
         visited : SUBSET State, fwd : BOOLEAN,
         prefix : Seq(Nat), suffix : Seq(Nat)]

RegistryTypeOK ==
    /\ TypeOK
    /\ zeroCostClosed \in [Searches -> [Level -> Seq(SUBSET State)]]
    /\ registry \in {"idle", "reconstruct", "returned"}
    /\ \A node \in queue : node \in Node /\ node.states # {}
    /\ plan \subseteq Seq(Nat)

-----------------------------------------------------------------------------
(* ClosedList: zero-cost layers *)

\* insert, called for each BDD of the bucket that prepareBucket closes; a
\* bucket of several BDDs makes several layers (bound: two of them).
RecordLayers(d) ==
    \E g \in Level : LET new == closed'[d][g] \ closed[d][g]
                     IN /\ new # {}
                        /\ \E first \in (SUBSET new) \ {{}} :
                              zeroCostClosed' = [zeroCostClosed EXCEPT ![d][g] =
                                  @ \o IF first = new THEN <<new>> ELSE <<first, new \ first>>]

StartStates(d) == IF zeroCostClosed[d][0] = <<>> THEN closed[d][0]
                                                 ELSE Head(zeroCostClosed[d][0])

\* get_zero_cut: the first layer, counted from 0, that S meets.
ZeroCut(d, g, S) ==
    LET layers == zeroCostClosed[d][g]
        met == {i \in DOMAIN layers : layers[i] \cap S # {}}
    IN (IF met = {} THEN Len(layers) + 1 ELSE Least(met)) - 1

-----------------------------------------------------------------------------
(* ReconstructionNode *)

F(node) == node.g + node.h

PlanLength(node) == Len(node.prefix) + Len(node.suffix)

\* Faulty: the zero-cost layers are not compared.
KeyWithoutLayer(node) == <<F(node), node.g, IF node.fwd THEN 1 ELSE 0, -PlanLength(node)>>

\* CompareReconstructionNodes::sort_by_remaining_cost, as a key to be minimal.
Key(node) == <<F(node), node.g, IF node.fwd THEN 1 ELSE 0, node.layer, -PlanLength(node)>>

\* The nodes that may be at the top of the queue.
Top(nodes) ==
    LET Before(a, b) == \E i \in DOMAIN a : /\ a[i] < b[i]
                                            /\ \A j \in 1 .. i - 1 : a[j] = b[j]
    IN {n \in nodes : \A m \in nodes : ~Before(Key(m), Key(n))}

\* The states that operator i leads to from S, or leads to S from.
ApplyOperator(i, S) ==
    {y \in State : \E x \in S : <<x, y>> \in task.operators[i].rel}

RegressOperator(i, S) ==
    {x \in State : \E y \in S : <<x, y>> \in task.operators[i].rel}

\* get_middle_state, or any other state a sequence of operators leads to.
RunPlan(S, ops) ==
    LET after[n \in 0 .. Len(ops)] ==
            IF n = 0 THEN S ELSE ApplyOperator(ops[n], after[n - 1])
    IN after[Len(ops)]

\* calculate_plan_cost
PlanCost(ops) ==
    LET sum[n \in 0 .. Len(ops)] ==
            IF n = 0 THEN 0 ELSE sum[n - 1] + task.operators[ops[n]].cost
    IN sum[Len(ops)]

-----------------------------------------------------------------------------
(* SymSolutionRegistry *)

\* Faulty: every state of level 0 is taken for the initial state.
SwapAtLevelZero(node) == Bidirectional /\ node.fwd /\ node.g = 0

SwapToBwdPhase(node) ==
    /\ Bidirectional
    /\ node.fwd
    /\ node.g = 0
    /\ node.states \cap StartStates("fw") # {}

\* Faulty: no cost is left, so the goal has been reached.
NoCostLeft(node) == F(node) = 0 /\ ~ (Bidirectional /\ node.fwd)

IsSolution(node) ==
    /\ F(node) = 0
    /\ ~ (Bidirectional /\ node.fwd)
    /\ node.states \cap StartStates(IF node.fwd THEN "fw" ELSE "bw") # {}

\* Where reconstruct_plans starts from.
InitialNodes(cuts) ==
    LET Start(sol) == [g |-> sol.g, h |-> sol.h, layer |-> INT_MAX, states |-> sol.cut,
                       visited |-> {}, fwd |-> "fw" \in Searches,
                       prefix |-> <<>>, suffix |-> <<>>]
    IN {Start(sol) : sol \in cuts} \cup
       {[Start(sol) EXCEPT !.states = StartStates("fw"), !.visited = StartStates("fw"),
                           !.fwd = FALSE] :
           sol \in {sol \in cuts : SwapToBwdPhase(Start(sol))}}

\* The closed states that operator i connects with a node, at a cost that is
\* smaller by the operator's.
ClosedStep(node, i) ==
    LET d == IF node.fwd THEN "fw" ELSE "bw"
        new_cost == (IF node.fwd THEN node.g ELSE node.h) - task.operators[i].cost
    IN IF new_cost < 0 THEN {}
       ELSE closed[d][new_cost] \cap
            IF node.fwd THEN RegressOperator(i, node.states)
                        ELSE ApplyOperator(i, node.states)

\* Faulty: visited states are not removed.
KeepVisited(node, S) == S

\* Ignore states we have already visited, if plans are to be simple.
Unvisited(node, S) == IF task.simple THEN S \ node.visited ELSE S

\* The node that operator i leads to.  Its layer is 0 unless the operator is
\* free; the layer is taken before visited states are removed.
NewNode(node, i) ==
    LET cost == task.operators[i].cost
        step == ClosedStep(node, i)
        next == [node EXCEPT !.states = Unvisited(node, step)]
        Layer(d, g) == IF cost = 0 THEN ZeroCut(d, g, step) ELSE 0
    IN IF node.fwd
       THEN [next EXCEPT !.g = @ - cost, !.prefix = <<i>> \o @,
                         !.layer = Layer("fw", node.g - cost)]
       ELSE [next EXCEPT !.h = @ - cost, !.suffix = Append(@, i),
                         !.layer = Layer("bw", node.h - cost)]

\* Faulty: the second phase starts at the initial state again.
PushedAtStart(new) ==
    IF SwapToBwdPhase(new)
    THEN [new EXCEPT !.fwd = FALSE, !.layer = INT_MAX, !.states = StartStates("fw")]
    ELSE new

\* What is pushed for it: when the initial state is reached, a node of the
\* second phase, which starts where the plan so far leads to.
Pushed(new) ==
    IF SwapToBwdPhase(new)
    THEN [new EXCEPT !.fwd = FALSE, !.layer = INT_MAX,
             !.states = RunPlan(StartStates("fw"), new.prefix),
             !.visited = IF task.simple THEN @ \cup StartStates("fw") ELSE @]
    ELSE new

\* The operators behind the first one that makes progress are not looked at.
Progress(node, new) == F(new) < F(node) \/ new.layer < node.layer

\* expand_actions: the nodes it pushes.
ExpandActions(node) ==
    LET made == {i \in DOMAIN task.operators : Unvisited(node, ClosedStep(node, i)) # {}}
    IN {Pushed(NewNode(node, i)) :
          i \in {i \in made : \A j \in made : j < i => ~Progress(node, NewNode(node, j))}}

-----------------------------------------------------------------------------

RegistryInit ==
    /\ Init
    /\ zeroCostClosed = [d \in Searches |-> [g \in Level |->
           IF HasZeroCost(task) /\ g = 0 THEN <<Source(task, d)>> ELSE <<>>]]
    /\ registry = "idle"
    /\ queue = {}
    /\ plan = {}

\* The search runs, and calls construct_cheaper_solutions when it is sure.
Search ==
    /\ registry = "idle"
    /\ status = "IN_PROGRESS"
    /\ Next
    /\ IF HasZeroCost(task) /\ closed' # closed
       THEN \E d \in Searches : RecordLayers(d)
       ELSE UNCHANGED zeroCostClosed
    /\ IF status' = "SOLVED"
       THEN registry' = "reconstruct" /\ queue' = InitialNodes(sym_cuts')
       ELSE UNCHANGED <<registry, queue>>
    /\ UNCHANGED plan

\* For simple plans one state is split off the node and the rest of it waits.
Picked(top) == IF task.simple THEN {{s} : s \in top.states} ELSE {top.states}

Narrowed(top, states) ==
    [top EXCEPT !.states = states,
                !.visited = IF task.simple THEN @ \cup states ELSE @]

Waiting(top, states) ==
    (queue \ {top}) \cup
    {n \in {[top EXCEPT !.states = @ \ states]} : n.states # {}}

\* One iteration of the loop of reconstruct_plans.  The plan data base wants
\* one plan, so the first plan ends the loop.  Bound: MaxPlanLength.
ReconstructNode ==
    /\ registry = "reconstruct"
    /\ \E top \in {node \in Top(queue) : PlanLength(node) <= MaxPlanLength} :
          \E states \in Picked(top) :
             LET node == Narrowed(top, states)
             IN IF IsSolution(node)
                THEN /\ plan' = {node.prefix \o node.suffix}
                     /\ queue' = {}
                     /\ registry' = "returned"
                ELSE /\ queue' = Waiting(top, states) \cup ExpandActions(node)
                     /\ UNCHANGED <<plan, registry>>
    /\ UNCHANGED <<vars, zeroCostClosed>>

\* The queue has run empty.
GiveUp ==
    /\ registry = "reconstruct"
    /\ queue = {}
    /\ registry' = "returned"
    /\ UNCHANGED <<vars, zeroCostClosed, queue, plan>>

\* Nothing is left to do, or the bound is reached (which it never is: otherwise
\* ReconstructionEnds would fail).
Stopped == \/ registry = "returned"
           \/ status = "FAILED"
           \/ \E node \in queue : PlanLength(node) > MaxPlanLength

Answered == Stopped /\ UNCHANGED allVars

RegistryNext == Search \/ ReconstructNode \/ GiveUp \/ Answered

RegistrySpec == RegistryInit /\ [][RegistryNext]_allVars

RegistryFairSpec == RegistrySpec /\ WF_allVars(RegistryNext)
-----------------------------------------------------------------------------
(* Properties *)

\* The plan that is reported can be executed, reaches the goal and has the
\* optimal cost: the two halves, found in two phases through the closed lists
\* of two directions, fit together.
PlanValid ==
    \A ops \in plan : /\ RunPlan({task.init}, ops) \cap task.goal # {}
                      /\ PlanCost(ops) = OptimalCost(task)

\* A registered cut always yields a plan: the operators that are skipped after
\* progress has been made are never needed.
PlanFound == registry = "returned" /\ ~task.simple => plan # {}

\* The same of simple plans: they cost no more, so a solvable task has one.
SimplePlanFound == registry = "returned" /\ task.simple => plan # {}

\* A simple plan visits no state twice.
PlanSimple ==
    \A ops \in plan : \A i, j \in 0 .. Len(ops) :
        task.simple /\ i < j =>
            RunPlan({task.init}, SubSeq(ops, 1, i)) #
            RunPlan({task.init}, SubSeq(ops, 1, j))

\* Reconstruction ends, although nodes may go around zero-cost cycles.
ReconstructionEnds == <>(registry = "returned" \/ status = "FAILED")
=============================================================================
