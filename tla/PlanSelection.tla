---------------------------- MODULE PlanSelection ----------------------------
(***************************************************************************)
(* The plan data base of the engines that look for many plans, and the six *)
(* plan selectors that decide which of the reconstructed plans they accept.*)
(*                                                                         *)
(* A task has here further options: the selector and its num_plans, the    *)
(* plan_cost_bound of iterative_cost, and, for validation, the relations   *)
(* that the operators have in the original task.                           *)
(***************************************************************************)
EXTENDS SolutionRegistry

Selectors == {"top_k", "top_k_even", "unordered", "simple", "iterative_cost", "validation"}

HasSelector(t) ==
    /\ t.selector \in Selectors
    /\ t.num_plans \in Nat \ {0}
    /\ t.plan_cost_bound \in -1 .. INT_MAX
    /\ DOMAIN t.original = DOMAIN t.operators

ASSUME SelectorAssumption == \A t \in Tasks : HasSelector(t)

\* The accepted plans are the variable plan of SolutionRegistry.  Only whether a
\* plan is among them is ever asked, so hash table and hash value are left out.
VARIABLE rejected

-----------------------------------------------------------------------------

StatesOnPath(ops) ==
    UNION {RunPlan({task.init}, SubSeq(ops, 1, i)) : i \in 0 .. Len(ops)}

\* No state is visited twice.
IsSimple(ops) == Cardinality(StatesOnPath(ops)) = Len(ops) + 1

\* In the original task every operator is applicable and the goal is reached.
IsValidPlan(ops) ==
    \E s \in [0 .. Len(ops) -> State] :
        /\ s[0] = task.init
        /\ \A n \in 1 .. Len(ops) : <<s[n - 1], s[n]>> \in task.original[ops[n]]
        /\ s[Len(ops)] \in task.goal

\* The selector unordered compares the sorted plans.
SamePlan(p, q) ==
    IF task.selector = "unordered"
    THEN \A i \in DOMAIN task.operators :
            Cardinality({n \in DOMAIN p : p[n] = i}) = Cardinality({n \in DOMAIN q : q[n] = i})
    ELSE p = q

HasAcceptedPlan(p) == \E q \in plan : SamePlan(p, q)

\* The value of most_expensive_plan_cost, given the accepted plans.
MostExpensive(accepted) == Max({PlanCost(p) : p \in accepted} \cup {task.plan_cost_bound})

\* What a selector wants of a plan that it has not accepted before.
Acceptable(p) ==
    CASE task.selector \in {"top_k", "unordered"} -> TRUE
      [] task.selector = "top_k_even" -> Len(p) % 2 = 0
      [] task.selector = "simple" -> IsSimple(p)
      [] task.selector = "validation" -> IsValidPlan(p)
      [] task.selector = "iterative_cost" -> PlanCost(p) > MostExpensive(plan)

\* add_plan.  The plans that iterative_cost does not want are not remembered.
AddPlan(p) ==
    LET new == ~HasAcceptedPlan(p)
    IN /\ plan' = IF new /\ Acceptable(p) THEN plan \cup {p} ELSE plan
       /\ rejected' = IF new /\ ~Acceptable(p) /\ task.selector # "iterative_cost"
                      THEN rejected \cup {p} ELSE rejected

FoundEnoughPlans(accepted) == Cardinality(accepted) >= task.num_plans

\* reconstruct_solutions: whether further plans of the given cost are wanted.
ReconstructSolutions(accepted, cost) ==
    /\ ~FoundEnoughPlans(accepted)
    /\ task.selector = "iterative_cost" => MostExpensive(accepted) < cost

\* get_states_accepted_goal_path.  iterative_cost lacks anytime_completness.
StatesOnGoalPaths ==
    IF task.selector = "iterative_cost" THEN State
    ELSE UNION {StatesOnPath(p) : p \in plan \cup rejected}
=============================================================================
