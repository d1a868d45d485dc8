---------------------------- MODULE MCTopKSearch ----------------------------
(***************************************************************************)
(* Instances of TopKSearch.                                                *)
(***************************************************************************)
EXTENDS TopKSearch, MCSolutionRegistry

ThreeStates == 1 .. 3

FourStates == 1 .. 4

\* The plans of t of at most n operators that cost less than its bound.
PlansOf(t, n) ==
    LET runs[k \in 0 .. n] ==
            IF k = 0 THEN {<<<<>>, t.init, 0>>}
            ELSE LET R == runs[k - 1]
                     Extended(r, i) == {<<Append(r[1], i), e[2], r[3] + t.operators[i].cost>> :
                                            e \in {f \in t.operators[i].rel : f[1] = r[2]}}
                 IN R \cup {x \in UNION {Extended(r, i) : r \in R, i \in DOMAIN t.operators} :
                               x[3] < t.bound}
    IN {r[1] : r \in {x \in runs[n] : x[2] \in t.goal /\ x[3] < t.bound}}

\* t for an engine and a selector.
ManyPlans(t, engineName, quality, selector, num) ==
    t @@ [engine |-> engineName, quality |-> quality,
          selector |-> selector, num_plans |-> num, plan_cost_bound |-> -1,
          original |-> [i \in DOMAIN t.operators |->
              {e \in t.operators[i].rel : e # <<2, 3>>}],
          plans |-> PlansOf(t, MaxPlanLength)]

Exactly == [of |-> 1, by |-> 1]
HalfMore == [of |-> 3, by |-> 2]
Infinity == [of |-> 1, by |-> 0]

\* Three states with a loop before the goal and one behind it.
LoopGraphs(costs, userBound) ==
    {MakeTask(1, {3}, edges \cup {<<2, 3, 1>>}, "MUTEX_NOT", Unfiltered, userBound) :
        edges \in EdgeSets({<<1, 2>>, <<1, 3>>, <<2, 1>>, <<3, 2>>}, costs)}

SelectorTasks ==
    {ManyPlans(WithOperators(t, Target, Up), "symk", Infinity, sel, num) :
        t \in LoopGraphs({1, 2}, 6), sel \in Selectors, num \in {1, 3}}

QualityTasks ==
    {ManyPlans(WithOperators(t, Distance, Up), "symq", q, sel, 4) :
        t \in LoopGraphs({1, 2}, 7), q \in {Exactly, HalfMore},
        sel \in {"top_k", "simple"}}

OneDirectionTasks == SelectorTasks \cup QualityTasks

\* The same for both directions, with zero-cost loops, with and without loops in
\* the plans, and for the plans within a quality.
BothDirectionsTasks ==
    LET zero == {WithOperators(t, Target, Up) :
                    t \in {u \in LoopGraphs({0, 1}, 3) :
                              HasZeroCost(u) /\ Cardinality(u.ops[0]) = 2}}
        unit == {WithOperators(t, Target, Up) : t \in LoopGraphs({1}, 4)}
        positive == {WithOperators(t, Target, Up) : t \in LoopGraphs({1, 3}, 5)}
    IN {ManyPlans(t, "symk", Infinity, "top_k", 3) : t \in zero \cup positive} \cup
       {ManyPlans(t, "symk", Infinity, "unordered", 2) : t \in Loopless(unit)} \cup
       {ManyPlans(t, "symq", HalfMore, "top_k", 3) : t \in unit}

\* The goal cannot be reached, and the states that can be lie on a loop.
LoopWithoutGoal ==
    {ManyPlans(WithOperators(MakeTask(1, {3}, {<<1, 2, 1>>, <<2, 1, 1>>}, "MUTEX_NOT",
                                      Unfiltered, INT_MAX), Target, Up),
               "symk", Infinity, "top_k", 2)}

\* Tasks of which the search of symk_fw takes its open states for useless too early:
\* a zero-cost operator off the way to the goal, which keeps the lower bound at the
\* cost of the registered plan; two plans of the same operators, of which the data
\* base takes one while the states of the other lead on to a loop; and a detour to a
\* plan that has no loops by states that a plan with a loop was found on.
HastyTasks ==
    LET Unmutexed(goal, edges) == MakeTask(1, goal, edges, "MUTEX_NOT", Unfiltered, INT_MAX)
        Asked(t, selector) == ManyPlans(t, "symk", Infinity, selector, 3)
        row == {<<1, 2, 1>>, <<2, 4, 1>>}
        square == <<[cost |-> 2, rel |-> {<<3, 3>>}],
                    [cost |-> 1, rel |-> {<<1, 2>>, <<3, 4>>}],
                    [cost |-> 1, rel |-> {<<1, 3>>, <<2, 4>>}]>>
    IN {Asked(WithOperators(Unmutexed({4}, row \cup {<<2, 2, 3>>, <<3, 3, 0>>}), Target, Up),
              "top_k"),
        Asked([WithOperators(Unmutexed({4}, row \cup {<<2, 3, 2>>, <<3, 2, 3>>, <<1, 3, 9>>}),
                             Target, Up) EXCEPT !.simple = TRUE], "top_k"),
        Asked(Unmutexed({4}, row \cup {<<1, 3, 1>>, <<3, 4, 1>>, <<3, 3, 2>>})
                  @@ [simple |-> FALSE, operators |-> square], "unordered")}
=============================================================================
