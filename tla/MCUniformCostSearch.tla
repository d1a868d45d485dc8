------------------------- MODULE MCUniformCostSearch -------------------------
(***************************************************************************)
(* Instances of UniformCostSearch.                                         *)
(***************************************************************************)
EXTENDS UniformCostSearch, TaskFamilies

\* Three states: every graph with at most one edge between two states, so with
\* cycles, zero-cost cycles, dead ends and unreachable goals.
ThreeStates == 1 .. 3

AllPairs == {p \in ThreeStates \X ThreeStates : p[1] # p[2]}

SmallTasks ==
    {MakeTask(1, goal, edges, "MUTEX_NOT", Unfiltered, INT_MAX) :
        goal \in {{3}, {1, 2}}, edges \in EdgeSets(AllPairs, {0, 1, 2})}

\* Four states in a row with shortcuts and a way back: cheap detours, expensive
\* shortcuts, and plans on which the two directions can meet in any place.
FourStates == 1 .. 4

RowPairs == {<<1, 2>>, <<2, 3>>, <<3, 4>>, <<1, 3>>, <<2, 4>>, <<3, 2>>}

RowTasks ==
    {MakeTask(1, {4}, edges \cup {<<3, 4, 1>>}, "MUTEX_NOT", Unfiltered, INT_MAX) :
        edges \in EdgeSets(RowPairs \ {<<3, 4>>}, {0, 1, 3})}

RowTasksDag ==
    {MakeTask(1, {4}, edges, "MUTEX_NOT", Unfiltered, INT_MAX) :
        edges \in EdgeSets(RowPairs \ {<<3, 2>>}, {0, 1})}

\* Mutexes of either strength, and a user bound around the optimum.
MutexTasks ==
    {MakeTask(1, {3, 4}, edges, mutex, [d \in Dir |-> strength], limit) :
        edges \in EdgeSets({<<1, 2>>, <<2, 3>>, <<2, 4>>, <<4, 2>>}, {0, 1, 2}),
        mutex \in {"MUTEX_EDELETION", "MUTEX_AND"},
        strength \in {{2, 3}, {1, 4}},
        limit \in {0, 3}}

\* The empty plan is a plan.
GoalAtStartTasks ==
    {MakeTask(1, {1, 2}, edges, "MUTEX_NOT", Unfiltered, INT_MAX) :
        edges \in EdgeSets({<<1, 2>>, <<2, 3>>, <<3, 1>>}, {0, 1})}

\* A part of the tasks with the directions taking turns.
BidirectionalTasks ==
    RowTasks \cup GoalAtStartTasks \cup {[t EXCEPT !.alternating = TRUE] : t \in MutexTasks}
=============================================================================
