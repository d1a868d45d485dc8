------------------------ MODULE MCHeuristicFwSearch ------------------------
(***************************************************************************)
(* Instances of HeuristicFwSearch: each task with all its heuristics.      *)
(***************************************************************************)
EXTENDS HeuristicFwSearch, TaskFamilies, TLC

SixStates == 1 .. 6

WithMode(t, prune_only, window) == [prune_only |-> prune_only, batch_f_window |-> window] @@ t

\* Buckets of one g with several values: some are imaged ahead of their turn
\* and then joined by states that are reached through a third one.
BatchTasks ==
    {WithMode(MakeTask(1, {6}, edges \cup {<<1, 2, 1>>, <<1, 3, 2>>, <<1, 4, 2>>,
                                           <<5, 6, 2>>, <<4, 2, 1>>, <<2, 5, 1>>},
                       "MUTEX_AND", [d \in Dir |-> {3}], INT_MAX),
              FALSE, 2) :
        edges \in EdgeSets({<<2, 4>>, <<3, 5>>, <<4, 6>>}, {1, 2})}

\* Expensive shortcuts that give a first upper bound, a cycle, goals that are
\* unreachable, mutexes on the useless states, and a user bound or none.
PruneTasks ==
    {WithMode(MakeTask(1, {4, 5, 6}, edges \cup {<<3, 2, 1>>}, "MUTEX_AND",
                       [d \in Dir |-> {2, 3}], limit),
              TRUE, 0) :
        edges \in EdgeSets({<<1, 2>>, <<2, 3>>, <<3, 4>>, <<1, 3>>, <<2, 4>>}, {1, 3}),
        limit \in {4, INT_MAX}}

HeuristicTasks == BatchTasks \cup PruneTasks

SmallValues == 0 .. 3
=============================================================================
