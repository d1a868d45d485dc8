----------------------------- MODULE MCBdPrune -----------------------------
(***************************************************************************)
(* Instances of BdPrune.                                                   *)
(***************************************************************************)
EXTENDS BdPrune, TaskFamilies

FourStates == 1 .. 4

\* All abstractions: a state is mapped to the least state of its class.
AllAbstractions ==
    {a \in [State -> State] : \A s \in State : a[s] <= s /\ a[a[s]] = a[s]}

\* A row with shortcuts, where a first plan may be an expensive one, and a state
\* beside it that does not lead to the goal.
PruneTasks ==
    {MakeTask(1, {4}, edges \cup {<<1, 2, 1>>, <<3, 4, 1>>}, "MUTEX_NOT", Unfiltered, limit) :
        edges \in EdgeSets({<<2, 3>>, <<1, 3>>, <<2, 4>>}, {1, 3}),
        limit \in {4, INT_MAX}}
=============================================================================
