---------------------------- MODULE MCLevelSets ----------------------------
(***************************************************************************)
(* Instances of LevelSets.                                                 *)
(***************************************************************************)
EXTENDS LevelSets, TaskFamilies, TLC

\* Three variables of two values.
SmallDomain == <<2, 2, 2>>

SmallStates == [1 .. 3 -> 0 .. 1]

\* The edges of an operator with the given preconditions and effects, functions
\* on some of the variables.
EdgesOf(pre, eff, cost) ==
    {<<s, [v \in 1 .. 3 |-> IF v \in DOMAIN eff THEN eff[v] ELSE s[v]], cost>> :
        s \in {x \in SmallStates : \A v \in DOMAIN pre : x[v] = pre[v]}}

\* The second switch can be turned while the first is on, which costs 1.
SwitchEdges == EdgesOf(1 :> 0, 1 :> 1, 1) \cup EdgesOf(1 :> 1 @@ 2 :> 0, 2 :> 1, 2)

\* The third switch is turned on for free, or for a price
\* and before the second, with a way to turn the first off; or never, in which
\* case there is no plan.
FactTasks ==
    {MakeTask(x[1], {s \in SmallStates : s[2] = 1 /\ s[3] = 1}, SwitchEdges \cup x[2],
              "MUTEX_NOT", Unfiltered, INT_MAX) :
        x \in {<<<<0, 0, 0>>, EdgesOf(2 :> 1, 3 :> 1, 0)>>,
               <<<<0, 0, 0>>, EdgesOf(2 :> 0, 3 :> 1, 3) \cup EdgesOf(3 :> 1, 1 :> 0, 1)>>,
               <<<<0, 0, 0>>, {}>>}}

Caps == {-1, 1}

PdbBudgets == {1, 3, 4, 8}
=============================================================================
