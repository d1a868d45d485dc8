------------------------- MODULE MCSolutionRegistry -------------------------
(***************************************************************************)
(* Instances of SolutionRegistry.                                          *)
(***************************************************************************)
EXTENDS SolutionRegistry, TaskFamilies, SequencesExt

\* t with its edges grouped into operators: those of equal cost and equal name,
\* in the given order of names.
WithOperators(t, Name(_), Order(_, _)) ==
    LET edges == UNION {{<<c, e>> : e \in t.ops[c]} : c \in DOMAIN t.ops}
        keys == {<<x[1], Name(x[2])>> : x \in edges}
        Earlier(a, b) == a[1] > b[1] \/ (a[1] = b[1] /\ Order(a[2], b[2]))
        OperatorOf(k) == [cost |-> k[1],
                          rel |-> {x[2] : x \in {y \in edges : y[1] = k[1] /\ Name(y[2]) = k[2]}}]
        sorted == SetToSortSeq(keys, Earlier)
    IN t @@ [operators |-> [i \in DOMAIN sorted |-> OperatorOf(sorted[i])], simple |-> FALSE]

Up(a, b) == a < b
Down(a, b) == a > b

\* Operators that move by a fixed distance, and operators that move to a fixed
\* state from several others.
Distance(e) == e[2] - e[1]
Target(e) == e[2]

Operators(tasks) ==
    UNION {{WithOperators(t, Distance, Up), WithOperators(t, Distance, Down),
            WithOperators(t, Target, Up)} : t \in tasks}

\* States 2 and 3 lie on a zero-cost cycle behind the initial state, and a dead
\* end next to the goal keeps the backward search at cost 0.
FiveStates == 1 .. 5

LassoTasks ==
    Operators({MakeTask(1, {4}, edges \cup {<<5, 4, 0>>}, "MUTEX_NOT", Unfiltered, INT_MAX) :
        edges \in EdgeSets({<<1, 2>>, <<2, 3>>, <<3, 2>>, <<2, 4>>}, {0, 1})})

\* The same with a goal that is entered from both states of the cycle, and a
\* way back to the initial state.
ReturnTasks ==
    Operators({MakeTask(1, {4, 5}, edges \cup {<<3, 1, 0>>}, "MUTEX_NOT", Unfiltered, INT_MAX) :
        edges \in EdgeSets({<<1, 2>>, <<2, 3>>, <<2, 4>>, <<3, 5>>}, {0, 1})})

\* The same tasks, to be solved without loops.
Loopless(tasks) ==
    {[t EXCEPT !.simple = TRUE, !.bound = LesserOf(@, SimpleBound(t))] : t \in tasks}

LoopTasks == Loopless(LassoTasks)

CycleTasks == LassoTasks \cup ReturnTasks \cup LoopTasks
=============================================================================
