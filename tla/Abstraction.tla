---------------------------- MODULE Abstraction ----------------------------
(***************************************************************************)
(* Abstractions of a task and the distances in them, from which the level  *)
(* sets of the width-bounded heuristics are made.  An abstraction is a     *)
(* function from states to abstract states; one of these is followed by    *)
(* another if a state in the one is followed by a state in the other.      *)
(***************************************************************************)
EXTENDS SymbolicTask, FiniteSets

\* Variables have finite domains.
ASSUME StatesAssumption == IsFiniteSet(State)

\* The pairs <<abstract state, cost>> of S with the least cost for their state.
Nearest(S) == {p \in S : \A q \in S : q[1] = p[1] => p[2] <= q[2]}

\* The transitions of the abstraction, the way direction d goes through them.
Arcs(t, a, d) ==
    UNION {{IF d = "fw" THEN <<a[e[1]], c, a[e[2]]>> ELSE <<a[e[2]], c, a[e[1]]>> :
            e \in t.ops[c]} : c \in DOMAIN t.ops}

\* Every arc is relaxed once.
Relaxed(arcs, near) ==
    Nearest(near \cup UNION {{<<arc[3], p[2] + arc[2]>> :
                               arc \in {r \in arcs : r[1] = p[1]}} : p \in near})

\* The abstract cost of reaching the abstract state of s from the sources of
\* direction d: init distances for "fw" and goal distances for "bw".  As many
\* rounds as there are states find all of them.
AbstractDistance(t, a, d) ==
    LET arcs == Arcs(t, a, d)
        near[n \in 0 .. Cardinality(State)] ==
            IF n = 0 THEN {<<a[s], 0>> : s \in Source(t, d)} ELSE Relaxed(arcs, near[n - 1])
        last == near[Cardinality(State)]
    IN [s \in State |-> Least({INT_MAX} \cup {p[2] : p \in {q \in last : q[1] = a[s]}})]

\* What prunes a direction is the distance to where it is headed.
Estimates(t, a) == [d \in Dir |-> AbstractDistance(t, a, Opposite(d))]

\* v is zero on the sources of direction d, and no operator leads away from them
\* by more than it costs.
IsConsistent(t, d, v) ==
    /\ v \in [State -> Level]
    /\ \A s \in Source(t, d) : v[s] = 0
    /\ \A c \in DOMAIN t.ops : \A x, y \in State : Edge(t, d, c, x, y) => v[y] <= v[x] + c
=============================================================================
