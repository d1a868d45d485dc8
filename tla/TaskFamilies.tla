---------------------------- MODULE TaskFamilies ----------------------------
(***************************************************************************)
(* Families of small tasks for model checking, with the distances of their *)
(* states computed from all their short walks.                             *)
(***************************************************************************)
EXTENDS SymbolicTask, FiniteSets

\* All <<s, cost, n>> such that a walk of n <= k edges leads from src to s.
Walks(src, edges) ==
    LET walks[k \in Nat] ==
            IF k = 0 THEN {<<s, 0, 0>> : s \in src}
            ELSE LET W == walks[k - 1]
                 IN W \cup {<<we[2][2], we[1][2] + we[2][3], we[1][3] + 1>> :
                            we \in {x \in W \X edges : x[1][1] = x[2][1]}}
    IN walks[Cardinality(State) - 1]

\* A cheapest of these walks to s, the shortest among them.
CheapestWalk(W, s) ==
    LET to == {w \in W : w[1] = s}
    IN IF to = {} THEN <<s, INT_MAX, INT_MAX>>
       ELSE CHOOSE w \in to : \A v \in to :
                w[2] < v[2] \/ (w[2] = v[2] /\ w[3] <= v[3])

\* The task with the given edges <<from, to, cost>>.  strength is the part of
\* the useless states that the mutexes of a direction know.
MakeTask(init, goal, edges, mutex, strength, limit) ==
    LET costs == {e[3] : e \in edges}
        there == Walks({init}, edges)
        back == Walks(goal, {<<e[2], e[1], e[3]>> : e \in edges})
        walk == {[fw |-> CheapestWalk(there, s), bw |-> CheapestWalk(back, s)] : s \in State}
        useless == {w.fw[1] : w \in {v \in walk : INT_MAX \in {v.fw[2], v.bw[2]}}}
        Of(s) == CHOOSE w \in walk : w.fw[1] = s
    IN [init |-> init, goal |-> goal, bound |-> limit, alternating |-> FALSE,
        ops |-> [c \in costs |-> {<<e[1], e[2]>> : e \in {f \in edges : f[3] = c}}],
        mutex_type |-> mutex,
        notMutex |-> [d \in Dir |-> State \ (useless \cap strength[d])],
        dist |-> [d \in Dir |-> [s \in State |-> Of(s)[d][2]]],
        rank |-> [d \in Dir |-> [s \in State |-> Of(s)[d][3]]]]

Unfiltered == [d \in Dir |-> {}]

\* All edge sets over the given pairs of states in which a pair has at most one
\* edge, of one of the given costs.
EdgeSets(pairs, costs) ==
    {{<<p[1], p[2], f[p]>> : p \in {q \in pairs : f[q] # -1}} :
        f \in [pairs -> costs \cup {-1}]}
=============================================================================
