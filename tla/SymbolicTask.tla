---------------------------- MODULE SymbolicTask ----------------------------
(***************************************************************************)
(* A planning task as the symbolic search engine sees it after translation *)
(* and transition-relation construction.  A BDD over the task's variables  *)
(* is the set of states it denotes, a Bucket (a vector of BDDs) is the     *)
(* union of its members, and a transition relation is a set of pairs of    *)
(* states, one relation for each operator cost (the std::map keyed by cost *)
(* of SymTransitionRelations).                                             *)
(*                                                                         *)
(* A task is a record with the fields                                      *)
(*   init, goal    the initial state and the set of goal states            *)
(*   ops           cost |-> relation, over the costs some operator has     *)
(*   mutex_type    the option of the same name                             *)
(*   notMutex      direction |-> states no mutex group of it excludes      *)
(*   bound         the option of the same name: plans must cost less       *)
(*   alternating   the option of the same name, of bidirectional search    *)
(*   dist, rank    the certificate described at IsDistance: the program    *)
(*                 has no such field, only the properties mention it       *)
(***************************************************************************)
EXTENDS Integers

CONSTANTS State,    \* the states of all the tasks
          INT_MAX,  \* numeric_limits<int>::max(), also "infinitely far"
          Tasks     \* the tasks an engine may be started on

Dir == {"fw", "bw"}

Opposite(d) == IF d = "fw" THEN "bw" ELSE "fw"

\* Values of an int that holds a cost, a g-value or a bound.
Level == 0 .. INT_MAX

\* Faulty: sums are not bounded by the width of an int.
UnboundedPlus(a, b) == a + b

\* The sum of two ints as the compiled code computes it: in two's complement
\* an overflowing sum wraps around.
Plus(a, b) == IF a + b > INT_MAX THEN a + b - 2 * (INT_MAX + 1) ELSE a + b

Least(S) == CHOOSE x \in S : \A y \in S : x <= y

LesserOf(a, b) == IF a <= b THEN a ELSE b

GreaterOf(a, b) == IF a <= b THEN b ELSE a

-----------------------------------------------------------------------------
(* SymTransitionRelations and SymStateSpaceManager *)

\* x is followed by y when direction d applies an operator of cost c.
Edge(t, d, c, x, y) == IF d = "fw" THEN <<x, y>> \in t.ops[c]
                                   ELSE <<y, x>> \in t.ops[c]

\* Faulty: both directions compute images, neither computes pre-images.
ForwardImage(t, d, c, S) == {y \in State : \E x \in S : Edge(t, "fw", c, x, y)}

\* The (pre-)image of a set of states under the operators of cost c.
Image(t, d, c, S) == {y \in State : \E x \in S : Edge(t, d, c, x, y)}

Source(t, d) == IF d = "fw" THEN {t.init} ELSE t.goal

MinTransitionCost(t) == IF DOMAIN t.ops = {} THEN INT_MAX
                                             ELSE Least(DOMAIN t.ops)

\* Faulty: the zero-cost expansion phase is never entered.
NoZeroCost(t) == FALSE

HasZeroCost(t) == MinTransitionCost(t) = 0

\* With MUTEX_EDELETION the mutexes are part of the transition relations, and
\* only the bucket a direction starts from is filtered explicitly.
FilterMutex(t, d, initialization, S) ==
    IF \/ t.mutex_type = "MUTEX_AND"
       \/ t.mutex_type = "MUTEX_EDELETION" /\ initialization
    THEN S \cap t.notMutex[d]
    ELSE S

-----------------------------------------------------------------------------
(* What a task must satisfy *)

\* dist[d][s] is the cost of a cheapest walk of direction d from its source to
\* s, INT_MAX if there is none: sources are at 0, no edge is shorter than the
\* difference it bridges, and every finite distance is attained by a
\* predecessor of smaller rank (the number of edges of such a walk), so that
\* cycles of zero-cost operators cannot support themselves.
IsDistance(t, d) ==
    /\ t.dist[d] \in [State -> Level]
    /\ t.rank[d] \in [State -> Nat]
    /\ \A s \in Source(t, d) : t.dist[d][s] = 0
    /\ \A c \in DOMAIN t.ops : \A x, y \in State :
          Edge(t, d, c, x, y) => t.dist[d][y] <= t.dist[d][x] + c
    /\ \A y \in State \ Source(t, d) :
          t.dist[d][y] < INT_MAX =>
              \E c \in DOMAIN t.ops : \E x \in State :
                  /\ Edge(t, d, c, x, y)
                  /\ t.dist[d][y] = t.dist[d][x] + c
                  /\ t.rank[d][x] < t.rank[d][y]

\* The mutex groups are invariants: a state they exclude is on no plan, as it
\* cannot be reached or cannot reach the goal.
MutexesAreSound(t) ==
    \A d \in Dir : \A s \in State \ t.notMutex[d] :
        \E e \in Dir : t.dist[e][s] = INT_MAX

IsTask(t) ==
    /\ t.init \in State
    /\ t.goal \subseteq State
    /\ DOMAIN t.ops \subseteq 0 .. (INT_MAX - 1)
    /\ \A c \in DOMAIN t.ops : t.ops[c] \subseteq State \X State
    /\ t.bound \in Level
    /\ t.alternating \in BOOLEAN
    /\ t.mutex_type \in {"MUTEX_NOT", "MUTEX_EDELETION", "MUTEX_AND"}
    /\ \A d \in Dir : t.notMutex[d] \subseteq State /\ IsDistance(t, d)
    /\ MutexesAreSound(t)

ASSUME IntMaxAssumption == INT_MAX \in Nat \ {0}

ASSUME TasksAssumption == \A t \in Tasks : IsTask(t)

\* The cost of a cheapest plan, INT_MAX if the task is unsolvable.
OptimalCost(t) == t.dist["bw"][t.init]

\* The cost of a cheapest walk from init to the goal through s.
CostThrough(t, s) == t.dist["fw"][s] + t.dist["bw"][s]

\* s lies on a plan of optimal cost.
OnOptimalPlan(t, s) == CostThrough(t, s) = OptimalCost(t)
=============================================================================
