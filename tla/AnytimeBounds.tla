---------------------------- MODULE AnytimeBounds ----------------------------
(***************************************************************************)
(* What every symbolic engine for a single plan promises: it keeps a lower *)
(* and an upper bound around the cost of a cheapest plan, only ever        *)
(* tightens them, and answers when they meet.  optimum is the cost of a    *)
(* cheapest plan (INFINITY when there is none); bound is the exclusive     *)
(* cost limit the user gave, which is where the upper bound starts.        *)
(***************************************************************************)
EXTENDS Integers

CONSTANT INFINITY

VARIABLES optimum, bound, lb, ub, status

vars == <<optimum, bound, lb, ub, status>>

Cost == 0 .. INFINITY

TypeOK == /\ {optimum, bound, lb, ub} \subseteq Cost
          /\ status \in {"IN_PROGRESS", "SOLVED", "FAILED"}

Init == /\ {optimum, bound} \subseteq Cost
        /\ lb = 0
        /\ ub = bound
        /\ status = "IN_PROGRESS"

\* The lower bound never passes the optimum unless the upper bound already
\* rules out everything the search still misses.
Sound == lb <= optimum \/ ub <= optimum

\* Either bound, or both, become tighter; an upper bound below the user's
\* limit is the cost of a plan.
Tighten == /\ status = "IN_PROGRESS"
           /\ lb' \in lb .. INFINITY
           /\ ub' \in 0 .. ub
           /\ Sound'
           /\ ub' < ub => ub' >= optimum
           /\ UNCHANGED <<optimum, bound, status>>

Answer == /\ status = "IN_PROGRESS"
          /\ lb' \in lb .. INFINITY
          /\ ub' \in 0 .. ub
          /\ Sound'
          /\ ub' < ub => ub' >= optimum
          /\ lb' >= ub'
          /\ status' = IF ub' < bound THEN "SOLVED" ELSE "FAILED"
          /\ UNCHANGED <<optimum, bound>>

\* Without any plan there is nothing to search for.
Refute == /\ status = "IN_PROGRESS"
          /\ optimum = INFINITY
          /\ status' = "FAILED"
          /\ UNCHANGED <<optimum, bound, lb, ub>>

Next == Tighten \/ Answer \/ Refute

Spec == Init /\ [][Next]_vars
=============================================================================
