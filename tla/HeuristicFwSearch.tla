-------------------------- MODULE HeuristicFwSearch --------------------------
(***************************************************************************)
(* The engines sym_fw_pot, sym_fw_pdb and sym_fw_ms: HeuristicFwSearch, a  *)
(* forward search over buckets <<g, v>> in order of f = g + v, under the   *)
(* driver of SymbolicSearch.  The heuristic comes as level sets, one set   *)
(* of states for each value, and a set of dead ends.                       *)
(*                                                                         *)
(* With a window, the image of further buckets of the same g is computed   *)
(* ahead of their turn; these wait in preexpanded for their goal test and  *)
(* for being closed.  With prune_only, buckets are keyed by g alone, and   *)
(* the heuristic only cuts off what cannot lie on a cheaper plan.          *)
(*                                                                         *)
(* One call of SymbolicSearch::step goes through the places                *)
(*   "step"     the driver, which compares the bounds                      *)
(*   "select"   the start of stepImage: the next bucket and its goal test  *)
(*   "expand"   ... at filtering, closing and the image                    *)
(*   "finish"   ... at its last call of setLowerBound                      *)
(***************************************************************************)
EXTENDS SymbolicSearch

CONSTANT Values  \* the finite values a heuristic may take

\* A task has here two more options of the engine as fields: prune_only, and
\* batch_f_window, 0 to switch it off.
HasMode(t) ==
    t.prune_only \in BOOLEAN /\ t.batch_f_window \in Nat /\ (t.prune_only => t.batch_f_window = 0)

ASSUME ModeAssumption == \A t \in Tasks : HasMode(t)

ASSUME ValuesAssumption == Values \subseteq 0 .. (INT_MAX - 1)

VARIABLES
  h,            \* the level sets: state |-> value, INT_MAX for a dead end
  open, preexpanded,
  bucket        \* the bucket stepImage is at work on

search == <<open, preexpanded, bucket>>
vars == <<task, engine, closed, pc, h, search>>

PruneOnly == task.prune_only

BatchWindow == task.batch_f_window

\* The value in the key of a state's bucket.
Value(s) == IF PruneOnly THEN 0 ELSE h[s]

\* A queue holds states with the g they were reached at; its bucket of
\* the key [g, v] consists of the states of value v at g.
Fvalue(e) == e[1] + Value(e[2])

BucketOf(queue, key) == {s \in State : <<key.g, s>> \in queue /\ Value(s) = key.v}

\* What may be queued: never a dead end, never beyond an int.
Entries == {e \in Level \X State : h[e[2]] # INT_MAX /\ Fvalue(e) \in Level}

NoBucket == [g |-> 0, v |-> 0, fresh |-> {}, cached |-> {}]

TypeOK ==
    /\ EngineTypeOK
    /\ pc \in {"init", "step", "select", "expand", "finish"}
    /\ h \in [State -> Level]
    /\ open \subseteq Entries
    /\ preexpanded \subseteq Entries
    /\ bucket \in [g : Level, v : Level, fresh : SUBSET State, cached : SUBSET State]

\* The heuristics of the three engines are consistent and zero on goals, so a
\* state from which the goal can be reached is no dead end.
IsHeuristic(t, f) ==
    /\ \A s \in t.goal : f[s] = 0
    /\ \A c \in DOMAIN t.ops : \A e \in t.ops[c] :
          f[e[2]] # INT_MAX => f[e[1]] <= c + f[e[2]]

-----------------------------------------------------------------------------
(* Initial state *)

\* init exits for tasks with zero-cost operators.  The closed list is empty
\* at first; the list in place of a backward search holds the goal.
Init ==
    /\ task \in {t \in Tasks : ~HasZeroCost(t)}
    /\ h \in {f \in [State -> Values \cup {INT_MAX}] : IsHeuristic(task, f)}
    /\ status = "IN_PROGRESS"
    /\ lower_bound = IF PruneOnly \/ h[task.init] = INT_MAX THEN 0 ELSE h[task.init]
    /\ upper_bound = task.bound
    /\ lower_bound_increased = TRUE
    /\ min_g = 0
    /\ sym_cuts = {}
    /\ closed = [d \in Dir |-> IF d = "fw" THEN NoStates
                                          ELSE [NoStates EXCEPT ![0] = task.goal]]
    /\ pc = "init"
    /\ open = IF h[task.init] = INT_MAX THEN {} ELSE {<<0, task.init>>}
    /\ preexpanded = {}
    /\ bucket = NoBucket

\* init exits if the initial state is a dead end.
Unsolvable ==
    /\ status = "IN_PROGRESS"
    /\ pc = "init"
    /\ h[task.init] = INT_MAX
    /\ status' = "FAILED"
    /\ UNCHANGED <<task, closed, pc, h, search, lower_bound, upper_bound,
                   lower_bound_increased, min_g, sym_cuts>>

Step ==
    /\ pc = "init" => h[task.init] # INT_MAX
    /\ StepEngine
    /\ pc' = IF status' = "IN_PROGRESS" THEN "select" ELSE "step"
    /\ UNCHANGED <<h, search>>

-----------------------------------------------------------------------------
(* select_min, min_open_f and the goal test *)

MinOpenF == IF open \cup preexpanded = {}
            THEN INT_MAX ELSE Least({Fvalue(e) : e \in open \cup preexpanded})

Keys(queue) == {[g |-> e[1], v |-> Value(e[2])] : e \in queue}

KeyF(key) == key.g + key.v

\* Faulty: among buckets of the same f the deepest one is taken.
DeepestMin(queue) ==
    {key \in Keys(queue) : \A other \in Keys(queue) :
        KeyF(key) < KeyF(other) \/ (KeyF(key) = KeyF(other) /\ key.g >= other.g)}

\* select_min: the key of the smallest f, and of the smallest g among these.
SelectMin(queue) ==
    {key \in Keys(queue) : \A other \in Keys(queue) :
        KeyF(key) < KeyF(other) \/ (KeyF(key) = KeyF(other) /\ key.g <= other.g)}

\* Faulty: the bucket is not erased.
KeepBucket(queue, key) == queue

WithoutBucket(queue, key) == {e \in queue : e[1] # key.g \/ Value(e[2]) # key.v}

\* Faulty: what joined a bucket after its image is not imaged.
NoRemainder(fresh, cached) == IF cached = {} THEN fresh ELSE {}

\* A state that was generated again after its bucket was imaged is not imaged
\* twice.
Remainder(fresh, cached) == fresh \ cached

\* The next bucket leaves the queues, is cut with the goal and rid of goal
\* states and duplicates.  That there is one is not a guard: Finish has raised
\* the lower bound to INT_MAX when the queues became empty, so that the driver
\* has answered, and the branch for empty queues is never taken.
Select ==
    /\ pc = "select"
    /\ \E key \in SelectMin(open \cup preexpanded) :
          LET fresh == BucketOf(open, key)
              cached == BucketOf(preexpanded, key)
              live == State \ (ClosedTotal("bw") \cup ClosedTotal("fw"))
          IN /\ SetLowerBound(KeyF(key))
             /\ NewSolutions(CheapestCut("fw", key.g, fresh \cup cached))
             /\ open' = WithoutBucket(open, key)
             /\ preexpanded' = WithoutBucket(preexpanded, key)
             /\ IF lower_bound' >= upper_bound'
                THEN pc' = "step" /\ UNCHANGED bucket
                ELSE /\ pc' = "expand"
                     /\ bucket' = [g |-> key.g, v |-> key.v,
                                   cached |-> cached \cap live,
                                   fresh |-> Remainder(fresh \cap live, cached \cap live)]
    /\ UNCHANGED <<task, status, min_g, closed, h>>

-----------------------------------------------------------------------------
(* Expansion *)

\* Faulty: a plan has to be cheaper by two.
SharpSlice(S, g) ==
    IF PruneOnly /\ upper_bound < INT_MAX
    THEN {s \in S : h[s] <= upper_bound - 2 - g} ELSE S

\* keep_slice: prune_only keeps the states that may lie on a plan cheaper than
\* the best one so far.
Slice(S, g) ==
    IF PruneOnly /\ upper_bound < INT_MAX
    THEN {s \in S : h[s] <= upper_bound - 1 - g} ELSE S

\* filter_mutex of a bucket of a single BDD, which may give up.
Filtered(S, g) == {S, FilterMutex(task, "fw", g = 0, S)}

\* The states of the selected bucket that are left to be closed.
Remaining(cached, fresh) ==
    /\ cached \in Filtered(Slice(bucket.cached, bucket.g), bucket.g)
    /\ \E S \in Filtered(Slice(bucket.fresh, bucket.g), bucket.g) : fresh = S \ cached

\* Nothing is left of the selected bucket.
Discard ==
    /\ pc = "expand"
    /\ Remaining({}, {})
    /\ pc' = "finish"
    /\ bucket' = NoBucket
    /\ UNCHANGED <<task, engine, closed, h, open, preexpanded>>

\* Faulty: buckets of any g join the image.
BatchAnyG ==
    IF BatchWindow = 0 THEN {}
    ELSE {e \in open : Fvalue(e) <= bucket.g + bucket.v + BatchWindow}

\* The buckets of the same g within the f-window of the selected one.
Batch ==
    IF BatchWindow = 0 THEN {}
    ELSE {e \in open : /\ e[1] = bucket.g
                       /\ Fvalue(e) <= bucket.g + bucket.v + BatchWindow}

\* Faulty: the batch is marked as imaged, but does not join the image.
NothingAhead(batch, closedStates) == {{}}

\* The states of these buckets that are imaged ahead.  The mutex filter goes
\* through the buckets, and may give up on any of them.
Ahead(batch, closedStates) ==
    LET ready == {e[2] : e \in batch \ preexpanded} \ (ClosedTotal("bw") \cup closedStates)
        useful == FilterMutex(task, "fw", bucket.g = 0, ready)
    IN {useful \cup {s \in ready : h[s] \in gaveUp} : gaveUp \in SUBSET {h[s] : s \in ready}}

\* Faulty: dead ends are queued.
WithDeadEnds(S, g) ==
    {<<g, s>> : s \in Slice(S, g)}

\* A layer of successors becomes entries of open.
Generated(S, g) ==
    {<<g, s>> : s \in {x \in Slice(S, g) : h[x] # INT_MAX}}

\* The bucket is closed, and its fresh states are imaged together with the
\* batch.  An image that fails ends the program, but no limit is set on it.
\* Bound: the f-values of successors must fit an int.
Expand ==
    /\ pc = "expand"
    /\ \A c \in DOMAIN task.ops : \A v \in Values \cup {0} : bucket.g + c + v < INT_MAX
    /\ \E cached, fresh \in SUBSET (bucket.cached \cup bucket.fresh) :
          /\ Remaining(cached, fresh)
          /\ cached \cup fresh # {}
          /\ closed' = [closed EXCEPT !["fw"][bucket.g] = @ \cup cached \cup fresh]
          /\ LET batch == IF fresh = {} THEN {} ELSE Batch
             IN \E ahead \in Ahead(batch, ClosedTotal("fw") \cup cached \cup fresh) :
                   LET Succ(c) == Generated(Image(task, "fw", c, fresh \cup ahead), bucket.g + c)
                   IN /\ open' = (open \ batch) \cup UNION {Succ(c) : c \in DOMAIN task.ops}
                      /\ preexpanded' = preexpanded \cup batch
    /\ pc' = "finish"
    /\ bucket' = NoBucket
    /\ UNCHANGED <<task, engine, h>>

\* The end of stepImage.
Finish ==
    /\ pc = "finish"
    /\ SetLowerBound(MinOpenF)
    /\ pc' = "step"
    /\ UNCHANGED <<task, status, upper_bound, min_g, sym_cuts, closed, h, search>>

\* The engine has answered.
Done == status # "IN_PROGRESS" /\ UNCHANGED vars

Next == Unsolvable \/ Step \/ Select \/ Discard \/ Expand \/ Finish \/ Done

Spec == Init /\ [][Next]_vars

\* The program is one thread that never waits.
FairSpec == Spec /\ WF_vars(Next)
-----------------------------------------------------------------------------
(* Properties *)

\* A successor of a state whose image was computed, be it closed or imaged
\* ahead of its turn, is not lost: unless it is useless it is found at no
\* larger cost, or the best plan costs no more than any plan through it.
NothingLost ==
    LET Imaged(g) == {s \in State : <<g, s>> \in preexpanded} \cup closed["fw"][g]
        Waiting(k, y) == \/ <<k, y>> \in open \cup preexpanded
                         \/ k = bucket.g /\ y \in bucket.fresh \cup bucket.cached
    IN ~Solved =>
        \A g \in Level : \A c \in DOMAIN task.ops :
            \A s \in (Imaged(g) \cap task.notMutex["fw"]) \ task.goal :
                \A y \in Image(task, "fw", c, {s}) \cap task.notMutex["fw"] :
                    \/ h[y] = INT_MAX
                    \/ (y \in task.goal \/ PruneOnly) /\ upper_bound <= g + c + h[y]
                    \/ \E k \in Level : k <= g + c /\ (Waiting(k, y) \/ y \in closed["fw"][k])

\* The plan of the registered cut can be reconstructed although states are
\* imaged before they are closed: every closed state on a path to the goal, of a
\* cost that fits an int, has its predecessor in the closed list too.
SolutionReconstructible ==
    /\ upper_bound < task.bound =>
          \E sol \in sym_cuts : Cost(sol) = upper_bound /\ sol.cut # {}
    /\ \A sol \in sym_cuts : \A s \in sol.cut :
          s \in task.goal /\ sol.h = 0 /\ Traceable("fw", sol.g, s)
    /\ \A g \in Level : \A s \in closed["fw"][g] :
          g + task.dist["bw"][s] < INT_MAX => Traceable("fw", g, s)

\* Buckets are closed in order of f, and of g among those of the same f,
\* whatever is imaged ahead: the order the effort guarantees are stated for.
SelectionOrder ==
    [][\A g \in Level : \A s \in closed'["fw"][g] \ closed["fw"][g] :
          \A k \in Level : \A r \in closed["fw"][k] :
              \/ Fvalue(<<k, r>>) < Fvalue(<<g, s>>)
              \/ Fvalue(<<k, r>>) = Fvalue(<<g, s>>) /\ k <= g]_vars
=============================================================================
