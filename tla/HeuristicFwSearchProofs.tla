----------------------- MODULE HeuristicFwSearchProofs -----------------------
(***************************************************************************)
(* sym_fw_pot, sym_fw_pdb and sym_fw_ms are well typed, sound and optimal  *)
(* for every consistent heuristic: whatever is imaged ahead of order, and  *)
(* whatever the slice of prune_only cuts off, buckets are closed in the    *)
(* order of f, no state of a plan that is still of use is lost, the answer *)
(* is right, and its plan can be reconstructed from the closed list.       *)
(***************************************************************************)
EXTENDS HeuristicFwSearch, SymbolicSearchLemmas

-----------------------------------------------------------------------------
(* Type correctness *)

\* A queued entry has an int f-value, which is the sum in its bucket's key.
LEMMA EntryFacts ==
    ASSUME h \in [State -> Level], NEW e \in Entries
    PROVE  /\ e[1] \in Level /\ e[2] \in State
           /\ Value(e[2]) \in Level
           /\ Fvalue(e) \in Level
           /\ Fvalue(e) = e[1] + Value(e[2])
<1>1. e[1] \in Level /\ e[2] \in State /\ Fvalue(e) \in Level
  BY DEF Entries
<1>2. Value(e[2]) \in Level
  BY <1>1, IntMaxAssumption DEF Value, Level
<1>3. QED
  BY <1>1, <1>2 DEF Fvalue

\* The key that is selected belongs to an entry.
LEMMA SelectMinType ==
    ASSUME h \in [State -> Level], NEW queue \in SUBSET Entries, NEW key \in SelectMin(queue)
    PROVE  key.g \in Level /\ key.v \in Level /\ KeyF(key) \in Level
<1>1. PICK e \in queue : key = [g |-> e[1], v |-> Value(e[2])]
  BY DEF SelectMin, Keys
<1>2. QED
  BY <1>1, EntryFacts DEF KeyF

\* min_open_f is an int, also when the queues are empty.
LEMMA MinOpenFType ==
    ASSUME TypeOK
    PROVE  MinOpenF \in Level
<1> DEFINE queue == open \cup preexpanded
           values == {Fvalue(e) : e \in queue}
<1>1. queue \subseteq Entries /\ h \in [State -> Level]
  BY DEF TypeOK
<1>2. CASE queue = {}
  BY <1>2, IntMaxAssumption DEF MinOpenF, Level
<1>3. CASE queue # {}
  <2>1. values \subseteq Level
    BY <1>1, EntryFacts
  <2>2. values \in SUBSET Nat /\ values # {}
    BY <1>3, <2>1, IntMaxAssumption DEF Level
  <2>3. Least(values) \in values
    BY <2>2, NatHasLeast
  <2>4. QED
    BY <1>3, <2>1, <2>3 DEF MinOpenF
<1>4. QED
  BY <1>2, <1>3

\* What is left of the selected bucket is a part of it.
LEMMA RemainingType ==
    ASSUME TypeOK, NEW cached, NEW fresh, Remaining(cached, fresh)
    PROVE  cached \in SUBSET State /\ fresh \in SUBSET State
<1>1. bucket.cached \in SUBSET State /\ bucket.fresh \in SUBSET State
  BY DEF TypeOK
<1>2. \A S \in SUBSET State : Slice(S, bucket.g) \in SUBSET State
  BY DEF Slice
<1>3. \A S \in SUBSET State : Filtered(S, bucket.g) \subseteq SUBSET State
  BY DEF Filtered, FilterMutex
<1>4. cached \in SUBSET State
  BY <1>1, <1>2, <1>3 DEF Remaining
<1>5. PICK S \in Filtered(Slice(bucket.fresh, bucket.g), bucket.g) : fresh = S \ cached
  BY DEF Remaining
<1>6. S \in SUBSET State
  BY <1>1, <1>2, <1>3, <1>5
<1>7. QED
  BY <1>4, <1>5, <1>6

\* Successors are queued with int f-values as long as the bound of Expand holds.
LEMMA GeneratedType ==
    ASSUME TypeOK, h \in [State -> Values \cup {INT_MAX}],
           NEW g \in Nat, \A v \in Values : g + v < INT_MAX, g < INT_MAX,
           NEW S \in SUBSET State
    PROVE  Generated(S, g) \subseteq Entries
<1> SUFFICES ASSUME NEW s \in S, h[s] # INT_MAX
             PROVE  <<g, s>> \in Entries
  BY DEF Generated, Slice
<1>1. h[s] \in Values /\ s \in State
  OBVIOUS
<1>2. h[s] \in Nat /\ g + h[s] < INT_MAX
  <2>1. h[s] \in 0 .. (INT_MAX - 1)
    BY <1>1, ValuesAssumption
  <2>2. g + h[s] < INT_MAX
    BY <1>1
  <2>3. QED
    BY <2>1, <2>2, IntMaxAssumption
<1>3. g \in Level
  BY IntMaxAssumption DEF Level
<1>4. Fvalue(<<g, s>>) \in Level
  <2>1. Fvalue(<<g, s>>) = g + Value(s)
    BY DEF Fvalue
  <2>2. CASE PruneOnly
    BY <1>3, <2>1, <2>2, IntMaxAssumption DEF Value, Level
  <2>3. CASE ~PruneOnly
    BY <1>2, <2>1, <2>3, IntMaxAssumption DEF Value, Level
  <2>4. QED
    BY <2>2, <2>3
<1>5. QED
  BY <1>1, <1>3, <1>4 DEF Entries

\* The heuristic never changes, so it only takes the declared values.
HeuristicType == h \in [State -> Values \cup {INT_MAX}]

\* The initial state is well typed.
LEMMA TypeInit == Init => TypeOK /\ HeuristicType
<1> SUFFICES ASSUME Init PROVE TypeOK /\ HeuristicType
  OBVIOUS
<1>1. IsTask(task) /\ task.init \in State /\ task.goal \in SUBSET State
  BY TasksAssumption DEF Init, IsTask
<1>2. 0 \in Level /\ INT_MAX \in Level /\ Values \subseteq Level
  BY IntMaxAssumption, ValuesAssumption DEF Level
<1>3. HeuristicType
  BY DEF Init, HeuristicType
<1>4. h \in [State -> Level]
  BY <1>2, <1>3 DEF HeuristicType
<1>5. closed \in [Dir -> Levels]
  <2>1. NoStates \in Levels
    BY DEF NoStates, Levels
  <2>2. [NoStates EXCEPT ![0] = task.goal] \in Levels
    BY <1>1, <1>2, <2>1 DEF Levels
  <2>3. QED
    BY <2>1, <2>2 DEF Init
<1>6. open \subseteq Entries
  <2>1. CASE h[task.init] = INT_MAX
    BY <2>1 DEF Init
  <2>2. CASE h[task.init] # INT_MAX
    <3>1. Fvalue(<<0, task.init>>) \in Level
      BY <1>1, <1>2, <1>4, IntMaxAssumption DEF Fvalue, Value, Level
    <3>2. open = {<<0, task.init>>}
      BY <2>2 DEF Init
    <3>3. QED
      BY <1>1, <1>2, <2>2, <3>1, <3>2 DEF Entries
  <2>3. QED
    BY <2>1, <2>2
<1>7. lower_bound \in Level /\ upper_bound \in Level
  BY <1>1, <1>2, <1>4 DEF Init, IsTask
<1>8. bucket \in [g : Level, v : Level, fresh : SUBSET State, cached : SUBSET State]
  BY <1>2 DEF Init, NoBucket
<1>9. EngineTypeOK
  BY <1>1, <1>2, <1>5, <1>7 DEF Init, EngineTypeOK
<1>10. QED
  BY <1>3, <1>4, <1>6, <1>8, <1>9 DEF Init, TypeOK

\* The options of the engine stay what they are.
LEMMA ModeKept == [Next]_vars => task' = task /\ PruneOnly' = PruneOnly
BY DEF PruneOnly, Next, vars, engine, search, Unsolvable, Step, StepEngine, Select, Discard,
       Expand, Finish, Done

\* Every step keeps the types.
LEMMA TypeNext == TypeOK /\ HeuristicType /\ [Next]_vars => TypeOK' /\ HeuristicType'
<1> SUFFICES ASSUME TypeOK, HeuristicType, [Next]_vars PROVE TypeOK' /\ HeuristicType'
  OBVIOUS
<1> USE DEF engine, search
<1>0. HeuristicType'
  BY DEF HeuristicType, Next, vars, Unsolvable, Step, Select, Discard, Expand,
         Finish, Done
<1>1. CASE Unsolvable
  BY <1>0, ModeKept, <1>1 DEF Unsolvable, TypeOK, EngineTypeOK, Entries, Fvalue, Value
<1>2. CASE Step
  <2>1. sym_cuts' \subseteq Cuts /\ upper_bound' \in Level
    BY <1>2, EmptyPlanType, NewSolutionsType DEF Step, StepEngine, TypeOK, EngineTypeOK
  <2>2. status' \in {"IN_PROGRESS", "SOLVED", "FAILED"}
    BY <1>2 DEF Step, StepEngine
  <2>3. EngineTypeOK'
    BY <1>2, <2>1, <2>2 DEF Step, StepEngine, TypeOK, EngineTypeOK
  <2>4. QED
    BY <1>0, <1>2, <2>3, ModeKept DEF Step, TypeOK, Entries, Fvalue, Value
<1>3. CASE Select
  <2>1. PICK key \in SelectMin(open \cup preexpanded) :
           LET fresh == BucketOf(open, key)
               cached == BucketOf(preexpanded, key)
               live == State \ (ClosedTotal("bw") \cup ClosedTotal("fw"))
           IN /\ SetLowerBound(KeyF(key))
              /\ NewSolutions(CheapestCut("fw", key.g, fresh \cup cached))
              /\ open' = WithoutBucket(open, key)
              /\ preexpanded' = WithoutBucket(preexpanded, key)
              /\ IF lower_bound' >= upper_bound'
                 THEN pc' = "step" /\ UNCHANGED bucket
                 ELSE /\ pc' = "expand"
                      /\ bucket' = [g |-> key.g, v |-> key.v, cached |-> cached \cap live,
                            fresh |-> Remainder(fresh \cap live, cached \cap live)]
    BY <1>3 DEF Select
  <2> DEFINE g == key.g
             fresh == BucketOf(open, key)
             cached == BucketOf(preexpanded, key)
  <2>2. g \in Level /\ key.v \in Level /\ KeyF(key) \in Level
    BY <2>1, SelectMinType DEF TypeOK
  <2>3. fresh \in SUBSET State /\ cached \in SUBSET State
    BY DEF BucketOf
  <2>4. sym_cuts' \subseteq Cuts /\ upper_bound' \in Level
    <3>1. CheapestCut("fw", g, fresh \cup cached) \subseteq CheapestCuts("fw", g, fresh \cup cached)
      BY DEF CheapestCuts
    <3>2. CheapestCuts("fw", g, fresh \cup cached) \subseteq Cuts
      BY <2>2, <2>3, CheapestCutsType DEF Dir, TypeOK, EngineTypeOK
    <3>3. NewSolutions(CheapestCut("fw", g, fresh \cup cached))
      BY <2>1
    <3>4. QED
      BY <3>1, <3>2, <3>3, NewSolutionsType DEF TypeOK, EngineTypeOK
  <2>5. lower_bound' \in Level /\ lower_bound_increased' \in BOOLEAN
    <3>1. KeyF(key) \in Int /\ KeyF(key) <= INT_MAX
      BY <2>2, IntMaxAssumption DEF Level
    <3>2. SetLowerBound(KeyF(key))
      BY <2>1
    <3>3. QED
      BY <3>1, <3>2, SetLowerBoundType DEF TypeOK, EngineTypeOK
  <2>6. open' \subseteq open /\ preexpanded' \subseteq preexpanded
    BY <2>1 DEF WithoutBucket
  <2>7. bucket' \in [g : Level, v : Level, fresh : SUBSET State, cached : SUBSET State]
    BY <2>1, <2>2, <2>3 DEF Remainder, TypeOK
  <2>8. pc' \in {"step", "expand"}
    BY <2>1
  <2>9. UNCHANGED <<task, status, min_g, closed, h>>
    BY <1>3 DEF Select
  <2>10. EngineTypeOK'
    BY <2>4, <2>5, <2>9 DEF TypeOK, EngineTypeOK
  <2>11. open' \subseteq Entries' /\ preexpanded' \subseteq Entries'
    BY <2>6, <2>9 DEF TypeOK, Entries, Fvalue, Value, PruneOnly
  <2>12. QED
    BY <1>0, <2>7, <2>8, <2>9, <2>10, <2>11 DEF TypeOK
<1>4. CASE Discard
  <2>1. NoBucket \in [g : Level, v : Level, fresh : SUBSET State, cached : SUBSET State]
    BY IntMaxAssumption DEF NoBucket, Level
  <2>2. QED
    BY <1>0, <1>4, <2>1 DEF Discard, TypeOK, EngineTypeOK, Entries, Fvalue, Value, PruneOnly
<1>5. CASE Expand
  <2>1. PICK cached, fresh \in SUBSET (bucket.cached \cup bucket.fresh) :
           /\ Remaining(cached, fresh)
           /\ closed' = [closed EXCEPT !["fw"][bucket.g] = @ \cup cached \cup fresh]
           /\ LET batch == IF fresh = {} THEN {} ELSE Batch
              IN \E ahead \in Ahead(batch, ClosedTotal("fw") \cup cached \cup fresh) :
                    LET Succ(c) == Generated(Image(task, "fw", c, fresh \cup ahead), bucket.g + c)
                    IN /\ open' = (open \ batch) \cup UNION {Succ(c) : c \in DOMAIN task.ops}
                       /\ preexpanded' = preexpanded \cup batch
    BY <1>5 DEF Expand
  <2> DEFINE batch == IF fresh = {} THEN {} ELSE Batch
  <2>2. PICK ahead \in Ahead(batch, ClosedTotal("fw") \cup cached \cup fresh) :
           LET Succ(c) == Generated(Image(task, "fw", c, fresh \cup ahead), bucket.g + c)
           IN /\ open' = (open \ batch) \cup UNION {Succ(c) : c \in DOMAIN task.ops}
              /\ preexpanded' = preexpanded \cup batch
    BY <2>1
  <2>3. batch \subseteq open
    BY DEF Batch
  <2>4. bucket.g \in Level /\ IsTask(task)
    BY DEF TypeOK, EngineTypeOK
  <2>5. ASSUME NEW c \in DOMAIN task.ops
        PROVE  Generated(Image(task, "fw", c, fresh \cup ahead), bucket.g + c) \subseteq Entries
    <3>1. c \in Nat
      BY <2>4, MinTransitionCostFacts
    <3>2. bucket.g + c \in Nat /\ bucket.g + c < INT_MAX
      BY <1>5, <2>4, <3>1, IntMaxAssumption DEF Expand, Level
    <3>3. \A v \in Values : (bucket.g + c) + v < INT_MAX
      BY <1>5 DEF Expand
    <3>4. Image(task, "fw", c, fresh \cup ahead) \in SUBSET State
      BY ImageType
    <3>5. QED
      BY <3>2, <3>3, <3>4, GeneratedType DEF HeuristicType
  <2>6. open' \subseteq Entries /\ preexpanded' \subseteq Entries
    <3>1. open \subseteq Entries /\ preexpanded \subseteq Entries
      BY DEF TypeOK
    <3>2. QED
      BY <2>2, <2>3, <2>5, <3>1
  <2>7. UNCHANGED <<task, engine, h>> /\ pc' = "finish" /\ bucket' = NoBucket
    BY <1>5 DEF Expand
  <2>8. closed' \in [Dir -> Levels]
    <3>1. cached \in SUBSET State /\ fresh \in SUBSET State
      BY <2>1, RemainingType
    <3>2. closed \in [Dir -> Levels]
      BY DEF TypeOK, EngineTypeOK
    <3>3. closed' = [closed EXCEPT !["fw"][bucket.g] = @ \cup cached \cup fresh]
      BY <2>1
    <3>4. QED
      BY <2>4, <3>1, <3>2, <3>3 DEF Levels, Dir
  <2>9. EngineTypeOK'
    BY <2>7, <2>8 DEF TypeOK, EngineTypeOK
  <2>10. bucket' \in [g : Level, v : Level, fresh : SUBSET State, cached : SUBSET State]
    BY <2>7, IntMaxAssumption DEF NoBucket, Level
  <2>11. Entries' = Entries
    BY <2>7 DEF Entries, Fvalue, Value, PruneOnly
  <2>12. QED
    BY <1>0, <2>6, <2>7, <2>9, <2>10, <2>11 DEF TypeOK
<1>6. CASE Finish
  <2>1. MinOpenF \in Int /\ MinOpenF <= INT_MAX
    BY MinOpenFType, IntMaxAssumption DEF Level
  <2>2. lower_bound' \in Level /\ lower_bound_increased' \in BOOLEAN
    BY <1>6, <2>1, SetLowerBoundType DEF Finish, TypeOK, EngineTypeOK
  <2>3. QED
    BY <1>0, <1>6, <2>2 DEF Finish, TypeOK, EngineTypeOK, Entries, Fvalue, Value, PruneOnly
<1>7. CASE Done
  BY <1>0, <1>7 DEF Done, vars, TypeOK, EngineTypeOK, Entries, Fvalue, Value, PruneOnly
<1>8. CASE UNCHANGED vars
  BY <1>0, <1>8 DEF vars, TypeOK, EngineTypeOK, Entries, Fvalue, Value, PruneOnly
<1>9. QED
  BY <1>0, <1>1, <1>2, <1>3, <1>4, <1>5, <1>6, <1>7, <1>8 DEF Next

\* Every variable keeps its type: in particular no dead end is ever queued, in
\* open or in preexpanded, and every queued f-value is an int.
THEOREM TypeCorrect == Spec => []TypeOK
BY TypeInit, TypeNext, PTL DEF Spec
-----------------------------------------------------------------------------
(* What the steps do *)

Queued == open \cup preexpanded

InBucket == bucket.fresh \cup bucket.cached

\* The bucket of the key <<g, v>>.
PickedAt(g, v) == {s \in State : <<g, s>> \in Queued /\ Value(s) = v}

\* The states of a key come no later than an entry.
KeyNotLater(g, v, e) == g + v < Fvalue(e) \/ (g + v = Fvalue(e) /\ g <= e[1])

\* The value in a key is an int, and at most the heuristic.
LEMMA ValueFacts ==
    ASSUME TypeOK, NEW s \in State
    PROVE  h[s] \in Nat /\ h[s] <= INT_MAX /\ Value(s) \in Nat /\ Value(s) <= h[s]
<1>1. h[s] \in Level
  BY DEF TypeOK
<1>2. QED
  BY <1>1, IntMaxAssumption DEF Value, Level

\* Select takes all states of a first key, and keeps those that are neither
\* goals nor closed.
Selected(g, v) ==
    /\ g + v \in Level
    /\ \A e \in Queued : KeyNotLater(g, v, e)
    /\ SetLowerBound(g + v)
    /\ NewSolutions(CheapestCut("fw", g, PickedAt(g, v)))
    /\ open' = {e \in open : e[1] # g \/ Value(e[2]) # v}
    /\ preexpanded' = {e \in preexpanded : e[1] # g \/ Value(e[2]) # v}
    /\ pc = "select"
    /\ UNCHANGED <<task, status, min_g, closed, h>>
    /\ \/ lower_bound' >= upper_bound' /\ pc' = "step" /\ bucket' = bucket
       \/ /\ pc' = "expand" /\ bucket'.g = g /\ bucket'.v = v
          /\ InBucket' = PickedAt(g, v) \ (ClosedTotal("bw") \cup ClosedTotal("fw"))
          /\ \A s \in bucket'.cached : <<g, s>> \in preexpanded
          /\ \A s \in InBucket' : <<g, s>> \in preexpanded => s \in bucket'.cached

\* There is such a key.
LEMMA SelectFacts == ASSUME TypeOK, Select PROVE \E g, v \in Level : Selected(g, v)
<1>1. PICK key \in SelectMin(open \cup preexpanded) :
         LET fresh == BucketOf(open, key)
             cached == BucketOf(preexpanded, key)
             live == State \ (ClosedTotal("bw") \cup ClosedTotal("fw"))
         IN /\ SetLowerBound(KeyF(key))
            /\ NewSolutions(CheapestCut("fw", key.g, fresh \cup cached))
            /\ open' = WithoutBucket(open, key)
            /\ preexpanded' = WithoutBucket(preexpanded, key)
            /\ IF lower_bound' >= upper_bound'
               THEN pc' = "step" /\ UNCHANGED bucket
               ELSE /\ pc' = "expand"
                    /\ bucket' = [g |-> key.g, v |-> key.v, cached |-> cached \cap live,
                          fresh |-> Remainder(fresh \cap live, cached \cap live)]
  BY DEF Select
<1> DEFINE g == key.g
           v == key.v
           cached == BucketOf(preexpanded, key)
           fresh == BucketOf(open, key)
           live == State \ (ClosedTotal("bw") \cup ClosedTotal("fw"))
<1>2. g \in Level /\ v \in Level /\ KeyF(key) \in Level /\ KeyF(key) = g + v
  BY <1>1, SelectMinType DEF TypeOK, KeyF
<1>3. fresh \cup cached = PickedAt(g, v)
  BY DEF BucketOf, PickedAt, Queued
<1>4. ASSUME NEW e \in Queued PROVE KeyNotLater(g, v, e)
  <2> DEFINE other == [g |-> e[1], v |-> Value(e[2])]
  <2>1. other \in Keys(open \cup preexpanded)
    BY <1>4 DEF Keys, Queued
  <2>2. KeyF(key) < KeyF(other) \/ (KeyF(key) = KeyF(other) /\ key.g <= other.g)
    BY <1>1, <2>1 DEF SelectMin
  <2>3. KeyF(other) = Fvalue(e)
    BY DEF KeyF, Fvalue
  <2>4. QED
    BY <1>2, <2>2, <2>3 DEF KeyNotLater
<1>5. open' = {e \in open : e[1] # g \/ Value(e[2]) # v}
  BY <1>1 DEF WithoutBucket
<1>6. preexpanded' = {e \in preexpanded : e[1] # g \/ Value(e[2]) # v}
  BY <1>1 DEF WithoutBucket
<1>7. SetLowerBound(g + v) /\ NewSolutions(CheapestCut("fw", g, PickedAt(g, v)))
  BY <1>1, <1>2, <1>3
<1>8. CASE lower_bound' >= upper_bound' /\ pc' = "step" /\ bucket' = bucket
  BY <1>2, <1>4, <1>5, <1>6, <1>7, <1>8 DEF Select, Selected
<1>9. CASE /\ pc' = "expand"
           /\ bucket' = [g |-> key.g, v |-> key.v, cached |-> cached \cap live,
                         fresh |-> Remainder(fresh \cap live, cached \cap live)]
  <2>1. bucket'.g = g /\ bucket'.v = v /\ bucket'.cached = cached \cap live
    BY <1>9
  <2>2. bucket'.fresh = (fresh \cap live) \ (cached \cap live)
    BY <1>9 DEF Remainder
  <2>3. InBucket' = (fresh \cup cached) \cap live
    BY <2>1, <2>2 DEF InBucket
  <2>4. PickedAt(g, v) \subseteq State
    BY DEF PickedAt
  <2>5. InBucket' = PickedAt(g, v) \ (ClosedTotal("bw") \cup ClosedTotal("fw"))
    BY <1>3, <2>3, <2>4
  <2>6. \A s \in bucket'.cached : <<g, s>> \in preexpanded
    BY <2>1 DEF BucketOf
  <2>7. \A s \in InBucket' : <<g, s>> \in preexpanded => s \in bucket'.cached
    BY <2>1, <2>3, <2>5 DEF BucketOf, PickedAt
  <2>8. QED
    BY <1>2, <1>4, <1>5, <1>6, <1>7, <1>9, <2>1, <2>5, <2>6, <2>7 DEF Select, Selected
<1>10. QED
  BY <1>1, <1>8, <1>9

\* What filters and slice drop of the selected bucket is excluded by a mutex,
\* or on no plan cheaper than the best one known; no state kept is of the latter.
LEMMA RemainingFacts ==
    ASSUME TypeOK, NEW cached, NEW fresh, Remaining(cached, fresh)
    PROVE  /\ cached \subseteq bucket.cached /\ fresh \subseteq bucket.fresh
           /\ \A s \in (InBucket \cap task.notMutex["fw"]) \ (cached \cup fresh) :
                 PruneOnly /\ upper_bound <= bucket.g + h[s]
           /\ \A s \in cached \cup fresh :
                 PruneOnly /\ upper_bound < INT_MAX => bucket.g + h[s] < upper_bound
<1>1. PICK S \in Filtered(Slice(bucket.fresh, bucket.g), bucket.g) :
         fresh = S \ cached
  BY DEF Remaining
<1>2. cached \in Filtered(Slice(bucket.cached, bucket.g), bucket.g)
  BY DEF Remaining
<1>3. \A T : \A F \in Filtered(Slice(T, bucket.g), bucket.g) :
         /\ F \subseteq Slice(T, bucket.g) /\ F \subseteq T
         /\ Slice(T, bucket.g) \cap task.notMutex["fw"] \subseteq F
  BY DEF Filtered, FilterMutex, Slice
<1>4. ASSUME NEW s \in (InBucket \cap task.notMutex["fw"]) \ (cached \cup fresh)
      PROVE  PruneOnly /\ upper_bound <= bucket.g + h[s]
  <2>1. s \in State /\ bucket.g \in Level /\ upper_bound \in Level
    BY DEF InBucket, TypeOK, EngineTypeOK
  <2>2. PICK T : s \in T /\ s \notin Slice(T, bucket.g)
    <3>1. CASE s \in bucket.cached
      BY <1>2, <1>3, <1>4, <3>1
    <3>2. CASE s \in bucket.fresh
      BY <1>1, <1>3, <1>4, <3>2
    <3>3. QED
      BY <1>4, <3>1, <3>2 DEF InBucket
  <2>3. PruneOnly /\ ~(h[s] <= upper_bound - 1 - bucket.g)
    BY <2>2 DEF Slice
  <2>4. h[s] \in Nat /\ bucket.g \in Nat /\ upper_bound \in Nat
    BY <2>1, ValueFacts, LevelFacts
  <2>5. QED
    BY <2>3, <2>4
<1>5. ASSUME NEW s \in cached \cup fresh, PruneOnly, upper_bound < INT_MAX
      PROVE  bucket.g + h[s] < upper_bound
  <2>1. s \in Slice(bucket.cached, bucket.g) \/ s \in Slice(bucket.fresh, bucket.g)
    BY <1>1, <1>2, <1>3, <1>5
  <2>2. h[s] <= upper_bound - 1 - bucket.g
    BY <1>5, <2>1 DEF Slice
  <2>3. s \in State /\ bucket.g \in Nat /\ upper_bound \in Nat
    BY <2>1, LevelFacts DEF Slice, TypeOK, EngineTypeOK
  <2>4. h[s] \in Nat
    BY <2>3, ValueFacts
  <2>5. QED
    BY <2>2, <2>3, <2>4
<1>6. QED
  BY <1>1, <1>2, <1>3, <1>4, <1>5

\* What Discard and Expand drop of the bucket.
Useless(s) == PruneOnly /\ upper_bound <= bucket.g + h[s]

\* A bucket of which nothing is left.
LEMMA DiscardFacts ==
    ASSUME TypeOK, Discard
    PROVE  /\ \A s \in InBucket \cap task.notMutex["fw"] : Useless(s)
           /\ pc = "expand" /\ pc' = "finish" /\ bucket' = NoBucket
           /\ UNCHANGED <<task, engine, closed, h, open, preexpanded>>
BY RemainingFacts DEF Discard, Useless

\* Expand closes the states kept.  It images those of them that have not been
\* imaged ahead, and the states ahead; an entry marked as imaged is either among
\* these, or a goal, or closed by now.
Expanded(kept, fresh, ahead) ==
    /\ kept # {} /\ kept \subseteq fresh \cup bucket.cached
    /\ \A s \in (InBucket \cap task.notMutex["fw"]) \ kept : Useless(s)
    /\ closed' = [closed EXCEPT !["fw"][bucket.g] = @ \cup kept]
    /\ \A s \in kept : ~(upper_bound < INT_MAX /\ Useless(s))
    /\ \A x \in ahead : <<bucket.g, x>> \in open
    /\ \A x \in ahead : <<bucket.g, x>> \in preexpanded' /\ x \notin ClosedTotal("bw")
    /\ Queued \subseteq Queued' /\ preexpanded \subseteq preexpanded'
    /\ \A e \in Queued' \ Queued :
          /\ e \in Entries
          /\ \E c \in DOMAIN task.ops : \E x \in fresh \cup ahead :
                e[1] = bucket.g + c /\ Edge(task, "fw", c, x, e[2])
    /\ \A e \in preexpanded' \ preexpanded :
          /\ e \in open /\ e[1] = bucket.g
          /\ \/ e[2] \in ahead
             \/ e[2] \notin task.notMutex["fw"]
             \/ e[2] \in ClosedTotal("bw") \cup ClosedTotal("fw") \cup kept
    /\ \A c \in DOMAIN task.ops : \A x \in fresh \cup ahead : \A y \in State :
          Edge(task, "fw", c, x, y) =>
              \/ h[y] = INT_MAX
              \/ <<bucket.g + c, y>> \in Queued'
              \/ PruneOnly /\ upper_bound <= bucket.g + c + h[y]
    /\ pc = "expand" /\ pc' = "finish" /\ bucket' = NoBucket
    /\ UNCHANGED <<task, engine, h>>

\* There are such sets.
LEMMA ExpandFacts ==
    ASSUME TypeOK, HeuristicType, Expand
    PROVE  \E kept \in SUBSET InBucket, fresh \in SUBSET State, ahead \in SUBSET State :
              fresh \subseteq kept /\ Expanded(kept, fresh, ahead)
<1>1. PICK cached, fresh \in SUBSET (bucket.cached \cup bucket.fresh) :
         /\ Remaining(cached, fresh)
         /\ cached \cup fresh # {}
         /\ closed' = [closed EXCEPT !["fw"][bucket.g] = @ \cup cached \cup fresh]
         /\ LET batch == IF fresh = {} THEN {} ELSE Batch
            IN \E ahead \in Ahead(batch, ClosedTotal("fw") \cup cached \cup fresh) :
                  LET Succ(c) == Generated(Image(task, "fw", c, fresh \cup ahead), bucket.g + c)
                  IN /\ open' = (open \ batch) \cup UNION {Succ(c) : c \in DOMAIN task.ops}
                     /\ preexpanded' = preexpanded \cup batch
  BY DEF Expand
<1> DEFINE batch == IF fresh = {} THEN {} ELSE Batch
           kept == cached \cup fresh
           S(c, ahead) == Generated(Image(task, "fw", c, fresh \cup ahead), bucket.g + c)
<1>2. PICK ahead \in Ahead(batch, ClosedTotal("fw") \cup cached \cup fresh) :
         /\ open' = (open \ batch) \cup UNION {S(c, ahead) : c \in DOMAIN task.ops}
         /\ preexpanded' = preexpanded \cup batch
  BY <1>1
<1> DEFINE Succ(c) == S(c, ahead)
<1>3. /\ cached \subseteq bucket.cached /\ fresh \subseteq bucket.fresh
      /\ \A s \in (InBucket \cap task.notMutex["fw"]) \ kept : Useless(s)
  BY <1>1, RemainingFacts DEF Useless
<1>3a. \A s \in kept : ~(upper_bound < INT_MAX /\ Useless(s))
  <2> SUFFICES ASSUME NEW s \in kept, upper_bound < INT_MAX, PruneOnly,
                      upper_bound <= bucket.g + h[s]
               PROVE  FALSE
    BY DEF Useless
  <2>1. bucket.g + h[s] < upper_bound
    BY <1>1, RemainingFacts
  <2>2. s \in State /\ bucket.g \in Nat /\ upper_bound \in Nat
    BY <1>1, LevelFacts DEF TypeOK, EngineTypeOK
  <2>3. h[s] \in Nat
    BY <2>2, ValueFacts
  <2>4. QED
    BY <2>1, <2>2, <2>3
<1>4. batch \subseteq open /\ \A e \in batch : e[1] = bucket.g
  BY DEF Batch
<1>5. \A e \in open : e[1] \in Level /\ e[2] \in State /\ e = <<e[1], e[2]>>
  BY DEF TypeOK, Entries
<1>6. closed' = [closed EXCEPT !["fw"][bucket.g] = @ \cup kept]
  BY <1>1
<1>7. /\ ahead \in SUBSET State
      /\ \A x \in ahead : /\ <<bucket.g, x>> \in open /\ <<bucket.g, x>> \in preexpanded'
                         /\ x \notin ClosedTotal("bw")
  <2> DEFINE ready == {e[2] : e \in batch \ preexpanded} \
                          (ClosedTotal("bw") \cup ClosedTotal("fw") \cup kept)
  <2>1. ahead \subseteq ready
    BY <1>2 DEF Ahead, FilterMutex
  <2>2. \A x \in ready : \E e \in batch : e[2] = x
    OBVIOUS
  <2>3. batch \subseteq preexpanded'
    BY <1>2
  <2>4. QED
    BY <1>4, <1>5, <2>1, <2>2, <2>3
<1>8. ASSUME NEW e \in preexpanded' \ preexpanded
      PROVE  /\ e \in open /\ e[1] = bucket.g
             /\ \/ e[2] \in ahead
                \/ e[2] \notin task.notMutex["fw"]
                \/ e[2] \in ClosedTotal("bw") \cup ClosedTotal("fw") \cup kept
  <2> DEFINE ready == {f[2] : f \in batch \ preexpanded} \
                          (ClosedTotal("bw") \cup (ClosedTotal("fw") \cup cached \cup fresh))
  <2>1. e \in batch /\ e \notin preexpanded
    BY <1>2, <1>8
  <2>2. e[2] \in ready \/ e[2] \in ClosedTotal("bw") \cup ClosedTotal("fw") \cup kept
    BY <2>1
  <2>3. ready \cap task.notMutex["fw"] \subseteq ahead
    <3>1. \A b : ready \cap task.notMutex["fw"] \subseteq FilterMutex(task, "fw", b, ready)
      BY DEF FilterMutex
    <3>2. FilterMutex(task, "fw", bucket.g = 0, ready) \subseteq ahead
      BY <1>2 DEF Ahead
    <3>3. QED
      BY <3>1, <3>2
  <2>4. QED
    BY <1>4, <2>1, <2>2, <2>3
<1>9. IsTask(task) /\ bucket.g \in Level
  BY DEF TypeOK, EngineTypeOK
<1>10. ASSUME NEW c \in DOMAIN task.ops
       PROVE  /\ Succ(c) \subseteq Entries
              /\ \A e \in Succ(c) : /\ e[1] = bucket.g + c
                                    /\ \E x \in fresh \cup ahead : Edge(task, "fw", c, x, e[2])
              /\ \A x \in fresh \cup ahead : \A y \in State :
                    Edge(task, "fw", c, x, y) =>
                        \/ h[y] = INT_MAX
                        \/ <<bucket.g + c, y>> \in Succ(c)
                        \/ PruneOnly /\ upper_bound <= bucket.g + c + h[y]
  <2>1. c \in Nat /\ bucket.g \in Nat /\ upper_bound \in Nat
    BY <1>9, MinTransitionCostFacts, EngineFacts, LevelFacts DEF TypeOK
  <2>2. /\ bucket.g + c \in Nat /\ bucket.g + c < INT_MAX
        /\ \A v \in Values : (bucket.g + c) + v < INT_MAX
    BY <2>1, LevelFacts DEF Expand
  <2>3. Image(task, "fw", c, fresh \cup ahead) \in SUBSET State
    BY ImageType
  <2>4. Succ(c) \subseteq Entries
    BY <2>2, <2>3, GeneratedType DEF HeuristicType
  <2>5. ASSUME NEW e \in Succ(c)
        PROVE  e[1] = bucket.g + c /\ \E x \in fresh \cup ahead : Edge(task, "fw", c, x, e[2])
    <3>1. PICK y \in Slice(Image(task, "fw", c, fresh \cup ahead), bucket.g + c) :
             e = <<bucket.g + c, y>>
      BY <2>5 DEF Generated
    <3>2. y \in Image(task, "fw", c, fresh \cup ahead)
      BY DEF Slice
    <3>3. QED
      BY <3>1, <3>2 DEF Image
  <2>6. ASSUME NEW x \in fresh \cup ahead, NEW y \in State, Edge(task, "fw", c, x, y),
               h[y] # INT_MAX, <<bucket.g + c, y>> \notin Succ(c)
        PROVE  PruneOnly /\ upper_bound <= bucket.g + c + h[y]
    <3>1. y \in Image(task, "fw", c, fresh \cup ahead)
      BY <2>6 DEF Image
    <3>2. y \notin Slice(Image(task, "fw", c, fresh \cup ahead), bucket.g + c)
      BY <2>6 DEF Generated
    <3>3. PruneOnly /\ ~(h[y] <= upper_bound - 1 - (bucket.g + c))
      BY <3>1, <3>2 DEF Slice
    <3>4. h[y] \in Nat
      BY ValueFacts
    <3>5. h[y] <= upper_bound - 1 - (bucket.g + c) \/ upper_bound <= bucket.g + c + h[y]
      BY <2>1, <3>4
    <3>6. QED
      BY <3>3, <3>5
  <2>7. QED
    BY <2>4, <2>5, <2>6
<1> HIDE DEF S
<1>11. Queued' = Queued \cup UNION {Succ(c) : c \in DOMAIN task.ops}
  BY <1>2, <1>4 DEF Queued
<1>12. ASSUME NEW e \in Queued' \ Queued
       PROVE  /\ e \in Entries
              /\ \E c \in DOMAIN task.ops : \E x \in fresh \cup ahead :
                    e[1] = bucket.g + c /\ Edge(task, "fw", c, x, e[2])
  <2>1. PICK c \in DOMAIN task.ops : e \in Succ(c)
    BY <1>11, <1>12
  <2>2. QED
    BY <1>10, <2>1
<1>13. ASSUME NEW c \in DOMAIN task.ops, NEW x \in fresh \cup ahead, NEW y \in State,
              Edge(task, "fw", c, x, y)
       PROVE  \/ h[y] = INT_MAX
              \/ <<bucket.g + c, y>> \in Queued'
              \/ PruneOnly /\ upper_bound <= bucket.g + c + h[y]
  BY <1>10, <1>11, <1>13
<1>14. /\ kept \in SUBSET InBucket /\ fresh \subseteq kept /\ fresh \in SUBSET State
       /\ kept # {} /\ kept \subseteq fresh \cup bucket.cached
      /\ Queued \subseteq Queued' /\ preexpanded \subseteq preexpanded'
  BY <1>1, <1>2, <1>3, <1>11 DEF InBucket, TypeOK
<1>15. /\ pc = "expand" /\ pc' = "finish" /\ bucket' = NoBucket
       /\ UNCHANGED <<task, engine, h>>
  BY DEF Expand
<1> HIDE DEF kept
<1>16. Expanded(kept, fresh, ahead)
  BY <1>3, <1>3a, <1>6, <1>7, <1>8, <1>12, <1>13, <1>14, <1>15 DEF Expanded
<1>17. QED
  BY <1>7, <1>14, <1>16

\* The steps of the driver, and the end of stepImage, leave the queues alone.
Idle == /\ UNCHANGED <<task, h, closed, open, preexpanded, bucket>>
        /\ upper_bound' <= upper_bound
        /\ pc' = "expand" <=> pc = "expand"

\* Every other step selects, discards or expands a bucket.
LEMMA StepKinds ==
    ASSUME TypeOK, [Next]_vars
    PROVE  Idle \/ Select \/ Discard \/ Expand
<1> USE DEF engine, search
<1>1. upper_bound \in Nat
  BY EngineFacts DEF TypeOK
<1>2. CASE Step
  <2>1. EmptyPlan \subseteq Cuts /\ upper_bound \in Level
    BY EmptyPlanType DEF TypeOK, EngineTypeOK
  <2>2. upper_bound' <= upper_bound
    BY <1>2, <2>1, NewSolutionsFacts DEF Step, StepEngine
  <2>3. QED
    BY <1>2, <2>2 DEF Step, StepEngine, Idle
<1>3. CASE Unsolvable \/ Finish \/ Done \/ UNCHANGED vars
  BY <1>1, <1>3 DEF Unsolvable, Finish, Done, vars, Idle
<1>4. QED
  BY <1>2, <1>3 DEF Next

-----------------------------------------------------------------------------
(* Goals, the bucket at work, and costs *)

\* What stands for the backward search, and the bucket between its selection
\* and its expansion: it holds no goal, and states of one value.
FixedInv ==
    /\ ~HasZeroCost(task)
    /\ IsHeuristic(task, h)
    /\ \A k \in Level : closed["bw"][k] = IF k = 0 THEN task.goal ELSE {}
    /\ \A k \in Level : closed["fw"][k] \cap task.goal = {}
    /\ pc # "expand" => InBucket = {}
    /\ \A s \in InBucket : s \notin task.goal /\ Value(s) = bucket.v

\* No state is listed, or at work, at less than its distance.
LevelInv ==
    /\ \A k \in Level : \A s \in closed["fw"][k] : task.dist["fw"][s] <= k
    /\ \A e \in Queued : task.dist["fw"][e[2]] <= e[1]
    /\ \A s \in InBucket : task.dist["fw"][s] <= bucket.g

\* In the place of the backward search there are exactly the goals.
LEMMA ClosedGoals ==
    ASSUME FixedInv
    PROVE  ClosedTotal("bw") = task.goal
<1>1. 0 \in Level
  BY LevelFacts
<1>2. QED
  BY <1>1 DEF FixedInv, ClosedTotal

\* All hold at the start.
LEMMA FixedInit == Init => FixedInv /\ LevelInv /\ PlanInv
<1> SUFFICES ASSUME Init PROVE FixedInv /\ LevelInv /\ PlanInv
  OBVIOUS
<1>1. IsTask(task) /\ task.init \in State /\ "fw" \in Dir /\ "bw" \in Dir
  BY TasksAssumption DEF Init, IsTask, Dir
<1>2. InBucket = {}
  BY DEF Init, NoBucket, InBucket
<1>3. \A k \in Level : closed["fw"][k] = {} /\ closed["bw"][k] = IF k = 0 THEN task.goal ELSE {}
  BY <1>1, LevelFacts DEF Init, NoStates
<1>4. \A e \in Queued : e = <<0, task.init>>
  BY DEF Init, Queued
<1>5. task.dist["fw"][task.init] = 0
  BY <1>1, DistanceFacts DEF Source
<1>6. FixedInv
  BY <1>2, <1>3 DEF Init, FixedInv
<1>7. LevelInv
  BY <1>2, <1>3, <1>4, <1>5 DEF LevelInv
<1>8. QED
  BY <1>6, <1>7 DEF Init, PlanInv

\* FixedInv is inductive.
LEMMA FixedInvNext ==
    TypeOK /\ HeuristicType /\ FixedInv /\ [Next]_vars => FixedInv'
<1> SUFFICES ASSUME TypeOK, HeuristicType, FixedInv, [Next]_vars PROVE FixedInv'
  OBVIOUS
<1> USE DEF engine, search
<1>1. CASE Idle
  <2>1. InBucket' = InBucket
    BY <1>1 DEF Idle, InBucket
  <2>2. QED
    BY <1>1, <2>1 DEF Idle, FixedInv, Value, PruneOnly
<1>2. CASE Select
  <2>0. PICK g, v \in Level : Selected(g, v)
    BY <1>2, SelectFacts
  <2>1. /\ pc = "select" /\ UNCHANGED <<task, closed, h>>
        /\ \/ pc' = "step" /\ bucket' = bucket
           \/ /\ pc' = "expand" /\ bucket'.v = v
              /\ InBucket' = PickedAt(g, v) \ (ClosedTotal("bw") \cup ClosedTotal("fw"))
    BY <2>0 DEF Selected
  <2>2. CASE pc' = "step" /\ bucket' = bucket
    <3>1. InBucket' = {}
      BY <2>1, <2>2 DEF FixedInv, InBucket
    <3>2. QED
      BY <2>1, <2>2, <3>1 DEF FixedInv
  <2>3. CASE /\ pc' = "expand" /\ bucket'.v = v
             /\ InBucket' = PickedAt(g, v) \ (ClosedTotal("bw") \cup ClosedTotal("fw"))
    <3>1. \A s \in InBucket' : s \notin task.goal /\ Value(s) = v
      BY <2>3, ClosedGoals DEF PickedAt
    <3>2. QED
      BY <2>1, <2>3, <3>1 DEF FixedInv, Value, PruneOnly
  <2>4. QED
    BY <2>1, <2>2, <2>3
<1>3. CASE Discard
  <2>1. InBucket' = {}
    BY <1>3, DiscardFacts DEF InBucket, NoBucket
  <2>2. QED
    BY <1>3, <2>1, DiscardFacts DEF FixedInv
<1>4. CASE Expand
  <2>0. PICK kept \in SUBSET InBucket, fresh \in SUBSET State, ahead \in SUBSET State :
           fresh \subseteq kept /\ Expanded(kept, fresh, ahead)
    BY <1>4, ExpandFacts
  <2>1. /\ closed' = [closed EXCEPT !["fw"][bucket.g] = @ \cup kept]
        /\ bucket' = NoBucket /\ UNCHANGED <<task, h>>
    BY <2>0 DEF Expanded
  <2>2. InBucket' = {}
    BY <2>1 DEF InBucket, NoBucket
  <2>3. \A k \in Level : /\ closed'["bw"][k] = closed["bw"][k]
                         /\ closed'["fw"][k] \subseteq closed["fw"][k] \cup kept
    BY <2>1 DEF TypeOK, EngineTypeOK, Levels, Dir
  <2>4. QED
    BY <2>1, <2>2, <2>3 DEF FixedInv
<1>5. QED
  BY <1>1, <1>2, <1>3, <1>4, StepKinds

\* LevelInv is inductive: successors are as much dearer as their operators.
LEMMA LevelInvNext ==
    TypeOK /\ HeuristicType /\ LevelInv /\ [Next]_vars => LevelInv'
<1> SUFFICES ASSUME TypeOK, HeuristicType, LevelInv, [Next]_vars PROVE LevelInv'
  OBVIOUS
<1> USE DEF engine
<1>0. IsTask(task) /\ bucket.g \in Level /\ "fw" \in Dir /\ InBucket \subseteq State
  BY DEF TypeOK, EngineTypeOK, Dir, InBucket
<1>1. CASE Idle
  BY <1>1 DEF Idle, LevelInv, Queued, InBucket
<1>2. CASE Select
  <2>0. PICK g, v \in Level : Selected(g, v)
    BY <1>2, SelectFacts
  <2>1. /\ open' \subseteq open /\ preexpanded' \subseteq preexpanded
        /\ UNCHANGED <<task, closed>>
        /\ \/ bucket' = bucket
           \/ bucket'.g = g /\ InBucket' \subseteq PickedAt(g, v)
    BY <2>0 DEF Selected
  <2>2. Queued' \subseteq Queued
    BY <2>1 DEF Queued
  <2>3. \A s \in PickedAt(g, v) : task.dist["fw"][s] <= g
    BY DEF PickedAt, LevelInv
  <2>4. \A s \in InBucket' : task.dist["fw"][s] <= bucket'.g
    BY <2>1, <2>3 DEF LevelInv, InBucket
  <2>5. QED
    BY <2>1, <2>2, <2>4 DEF LevelInv
<1>3. CASE Discard
  <2>1. InBucket' = {}
    BY <1>3, DiscardFacts DEF InBucket, NoBucket
  <2>2. QED
    BY <1>3, <2>1, DiscardFacts DEF LevelInv, Queued
<1>4. CASE Expand
  <2>0. PICK kept \in SUBSET InBucket, fresh \in SUBSET State, ahead \in SUBSET State :
           fresh \subseteq kept /\ Expanded(kept, fresh, ahead)
    BY <1>4, ExpandFacts
  <2>1. /\ closed' = [closed EXCEPT !["fw"][bucket.g] = @ \cup kept]
        /\ \A x \in ahead : <<bucket.g, x>> \in open
        /\ \A e \in Queued' \ Queued :
              /\ e \in Entries
              /\ \E c \in DOMAIN task.ops : \E x \in fresh \cup ahead :
                    e[1] = bucket.g + c /\ Edge(task, "fw", c, x, e[2])
        /\ bucket' = NoBucket /\ UNCHANGED <<task, h>>
    BY <2>0 DEF Expanded
  <2>2. InBucket' = {}
    BY <2>1 DEF InBucket, NoBucket
  <2>3. ASSUME NEW e \in Queued' \ Queued
        PROVE  task.dist["fw"][e[2]] <= e[1]
    <3>1. e[2] \in State
      BY <2>1, <2>3 DEF Entries
    <3>2. PICK c \in DOMAIN task.ops, x \in fresh \cup ahead :
             e[1] = bucket.g + c /\ Edge(task, "fw", c, x, e[2])
      BY <2>1, <2>3
    <3>3. x \in State /\ task.dist["fw"][x] <= bucket.g
      <4>1. CASE x \in fresh
        BY <1>0, <2>0, <4>1 DEF LevelInv
      <4>2. CASE x \in ahead
        <5>1. <<bucket.g, x>> \in Queued
          BY <2>1, <4>2 DEF Queued
        <5>2. QED
          BY <2>0, <4>2, <5>1 DEF LevelInv
      <4>3. QED
        BY <3>2, <4>1, <4>2
    <3>4. task.dist["fw"][e[2]] <= task.dist["fw"][x] + c
      BY <1>0, <3>1, <3>2, <3>3 DEF IsTask, IsDistance
    <3>5. /\ task.dist["fw"][e[2]] \in Nat /\ task.dist["fw"][x] \in Nat
          /\ c \in Nat /\ bucket.g \in Nat
      BY <1>0, <3>1, <3>3, DistanceFacts, MinTransitionCostFacts, LevelFacts
    <3>6. QED
      BY <3>2, <3>3, <3>4, <3>5
  <2>4. \A k \in Level : \A s \in closed'["fw"][k] \ closed["fw"][k] :
           k = bucket.g /\ s \in kept
    BY <2>1 DEF TypeOK, EngineTypeOK, Levels, Dir
  <2>5. QED
    BY <2>1, <2>2, <2>3, <2>4 DEF LevelInv
<1>5. QED
  BY <1>1, <1>2, <1>3, <1>4, StepKinds

\* PlanInv is inductive: plans come from the driver and from selected buckets.
LEMMA PlanInvNext ==
    TypeOK /\ HeuristicType /\ FixedInv /\ LevelInv /\ PlanInv /\ [Next]_vars => PlanInv'
<1> SUFFICES ASSUME TypeOK, HeuristicType, FixedInv, LevelInv, PlanInv, [Next]_vars
             PROVE  PlanInv'
  OBVIOUS
<1> USE DEF engine, search
<1>0. EngineTypeOK /\ IsTask(task) /\ "fw" \in Dir /\ "bw" \in Dir /\ Opposite("fw") = "bw"
  BY DEF TypeOK, EngineTypeOK, Dir, Opposite
<1>1. CASE Step
  <2>1. EmptyPlan \subseteq Cuts /\ NewSolutions(EmptyPlan) /\ task' = task
    BY <1>0, <1>1, EmptyPlanType DEF Step, StepEngine
  <2>2. \A sol \in EmptyPlan : Optimum <= Cost(sol)
    BY <1>0, EmptyPlanIsSound
  <2>3. QED
    BY <1>0, <2>1, <2>2, PlanInvNewSolutions
<1>2. CASE Select
  <2>0. PICK g, v \in Level : Selected(g, v)
    BY <1>2, SelectFacts
  <2>1. NewSolutions(CheapestCut("fw", g, PickedAt(g, v))) /\ task' = task
    BY <2>0 DEF Selected
  <2> DEFINE B == PickedAt(g, v)
             sols == CheapestCut("fw", g, B)
  <2>2. B \in SUBSET State /\ \A s \in B : task.dist["fw"][s] <= g
    BY DEF PickedAt, LevelInv
  <2> HIDE DEF B
  <2>3. sols \subseteq CheapestCuts("fw", g, B)
    BY DEF CheapestCuts
  <2>4. CheapestCuts("fw", g, B) \subseteq Cuts
    BY <1>0, <2>2, CheapestCutsType DEF EngineTypeOK
  <2>5. \A k \in Level : \A s \in closed["bw"][k] : task.dist["bw"][s] <= k
    <3> SUFFICES ASSUME NEW k \in Level, NEW s \in closed["bw"][k]
                 PROVE  task.dist["bw"][s] <= k
      OBVIOUS
    <3>1. k = 0 /\ s \in task.goal
      BY DEF FixedInv
    <3>2. s \in State /\ s \in Source(task, "bw")
      BY <1>0, <3>1 DEF IsTask, Source
    <3>3. QED
      BY <1>0, <3>1, <3>2, DistanceFacts
  <2>6. \A sol \in sols : Optimum <= Cost(sol)
    BY <1>0, <2>2, <2>3, <2>5, CutsAreNotTooCheap
  <2>7. NewSolutions(sols) /\ sols \subseteq Cuts
    BY <2>1, <2>3, <2>4 DEF B
  <2> HIDE DEF sols
  <2>8. QED
    BY <1>0, <2>1, <2>6, <2>7, PlanInvNewSolutions
<1>3. CASE Unsolvable \/ Discard \/ Expand \/ Finish \/ Done \/ UNCHANGED vars
  <2>1. UNCHANGED <<task, sym_cuts, upper_bound>>
    BY <1>3 DEF Unsolvable, Discard, Expand, Finish, Done, vars
  <2>2. QED
    BY <2>1 DEF PlanInv, Cost, Optimum
<1>4. QED
  BY <1>1, <1>2, <1>3 DEF Next
-----------------------------------------------------------------------------
(* The order of selection *)

Listed == {e \in Level \X State : e[2] \in closed["fw"][e[1]]}

AtWork == {<<bucket.g, s>> : s \in InBucket}

NotLater(e, f) == Fvalue(e) < Fvalue(f) \/ (Fvalue(e) = Fvalue(f) /\ e[1] <= f[1])

\* What is closed comes before the bucket at work, and this before the queues.
OrderInv ==
    /\ \A e \in Listed : \A f \in AtWork \cup Queued : NotLater(e, f)
    /\ \A e \in AtWork : \A f \in Queued : NotLater(e, f)

\* Entries are compared by naturals, so that the order is transitive.
LEMMA NotLaterFacts ==
    ASSUME TypeOK
    PROVE  /\ Listed \cup AtWork \cup Queued \subseteq Level \X State
           /\ \A e \in Level \X State :
                 /\ e[1] \in Nat /\ e[2] \in State /\ e = <<e[1], e[2]>>
                 /\ Fvalue(e) \in Nat /\ Fvalue(e) = e[1] + Value(e[2])
           /\ \A e, f, k \in Level \X State :
                 NotLater(e, f) /\ NotLater(f, k) => NotLater(e, k)
<1>1. Listed \cup AtWork \cup Queued \subseteq Level \X State
  BY DEF Listed, AtWork, Queued, InBucket, TypeOK, Entries
<1>2. ASSUME NEW e \in Level \X State
      PROVE  /\ e[1] \in Nat /\ e[2] \in State /\ e = <<e[1], e[2]>>
             /\ Fvalue(e) \in Nat /\ Fvalue(e) = e[1] + Value(e[2])
  <2>1. e[1] \in Level /\ e[2] \in State /\ e = <<e[1], e[2]>>
    OBVIOUS
  <2>2. Value(e[2]) \in Nat /\ e[1] \in Nat
    BY <2>1, ValueFacts, LevelFacts
  <2>3. QED
    BY <2>1, <2>2 DEF Fvalue
<1>3. QED
  BY <1>1, <1>2 DEF NotLater

\* A successor comes no earlier than the bucket: the heuristic is consistent.
LEMMA SuccessorsComeLater ==
    ASSUME TypeOK, FixedInv, OrderInv, NEW b \in InBucket,
           NEW x \in State, x \in InBucket \/ <<bucket.g, x>> \in open,
           NEW c \in DOMAIN task.ops, NEW e \in Entries,
           e[1] = bucket.g + c, Edge(task, "fw", c, x, e[2])
    PROVE  NotLater(<<bucket.g, b>>, e)
<1>1. IsTask(task) /\ bucket.g \in Level /\ b \in State /\ <<bucket.g, b>> \in AtWork
  BY DEF TypeOK, EngineTypeOK, InBucket, AtWork
<1>2. e[2] \in State /\ e \in Level \X State /\ h[e[2]] # INT_MAX
  BY DEF Entries
<1>3. c \in Nat /\ bucket.g \in Nat
  BY <1>1, MinTransitionCostFacts, LevelFacts
<1>4. Fvalue(e) = bucket.g + c + Value(e[2]) /\ Fvalue(<<bucket.g, b>>) = bucket.g + Value(b)
  BY DEF Fvalue
<1>5. Value(b) \in Nat /\ Value(x) \in Nat /\ Value(e[2]) \in Nat
  BY <1>1, <1>2, ValueFacts
<1>6. Value(b) <= Value(x)
  <2>1. CASE x \in InBucket
    BY <1>5, <2>1 DEF FixedInv
  <2>2. CASE <<bucket.g, x>> \in open
    <3>1. NotLater(<<bucket.g, b>>, <<bucket.g, x>>)
      BY <1>1, <2>2 DEF OrderInv, Queued
    <3>2. bucket.g + Value(b) <= bucket.g + Value(x)
      BY <1>3, <1>5, <3>1 DEF NotLater, Fvalue
    <3>3. QED
      BY <1>3, <1>5, <3>2
  <2>3. QED
    BY <2>1, <2>2
<1>7. Value(x) <= c + Value(e[2])
  <2>1. CASE PruneOnly
    BY <1>3, <2>1 DEF Value
  <2>2. CASE ~PruneOnly
    <3>1. <<x, e[2]>> \in task.ops[c]
      BY DEF Edge
    <3>2. h[x] <= c + h[e[2]]
      BY <1>2, <3>1 DEF FixedInv, IsHeuristic
    <3>3. QED
      BY <2>2, <3>2 DEF Value
  <2>3. QED
    BY <2>1, <2>2
<1>8. bucket.g + Value(b) <= bucket.g + c + Value(e[2]) /\ bucket.g <= bucket.g + c
  BY <1>3, <1>5, <1>6, <1>7
<1>9. QED
  BY <1>3, <1>4, <1>5, <1>8 DEF NotLater

\* OrderInv is inductive.
LEMMA OrderInvNext ==
    TypeOK /\ HeuristicType /\ FixedInv /\ OrderInv /\ TypeOK' /\ [Next]_vars => OrderInv'
<1> SUFFICES ASSUME TypeOK, HeuristicType, FixedInv, OrderInv, TypeOK', [Next]_vars
             PROVE  OrderInv'
  OBVIOUS
<1> USE DEF engine
<1>1. CASE Idle
  <2>1. Listed' = Listed /\ AtWork' = AtWork /\ Queued' = Queued /\ h' = h
    BY <1>1 DEF Idle, Listed, AtWork, Queued, InBucket
  <2>2. QED
    BY <2>1, ModeKept DEF OrderInv, NotLater, Fvalue, Value
<1>2. CASE Select
  <2>0. PICK g, v \in Level : Selected(g, v)
    BY <1>2, SelectFacts
  <2>1. /\ open' \subseteq open /\ preexpanded' \subseteq preexpanded
        /\ pc = "select" /\ UNCHANGED <<closed, h>>
        /\ \A e \in Queued : KeyNotLater(g, v, e)
        /\ \/ bucket' = bucket
           \/ bucket'.g = g /\ InBucket' \subseteq PickedAt(g, v)
    BY <2>0 DEF Selected
  <2>2. Queued' \subseteq Queued /\ Listed' = Listed
    BY <2>1 DEF Queued, Listed
  <2>3. \A e \in AtWork' : e \in Queued /\ e[1] = g /\ Fvalue(e) = g + v
    <3> SUFFICES ASSUME NEW e \in AtWork'
                 PROVE  e \in Queued /\ e[1] = g /\ Fvalue(e) = g + v
      OBVIOUS
    <3>1. PICK s \in InBucket' : e = <<bucket'.g, s>>
      BY DEF AtWork
    <3>2. bucket'.g = g /\ s \in PickedAt(g, v)
      BY <2>1, <3>1 DEF FixedInv, InBucket
    <3>3. QED
      BY <3>1, <3>2 DEF PickedAt, Fvalue
  <2>4. \A e \in AtWork' : \A f \in Queued : NotLater(e, f)
    BY <2>1, <2>3 DEF NotLater, KeyNotLater
  <2>5. QED
    BY ModeKept, <2>1, <2>2, <2>3, <2>4 DEF OrderInv, NotLater, Fvalue, Value
<1>3. CASE Discard
  <2>1. bucket' = NoBucket /\ UNCHANGED <<closed, h, open, preexpanded>>
    BY <1>3, DiscardFacts
  <2>2. AtWork' = {} /\ Listed' = Listed /\ Queued' = Queued
    BY <2>1 DEF AtWork, InBucket, NoBucket, Listed, Queued
  <2>3. QED
    BY ModeKept, <2>1, <2>2 DEF OrderInv, NotLater, Fvalue, Value
<1>4. CASE Expand
  <2>0. PICK kept \in SUBSET InBucket, fresh \in SUBSET State, ahead \in SUBSET State :
           fresh \subseteq kept /\ Expanded(kept, fresh, ahead)
    BY <1>4, ExpandFacts
  <2>1. /\ kept # {} /\ closed' = [closed EXCEPT !["fw"][bucket.g] = @ \cup kept]
        /\ \A x \in ahead : <<bucket.g, x>> \in open
        /\ \A e \in Queued' \ Queued :
              /\ e \in Entries
              /\ \E c \in DOMAIN task.ops : \E x \in fresh \cup ahead :
                    e[1] = bucket.g + c /\ Edge(task, "fw", c, x, e[2])
        /\ bucket' = NoBucket /\ h' = h
    BY <2>0 DEF Expanded
  <2>2. AtWork' = {}
    BY <2>1 DEF AtWork, InBucket, NoBucket
  <2>3. Listed' \subseteq Listed \cup AtWork
    <3> SUFFICES ASSUME NEW e \in Listed', e \notin Listed PROVE e \in AtWork
      OBVIOUS
    <3>1. e \in Level \X State /\ e[2] \in closed'["fw"][e[1]] /\ e[1] \in Level
      BY DEF Listed
    <3>2. e[2] \notin closed["fw"][e[1]]
      BY <3>1 DEF Listed
    <3>3. e[1] = bucket.g /\ e[2] \in kept
      BY <2>1, <3>1, <3>2 DEF TypeOK, EngineTypeOK, Levels, Dir
    <3>4. e = <<e[1], e[2]>>
      BY <3>1
    <3>5. QED
      BY <2>0, <3>3, <3>4 DEF AtWork
  <2>4. ASSUME NEW e \in AtWork, NEW f \in Queued' \ Queued PROVE NotLater(e, f)
    <3>1. PICK b \in InBucket : e = <<bucket.g, b>>
      BY DEF AtWork
    <3>2. f \in Entries
      BY <2>1, <2>4
    <3>3. PICK c \in DOMAIN task.ops, x \in fresh \cup ahead :
             f[1] = bucket.g + c /\ Edge(task, "fw", c, x, f[2])
      BY <2>1, <2>4
    <3>4. x \in State /\ (x \in InBucket \/ <<bucket.g, x>> \in open)
      BY <2>0, <2>1, <3>3
    <3>5. QED
      BY <3>1, <3>2, <3>3, <3>4, SuccessorsComeLater
  <2>5. ASSUME NEW e \in Listed, NEW f \in Queued' \ Queued PROVE NotLater(e, f)
    <3>1. PICK b \in InBucket : TRUE
      BY <2>0, <2>1
    <3>2. <<bucket.g, b>> \in AtWork
      BY <3>1 DEF AtWork
    <3>3. NotLater(e, <<bucket.g, b>>) /\ NotLater(<<bucket.g, b>>, f)
      BY <2>4, <2>5, <3>2 DEF OrderInv
    <3>4. f \in Level \X State
      BY <2>1, <2>5 DEF Entries
    <3>5. e \in Level \X State /\ <<bucket.g, b>> \in Level \X State
      BY <2>5, <3>2, NotLaterFacts
    <3>6. QED
      BY <3>3, <3>4, <3>5, NotLaterFacts
  <2>6. \A e \in Listed' : \A f \in Queued' : NotLater(e, f)
    BY <2>3, <2>4, <2>5 DEF OrderInv
  <2>7. QED
    BY ModeKept, <2>1, <2>2, <2>6 DEF OrderInv, NotLater, Fvalue, Value
<1>5. QED
  BY <1>1, <1>2, <1>3, <1>4, StepKinds

\* States are closed by Expand, from the bucket at work.
LEMMA ClosedInOrder ==
    TypeOK /\ HeuristicType /\ OrderInv /\ [Next]_vars =>
        \A g \in Level : \A s \in closed'["fw"][g] \ closed["fw"][g] :
            \A k \in Level : \A r \in closed["fw"][k] :
                \/ Fvalue(<<k, r>>) < Fvalue(<<g, s>>)
                \/ Fvalue(<<k, r>>) = Fvalue(<<g, s>>) /\ k <= g
<1> SUFFICES ASSUME TypeOK, HeuristicType, OrderInv, [Next]_vars,
                    NEW g \in Level, NEW s \in closed'["fw"][g] \ closed["fw"][g],
                    NEW k \in Level, NEW r \in closed["fw"][k]
             PROVE  NotLater(<<k, r>>, <<g, s>>)
  BY DEF NotLater
<1>1. closed' # closed
  OBVIOUS
<1>2. Expand
  BY <1>1, StepKinds, SelectFacts, DiscardFacts DEF Idle, Selected
<1>3. PICK kept \in SUBSET InBucket, fresh \in SUBSET State, ahead \in SUBSET State :
         fresh \subseteq kept /\ Expanded(kept, fresh, ahead)
  BY <1>2, ExpandFacts
<1>4. closed' = [closed EXCEPT !["fw"][bucket.g] = @ \cup kept]
  BY <1>3 DEF Expanded
<1>5. g = bucket.g /\ s \in kept /\ r \in State
  BY <1>4 DEF TypeOK, EngineTypeOK, Levels, Dir
<1>6. <<g, s>> \in AtWork /\ <<k, r>> \in Listed
  BY <1>3, <1>5 DEF AtWork, Listed
<1>7. QED
  BY <1>6 DEF OrderInv
-----------------------------------------------------------------------------
(* Nothing is lost *)

\* y, found at cost n, is a dead end, or on no plan cheaper than the best one
\* known, or it is listed or at work at no larger cost.
Accounted(n, y) ==
    \/ h[y] = INT_MAX
    \/ (y \in task.goal \/ PruneOnly) /\ upper_bound <= n + h[y]
    \/ \E k \in Level : /\ k <= n
                         /\ \/ <<k, y>> \in Queued
                            \/ k = bucket.g /\ y \in InBucket
                            \/ y \in closed["fw"][k]

\* The states whose image at cost g was computed.
AllImaged(g) == {s \in State : <<g, s>> \in preexpanded} \cup closed["fw"][g]
                   \cup {s \in bucket.cached : g = bucket.g}

LostInv ==
    ~Solved =>
        /\ task.init \in task.notMutex["fw"] => Accounted(0, task.init)
        /\ \A g \in Level : \A c \in DOMAIN task.ops :
              \A s \in (AllImaged(g) \cap task.notMutex["fw"]) \ task.goal :
                 \A y \in Image(task, "fw", c, {s}) \cap task.notMutex["fw"] : Accounted(g + c, y)

\* The driver's bounds move towards each other only.
LEMMA BoundsOnlyTighten ==
    ASSUME TypeOK, [Next]_vars
    PROVE  /\ lower_bound \in Nat /\ upper_bound \in Nat
           /\ lower_bound <= lower_bound' /\ upper_bound' <= upper_bound
           /\ lower_bound' \in Int /\ upper_bound' \in Nat
<1> USE DEF engine, search
<1>1. /\ lower_bound \in Nat /\ upper_bound \in Nat /\ upper_bound \in Level
      /\ IsTask(task) /\ closed \in [Dir -> Levels]
  BY EngineFacts DEF TypeOK, EngineTypeOK
<1>2. ASSUME NEW x \in Level, SetLowerBound(x)
      PROVE  lower_bound <= lower_bound' /\ lower_bound' \in Int
  BY <1>1, <1>2, LevelFacts DEF SetLowerBound, GreaterOf
<1>3. ASSUME NEW sols, sols \subseteq Cuts, NewSolutions(sols)
      PROVE  upper_bound' <= upper_bound /\ upper_bound' \in Nat
  BY <1>1, <1>3, NewSolutionsFacts, LevelFacts
<1>4. CASE Step
  <2>1. EmptyPlan \subseteq Cuts
    BY <1>1, EmptyPlanType
  <2>2. QED
    BY <1>1, <1>3, <1>4, <2>1 DEF Step, StepEngine
<1>5. CASE Select
  <2>1. PICK g, v \in Level : Selected(g, v)
    BY <1>5, SelectFacts
  <2> DEFINE B == PickedAt(g, v)
             sols == CheapestCut("fw", g, B)
  <2>2. g + v \in Level /\ SetLowerBound(g + v) /\ NewSolutions(sols)
    BY <2>1 DEF Selected
  <2>3. B \in SUBSET State /\ "fw" \in Dir
    BY DEF PickedAt, Dir
  <2>4. CheapestCuts("fw", g, B) \subseteq Cuts
    BY <1>1, <2>3, CheapestCutsType
  <2>5. sols \subseteq CheapestCuts("fw", g, B)
    BY DEF CheapestCuts
  <2>6. sols \subseteq Cuts
    BY <2>4, <2>5
  <2> HIDE DEF sols
  <2>7. QED
    BY <1>1, <1>2, <1>3, <2>2, <2>6
<1>6. CASE Finish
  <2>1. MinOpenF \in Level
    BY MinOpenFType
  <2>2. SetLowerBound(MinOpenF) /\ upper_bound' = upper_bound
    BY <1>6 DEF Finish
  <2>3. QED
    BY <1>1, <1>2, <2>1, <2>2
<1>7. CASE Unsolvable \/ Discard \/ Expand \/ Done \/ UNCHANGED vars
  BY <1>1, <1>7 DEF Unsolvable, Discard, Expand, Done, vars
<1>8. QED
  BY <1>4, <1>5, <1>6, <1>7 DEF Next

\* A goal state of a selected bucket yields a plan of the bucket's g.
LEMMA GoalCut ==
    ASSUME FixedInv, NEW g \in Level, NEW B \in SUBSET State, NEW s \in B, s \in task.goal
    PROVE  \E sol \in CheapestCut("fw", g, B) : Cost(sol) = g
<1> DEFINE met == {k \in Level : B \cap closed["bw"][k] # {}}
           sol == [g |-> g, h |-> Least(met), cut |-> B \cap closed["bw"][Least(met)]]
<1>1. 0 \in Level /\ Opposite("fw") = "bw"
  BY LevelFacts DEF Opposite
<1>2. closed["bw"][0] = task.goal /\ \A k \in Level \ {0} : closed["bw"][k] = {}
  BY <1>1 DEF FixedInv
<1>3. met = {0}
  BY <1>1, <1>2
<1>4. Least(met) = 0
  BY <1>3 DEF Least
<1>5. sol \in CheapestCut("fw", g, B)
  BY <1>1, <1>3 DEF CheapestCut
<1>6. Cost(sol) = g
  <2>1. sol.g = g /\ sol.h = 0 /\ g \in Nat
    BY <1>4, LevelFacts
  <2> HIDE DEF sol
  <2>2. QED
    BY <2>1 DEF Cost
<1> HIDE DEF sol
<1>7. QED
  BY <1>5, <1>6

\* A state that waits at k was not closed at more.
LEMMA ClosedAtMost ==
    ASSUME TypeOK, OrderInv, NEW k \in Level, NEW s \in State, <<k, s>> \in Queued,
           s \in ClosedTotal("fw")
    PROVE  \E j \in Level : j <= k /\ s \in closed["fw"][j]
<1>1. PICK j \in Level : s \in closed["fw"][j]
  BY DEF ClosedTotal
<1>2. <<j, s>> \in Listed
  BY <1>1 DEF Listed
<1>3. NotLater(<<j, s>>, <<k, s>>)
  BY <1>2 DEF OrderInv
<1>4. j \in Nat /\ k \in Nat /\ Value(s) \in Nat
  BY LevelFacts, ValueFacts
<1>5. j <= k
  BY <1>3, <1>4 DEF NotLater, Fvalue
<1>6. QED
  BY <1>1, <1>5

\* What is accounted for stays so until the bounds have met.
LEMMA AccountedNext ==
    ASSUME TypeOK, HeuristicType, FixedInv, OrderInv, [Next]_vars, ~Solved',
           NEW n \in Nat, NEW y \in State, y \in task.notMutex["fw"], Accounted(n, y)
    PROVE  Accounted(n, y)'
<1> USE DEF engine
<1>1. /\ upper_bound \in Nat /\ upper_bound' \in Nat /\ upper_bound' <= upper_bound
      /\ h[y] \in Nat
  BY BoundsOnlyTighten, ValueFacts
<1>2. /\ task' = task /\ h' = h
      /\ \A k \in Level : closed["fw"][k] \subseteq closed'["fw"][k]
  <2>1. CASE Idle
    BY <2>1 DEF Idle
  <2>2. CASE Select
    BY <2>2 DEF Select
  <2>3. CASE Discard
    BY <2>3, DiscardFacts
  <2>4. CASE Expand
    <3>1. PICK kept \in SUBSET InBucket, fresh \in SUBSET State, ahead \in SUBSET State :
             fresh \subseteq kept /\ Expanded(kept, fresh, ahead)
      BY <2>4, ExpandFacts
    <3>2. closed' = [closed EXCEPT !["fw"][bucket.g] = @ \cup kept] /\ UNCHANGED <<task, h>>
      BY <3>1 DEF Expanded
    <3>3. QED
      BY <3>2 DEF TypeOK, EngineTypeOK, Levels, Dir
  <2>5. QED
    BY <2>1, <2>2, <2>3, <2>4, StepKinds
<1>3. CASE h[y] = INT_MAX
  BY <1>2, <1>3 DEF Accounted
<1>4. CASE (y \in task.goal \/ PruneOnly) /\ upper_bound <= n + h[y]
  <2>1. upper_bound' <= n + h[y]
    BY <1>1, <1>4
  <2>2. QED
    BY <1>2, <1>4, <2>1 DEF Accounted, PruneOnly
<1>5. ASSUME NEW k \in Level, k <= n, y \in closed["fw"][k]
      PROVE  Accounted(n, y)'
  BY <1>2, <1>5 DEF Accounted
<1>6. ASSUME NEW k \in Level, k <= n, <<k, y>> \in Queued
      PROVE  Accounted(n, y)'
  <2>1. CASE <<k, y>> \in Queued'
    BY <1>6, <2>1 DEF Accounted
  <2>2. CASE <<k, y>> \notin Queued'
    <3>1. Select
      <4>1. Idle => Queued' = Queued
        BY DEF Idle, Queued
      <4>2. Discard => Queued' = Queued
        BY DiscardFacts DEF Queued
      <4>3. Expand => Queued \subseteq Queued'
        BY ExpandFacts DEF Expanded
      <4>4. QED
        BY <1>6, <2>2, <4>1, <4>2, <4>3, StepKinds
    <3>2. PICK g, v \in Level : Selected(g, v)
      BY <3>1, SelectFacts
    <3>3. k = g /\ y \in PickedAt(g, v)
      BY <1>6, <2>2, <3>2 DEF Selected, Queued, PickedAt
    <3>4. CASE y \in task.goal
      <4> DEFINE sols == CheapestCut("fw", g, PickedAt(g, v))
      <4>1. PickedAt(g, v) \in SUBSET State /\ "fw" \in Dir /\ closed \in [Dir -> Levels]
        BY DEF PickedAt, Dir, TypeOK, EngineTypeOK
      <4>2. PICK sol \in sols : Cost(sol) = g
        BY <3>3, <3>4, <4>1, GoalCut
      <4>3. sols \subseteq CheapestCuts("fw", g, PickedAt(g, v))
        BY DEF CheapestCuts
      <4>4. sols \subseteq Cuts
        BY <4>1, <4>3, CheapestCutsType
      <4>5. NewSolutions(sols) /\ upper_bound \in Level
        BY <3>2 DEF Selected, TypeOK, EngineTypeOK
      <4> HIDE DEF sols
      <4>6. upper_bound' <= g
        BY <4>2, <4>4, <4>5, NewSolutionsFacts
      <4>7. upper_bound' <= n + h[y]
        <5>1. k \in Nat /\ upper_bound' <= k
          BY <3>3, <4>6, LevelFacts
        <5>2. upper_bound' <= n
          BY <1>1, <1>6, <5>1
        <5>3. QED
          BY <1>1, <5>2
      <4>8. QED
        BY <1>2, <3>4, <4>7 DEF Accounted
    <3>5. CASE y \in ClosedTotal("fw")
      <4>1. PICK j \in Level : j <= k /\ y \in closed["fw"][j]
        BY <1>6, <3>5, ClosedAtMost
      <4>2. j <= n
        BY <1>6, <4>1, LevelFacts
      <4>3. QED
        BY <1>5, <4>1, <4>2
    <3>6. CASE y \notin task.goal /\ y \notin ClosedTotal("fw")
      <4>1. bucket'.g = g /\ y \in InBucket'
        BY <3>2, <3>3, <3>6, ClosedGoals DEF Selected, Solved
      <4>2. QED
        BY <1>6, <3>3, <4>1 DEF Accounted
    <3>7. QED
      BY <3>4, <3>5, <3>6
  <2>3. QED
    BY <2>1, <2>2
<1>7. ASSUME bucket.g <= n, y \in InBucket
      PROVE  Accounted(n, y)'
  <2>0. bucket.g \in Level /\ pc = "expand" /\ bucket.g \in Nat
    BY <1>7, LevelFacts DEF TypeOK, FixedInv
  <2>1. CASE Idle
    <3>1. bucket' = bucket /\ InBucket' = InBucket
      BY <2>1 DEF Idle, InBucket
    <3>2. QED
      BY <1>7, <2>0, <3>1 DEF Accounted
  <2>2. ASSUME Useless(y) PROVE Accounted(n, y)'
    <3>1. PruneOnly /\ upper_bound' <= n + h[y]
      BY <1>1, <1>7, <2>0, <2>2 DEF Useless
    <3>2. QED
      BY <1>2, <3>1 DEF Accounted, PruneOnly
  <2>3. CASE Discard
    BY <1>7, <2>2, <2>3, DiscardFacts
  <2>4. CASE Expand
    <3>1. PICK kept \in SUBSET InBucket, fresh \in SUBSET State, ahead \in SUBSET State :
             fresh \subseteq kept /\ Expanded(kept, fresh, ahead)
      BY <2>4, ExpandFacts
    <3>2. /\ closed' = [closed EXCEPT !["fw"][bucket.g] = @ \cup kept]
          /\ \A s \in (InBucket \cap task.notMutex["fw"]) \ kept : Useless(s)
      BY <3>1 DEF Expanded
    <3>3. CASE y \in kept
      <4>1. y \in closed'["fw"][bucket.g]
        BY <2>0, <3>2, <3>3 DEF TypeOK, EngineTypeOK, Levels, Dir
      <4>2. QED
        BY <1>7, <2>0, <4>1 DEF Accounted
    <3>4. CASE y \notin kept
      BY <1>7, <2>2, <3>2, <3>4
    <3>5. QED
      BY <3>3, <3>4
  <2>5. ~Select
    BY <2>0 DEF Select
  <2>6. QED
    BY <2>1, <2>3, <2>4, <2>5, StepKinds
<1>8. QED
  BY <1>3, <1>4, <1>5, <1>6, <1>7 DEF Accounted

\* LostInv holds at the start.
LEMMA LostInvInit == Init => LostInv
<1> SUFFICES ASSUME Init PROVE LostInv
  OBVIOUS
<1>1. "fw" \in Dir /\ 0 \in Level
  BY LevelFacts DEF Dir
<1>2. \A g \in Level : AllImaged(g) = {}
  BY <1>1 DEF Init, AllImaged, NoStates, NoBucket
<1>3. Accounted(0, task.init)
  BY <1>1 DEF Init, Accounted, Queued
<1>4. QED
  BY <1>2, <1>3 DEF LostInv

\* What is accounted for at some cost is so at any larger one.
LEMMA AccountedRises ==
    ASSUME TypeOK, NEW m \in Nat, NEW n \in Nat, m <= n, NEW y \in State, Accounted(m, y)
    PROVE  Accounted(n, y)
<1>1. h[y] \in Nat /\ upper_bound \in Nat
  BY ValueFacts, EngineFacts DEF TypeOK
<1>2. \A k \in Level : k <= m => k <= n
  BY LevelFacts
<1>3. upper_bound <= m + h[y] => upper_bound <= n + h[y]
  BY <1>1
<1>4. QED
  BY <1>2, <1>3 DEF Accounted

\* Every state imaged after a step was imaged before, or is imaged by it, and
\* then its successors are accounted for.
LEMMA NewlyImaged ==
    ASSUME TypeOK, HeuristicType, FixedInv, OrderInv, [Next]_vars, NEW g \in Level,
           NEW s \in (AllImaged(g)' \cap task.notMutex["fw"]) \ task.goal,
           NEW c \in DOMAIN task.ops, NEW y \in State, Edge(task, "fw", c, s, y)
    PROVE  (\E j \in Level : j <= g /\ s \in AllImaged(j)) \/ Accounted(g + c, y)'
<1> USE DEF engine
<1>0. g \in Nat /\ g <= g /\ IsTask(task) /\ bucket.g \in Level
  BY LevelFacts DEF TypeOK, EngineTypeOK
<1>1. CASE Idle
  <2>1. AllImaged(g)' = AllImaged(g)
    BY <1>1 DEF Idle, AllImaged
  <2>2. QED
    BY <1>0, <2>1
<1>2. CASE Select
  <2>1. PICK n, v \in Level : Selected(n, v)
    BY <1>2, SelectFacts
  <2>2. /\ preexpanded' \subseteq preexpanded /\ closed' = closed
        /\ \/ bucket' = bucket
           \/ bucket'.g = n /\ \A x \in bucket'.cached : <<n, x>> \in preexpanded
    BY <2>1 DEF Selected
  <2>3. bucket'.cached \subseteq State \/ bucket' = bucket
    <3>1. \A x \in bucket'.cached : <<n, x>> \in preexpanded => x \in State
      BY DEF TypeOK, Entries
    <3>2. QED
      BY <2>2, <3>1
  <2>4. s \in AllImaged(g)
    BY <2>2, <2>3 DEF AllImaged
  <2>5. QED
    BY <1>0, <2>4
<1>3. CASE Discard
  <2>1. UNCHANGED <<closed, preexpanded>> /\ bucket' = NoBucket
    BY <1>3, DiscardFacts
  <2>2. s \in AllImaged(g)
    BY <2>1 DEF AllImaged, NoBucket
  <2>3. QED
    BY <1>0, <2>2
<1>4. CASE Expand
  <2>1. PICK kept \in SUBSET InBucket, fresh \in SUBSET State, ahead \in SUBSET State :
           fresh \subseteq kept /\ Expanded(kept, fresh, ahead)
    BY <1>4, ExpandFacts
  <2>2. /\ kept \subseteq fresh \cup bucket.cached
        /\ closed' = [closed EXCEPT !["fw"][bucket.g] = @ \cup kept]
        /\ \A x \in ahead : <<bucket.g, x>> \in open
        /\ \A e \in Queued' \ Queued : e \in Entries
        /\ \A e \in preexpanded' \ preexpanded :
              /\ e \in open /\ e[1] = bucket.g
              /\ \/ e[2] \in ahead
                 \/ e[2] \notin task.notMutex["fw"]
                 \/ e[2] \in ClosedTotal("bw") \cup ClosedTotal("fw") \cup kept
        /\ bucket' = NoBucket /\ UNCHANGED <<task, h, upper_bound>>
    BY <2>1 DEF Expanded
  <2>3. \A x \in fresh \cup ahead : Edge(task, "fw", c, x, y) =>
              \/ h[y] = INT_MAX
              \/ <<bucket.g + c, y>> \in Queued'
              \/ PruneOnly /\ upper_bound <= bucket.g + c + h[y]
    BY <2>1 DEF Expanded
  <2>4. bucket.g + c \in Nat /\ bucket.g + c < INT_MAX /\ bucket.g + c \in Level
    <3>1. bucket.g \in Nat /\ c \in Nat /\ bucket.g + c + 0 < INT_MAX
      BY <1>0, <1>4, LevelFacts, MinTransitionCostFacts DEF Expand
    <3>2. QED
      BY <3>1, IntMaxAssumption DEF Level
  <2>5. ASSUME s \in fresh \cup ahead, g = bucket.g PROVE Accounted(g + c, y)'
    <3>1. g + c <= g + c
      BY <2>4, <2>5
    <3>2. QED
      BY <2>2, <2>3, <2>4, <2>5, <3>1 DEF Accounted, PruneOnly
  <2>6. ASSUME s \in kept, g = bucket.g PROVE s \in AllImaged(g) \/ Accounted(g + c, y)'
    BY <2>2, <2>5, <2>6 DEF AllImaged
  <2>7. CASE s \in closed'["fw"][g]
    <3>1. s \in closed["fw"][g] \/ (s \in kept /\ g = bucket.g)
      BY <2>2, <2>7 DEF TypeOK, EngineTypeOK, Levels, Dir
    <3>2. QED
      BY <1>0, <2>6, <3>1 DEF AllImaged
  <2>8. CASE s \in State /\ <<g, s>> \in preexpanded /\ s \notin closed'["fw"][g]
    BY <1>0, <2>8 DEF AllImaged
  <2>9. CASE s \in State /\ <<g, s>> \in preexpanded' \ preexpanded
    <3>1. <<g, s>> \in open /\ g = bucket.g
      BY <2>2, <2>9
    <3>2. s \in ahead \/ s \in ClosedTotal("bw") \cup ClosedTotal("fw") \cup kept
      BY <2>2, <2>9
    <3>3. CASE s \in ClosedTotal("fw")
      BY <2>9, <3>1, <3>3, ClosedAtMost DEF AllImaged, Queued
    <3>4. QED
      BY <1>0, <2>5, <2>6, <3>1, <3>2, <3>3, ClosedGoals
  <2>10. QED
    BY <2>2, <2>7, <2>8, <2>9 DEF AllImaged, NoBucket
<1>5. QED
  BY <1>1, <1>2, <1>3, <1>4, StepKinds

\* LostInv is inductive.
LEMMA LostInvNext ==
    TypeOK /\ HeuristicType /\ FixedInv /\ OrderInv /\ LostInv /\ TypeOK' /\ [Next]_vars
    => LostInv'
<1> SUFFICES ASSUME TypeOK, HeuristicType, FixedInv, OrderInv, LostInv, TypeOK', [Next]_vars,
                    ~Solved'
             PROVE  LostInv'
  BY DEF LostInv
<1>1. ~Solved
  BY BoundsOnlyTighten DEF Solved
<1>2. task' = task /\ IsTask(task)
  BY StepKinds, SelectFacts, DiscardFacts, ExpandFacts
     DEF Idle, Selected, Expanded, TypeOK, EngineTypeOK
<1>3. task.init \in task.notMutex["fw"] => Accounted(0, task.init)'
  <2> SUFFICES ASSUME task.init \in task.notMutex["fw"] PROVE Accounted(0, task.init)'
    OBVIOUS
  <2>1. PICK y \in State : y = task.init
    BY <1>2 DEF IsTask
  <2>2. y \in task.notMutex["fw"] /\ Accounted(0, y)
    BY <1>1, <2>1 DEF LostInv
  <2>3. 0 \in Nat
    OBVIOUS
  <2>4. Accounted(0, y)'
    BY <2>2, <2>3, AccountedNext
  <2>5. QED
    BY <1>2, <2>1, <2>4 DEF Accounted
<1>4. ASSUME NEW g \in Level, NEW c \in DOMAIN task.ops,
             NEW s \in (AllImaged(g)' \cap task.notMutex["fw"]) \ task.goal,
             NEW y \in Image(task, "fw", c, {s}) \cap task.notMutex["fw"]
      PROVE  Accounted(g + c, y)'
  <2>1. y \in State /\ y \in task.notMutex["fw"] /\ Edge(task, "fw", c, s, y)
    BY DEF Image
  <2>2. c \in Nat /\ g \in Nat
    BY <1>2, MinTransitionCostFacts, LevelFacts
  <2>3. ASSUME NEW j \in Level, j <= g, s \in AllImaged(j) PROVE Accounted(g + c, y)'
    <3>0. j \in Nat
      BY LevelFacts
    <3>1. j + c \in Nat /\ g + c \in Nat /\ j + c <= g + c
      BY <2>2, <2>3, <3>0
    <3>2. Accounted(j + c, y)
      BY <1>1, <2>3 DEF LostInv
    <3>3. Accounted(g + c, y)
      BY <2>1, <3>1, <3>2, AccountedRises
    <3>4. QED
      BY <2>1, <3>1, <3>3, AccountedNext
  <2>4. QED
    BY <2>1, <2>3, NewlyImaged
<1>5. QED
  BY <1>2, <1>3, <1>4 DEF LostInv

\* What the property NothingLost says is part of LostInv.
LEMMA LostInvImplies == TypeOK /\ LostInv => NothingLost
<1> SUFFICES ASSUME TypeOK, LostInv, ~Solved, NEW g \in Level, NEW c \in DOMAIN task.ops,
               NEW s \in (({x \in State : <<g, x>> \in preexpanded} \cup closed["fw"][g])
                               \cap task.notMutex["fw"]) \ task.goal,
               NEW y \in Image(task, "fw", c, {s}) \cap task.notMutex["fw"]
             PROVE
               \/ h[y] = INT_MAX
               \/ (y \in task.goal \/ PruneOnly) /\ upper_bound <= g + c + h[y]
               \/ \E k \in Level :
                     /\ k <= g + c
                     /\ \/ \/ <<k, y>> \in open \cup preexpanded
                           \/ k = bucket.g /\ y \in bucket.fresh \cup bucket.cached
                        \/ y \in closed["fw"][k]
  BY DEF NothingLost
<1>1. s \in AllImaged(g)
  BY DEF AllImaged
<1>2. Accounted(g + c, y)
  BY <1>1 DEF LostInv
<1>3. QED
  BY <1>2 DEF Accounted, Queued, InBucket
-----------------------------------------------------------------------------
(* The estimates *)

\* A consistent heuristic that is zero on goals is admissible.
LEMMA Admissible ==
    ASSUME TypeOK, FixedInv, NEW s \in State
    PROVE  h[s] <= task.dist["bw"][s]
<1>1. /\ IsTask(task) /\ "bw" \in Dir /\ h \in [State -> Level]
      /\ Source(task, "bw") = task.goal
  BY DEF TypeOK, EngineTypeOK, Dir, Source
<1>2. \A x \in Source(task, "bw") : h[x] = 0
  BY <1>1 DEF FixedInv, IsHeuristic
<1>3. ASSUME NEW c \in DOMAIN task.ops, NEW x \in State, NEW y \in State,
             Edge(task, "bw", c, x, y)
      PROVE  h[y] <= h[x] + c
  <2>1. <<y, x>> \in task.ops[c]
    BY <1>3 DEF Edge
  <2>2. h[x] # INT_MAX => h[y] <= c + h[x]
    BY <2>1 DEF FixedInv, IsHeuristic
  <2>3. c \in Nat /\ h[x] \in Nat /\ h[y] \in Nat /\ h[y] <= INT_MAX /\ INT_MAX \in Nat
    BY <1>1, MinTransitionCostFacts, ValueFacts, LevelFacts
  <2>4. QED
    BY <2>2, <2>3
<1>4. QED
  BY <1>1, <1>2, <1>3, ConsistentIsAdmissible

\* A state of a plan of optimal cost, reached at its distance.
OnPlan(x) == CostThrough(task, x) = Optimum

\* x is listed or at work at its distance, or at less.
ReachedInTime(x) ==
    \E k \in Level : /\ k <= task.dist["fw"][x]
                     /\ \/ <<k, x>> \in Queued
                        \/ k = bucket.g /\ x \in InBucket
                        \/ x \in closed["fw"][k]

\* On a plan of optimal cost nothing is a dead end or useless.
LEMMA UsefulIsReached ==
    ASSUME TypeOK, FixedInv, Optimum < upper_bound,
           NEW x \in State, OnPlan(x), Accounted(task.dist["fw"][x], x)
    PROVE  ReachedInTime(x)
<1>1. IsTask(task) /\ "fw" \in Dir /\ Opposite("fw") = "bw"
  BY DEF TypeOK, EngineTypeOK, Dir, Opposite
<1>2. /\ task.dist["fw"][x] \in Nat /\ h[x] \in Nat
      /\ Optimum = task.dist["fw"][x] + task.dist["bw"][x]
  BY <1>1, DistanceFacts, ValueFacts DEF OnPlan
<1>3. task.dist["bw"][x] \in Nat
  BY <1>1, DistanceFacts DEF Dir
<1>4. h[x] <= task.dist["bw"][x]
  BY Admissible
<1>5. Optimum \in Nat /\ upper_bound \in Nat /\ upper_bound <= INT_MAX /\ INT_MAX \in Nat
  BY EngineFacts, LevelFacts DEF TypeOK
<1>6. h[x] # INT_MAX /\ ~(upper_bound <= task.dist["fw"][x] + h[x])
  BY <1>2, <1>3, <1>4, <1>5
<1>7. QED
  BY <1>6 DEF Accounted, ReachedInTime

\* While a cheapest plan is missing, one of its states is queued or at work,
\* with an f of at most the plan's cost: the last one that was reached in time.
LEMMA SomeoneWaits ==
    ASSUME TypeOK, FixedInv, LevelInv, LostInv, ~Solved, Optimum < upper_bound
    PROVE  \E e \in Queued \cup AtWork : Fvalue(e) <= Optimum
<1>1. /\ IsTask(task) /\ task.init \in State
      /\ "fw" \in Dir /\ "bw" \in Dir /\ Opposite("fw") = "bw"
  BY DEF TypeOK, EngineTypeOK, IsTask, Dir, Opposite
<1>2. Optimum \in Nat /\ upper_bound \in Nat /\ upper_bound <= INT_MAX /\ INT_MAX \in Nat
  BY EngineFacts, LevelFacts DEF TypeOK
<1>3. ASSUME NEW x \in State
      PROVE  /\ task.dist["fw"][x] \in Nat /\ task.dist["bw"][x] \in Nat
             /\ task.rank["bw"] \in [State -> Nat]
             /\ CostThrough(task, x) = task.dist["fw"][x] + task.dist["bw"][x]
             /\ Optimum <= CostThrough(task, x)
             /\ x \in Source(task, "bw") <=> x \in task.goal
             /\ OnPlan(x) => x \in task.notMutex["fw"]
  <2>1. /\ task.dist["fw"][x] \in Nat /\ task.dist["bw"][x] \in Nat
        /\ task.rank["bw"] \in [State -> Nat]
        /\ CostThrough(task, x) = task.dist["fw"][x] + task.dist["bw"][x]
    BY <1>1, DistanceFacts
  <2>2. Optimum <= CostThrough(task, x)
    BY <1>1, OptimumIsLeast DEF Optimum
  <2>3. OnPlan(x) => CostThrough(task, x) < INT_MAX
    BY <1>2 DEF OnPlan
  <2>4. QED
    BY <1>1, <2>1, <2>2, <2>3, PlansAvoidMutexes DEF Source
<1> DEFINE Reached == {x \in State : OnPlan(x) /\ ReachedInTime(x)}
<1>4. task.init \in Reached
  <2>1. task.dist["fw"][task.init] = 0
    BY <1>1, DistanceFacts DEF Source
  <2>2. OnPlan(task.init)
    BY <1>1, <1>2, <1>3, <2>1 DEF OnPlan, Optimum, OptimalCost
  <2>3. Accounted(0, task.init)
    BY <1>1, <1>3, <2>2 DEF LostInv
  <2>4. ReachedInTime(task.init)
    BY <1>1, <2>1, <2>2, <2>3, UsefulIsReached
  <2>5. QED
    BY <1>1, <2>2, <2>4
<1>5. PICK x \in Reached : \A y \in Reached : task.rank["bw"][x] <= task.rank["bw"][y]
  BY <1>1, <1>3, <1>4, LeastRank
<1>6. PICK k \in Level : /\ k <= task.dist["fw"][x]
                        /\ \/ <<k, x>> \in Queued
                           \/ k = bucket.g /\ x \in InBucket
                           \/ x \in closed["fw"][k]
  BY <1>5 DEF ReachedInTime
<1>7. k \in Nat /\ x \in State /\ OnPlan(x) /\ CostThrough(task, x) = Optimum
  BY <1>5, LevelFacts DEF OnPlan
<1>8. CASE <<k, x>> \in Queued \cup AtWork
  <2>1. Value(x) \in Nat /\ h[x] \in Nat /\ Value(x) <= h[x] /\ h[x] <= task.dist["bw"][x]
    BY <1>7, ValueFacts, Admissible
  <2>2. k + Value(x) <= Optimum
    BY <1>3, <1>6, <1>7, <2>1
  <2>3. QED
    BY <1>8, <2>2 DEF Fvalue
<1>9. CASE <<k, x>> \notin Queued \cup AtWork
  <2>1. x \in closed["fw"][k]
    BY <1>6, <1>9 DEF AtWork
  <2>2. k = task.dist["fw"][x]
    BY <1>3, <1>6, <1>7, <2>1 DEF LevelInv
  <2>3. x \notin task.goal /\ x \in AllImaged(k)
    BY <2>1 DEF FixedInv, AllImaged
  <2>4. x \in State \ Source(task, "bw") /\ task.dist["bw"][x] < INT_MAX
    BY <1>2, <1>3, <1>7, <2>3
  <2>5. PICK c \in DOMAIN task.ops : \E y \in State :
              /\ c \in Nat
              /\ Edge(task, "bw", c, y, x)
              /\ task.dist["bw"][x] = task.dist["bw"][y] + c
              /\ task.rank["bw"][y] < task.rank["bw"][x]
              /\ CostThrough(task, y) <= CostThrough(task, x)
    BY <1>1, <2>4, CheapestPredecessor
  <2>6. PICK y \in State :
              /\ c \in Nat
              /\ Edge(task, "bw", c, y, x)
              /\ task.dist["bw"][x] = task.dist["bw"][y] + c
              /\ task.rank["bw"][y] < task.rank["bw"][x]
              /\ CostThrough(task, y) <= CostThrough(task, x)
    BY <2>5
  <2>7. CostThrough(task, y) = Optimum /\ OnPlan(y)
    <3>1. task.dist["fw"][y] \in Nat /\ task.dist["bw"][y] \in Nat
      BY <1>3
    <3>2. CostThrough(task, y) = task.dist["fw"][y] + task.dist["bw"][y]
      BY <1>3
    <3>3. Optimum <= CostThrough(task, y) /\ CostThrough(task, y) <= Optimum
      BY <1>3, <1>7, <2>6
    <3>4. CostThrough(task, y) = Optimum
      BY <1>2, <3>1, <3>2, <3>3
    <3>5. QED
      BY <3>4 DEF OnPlan
  <2>8. task.dist["fw"][y] = k + c
    <3>1. Optimum = task.dist["fw"][y] + task.dist["bw"][y]
      BY <1>3, <2>7
    <3>2. Optimum = k + (task.dist["bw"][y] + c)
      BY <1>3, <1>7, <2>2, <2>6
    <3>3. task.dist["fw"][y] \in Nat /\ task.dist["bw"][y] \in Nat
      BY <1>3
    <3>4. QED
      BY <1>7, <2>6, <3>1, <3>2, <3>3
  <2>9. Edge(task, "fw", c, x, y)
    BY <2>6 DEF Edge
  <2>10. y \in Image(task, "fw", c, {x}) \cap task.notMutex["fw"]
    BY <1>3, <2>7, <2>9 DEF Image
  <2>11. x \in (AllImaged(k) \cap task.notMutex["fw"]) \ task.goal
    BY <1>3, <1>7, <2>3
  <2>12. Accounted(k + c, y)
    BY <2>10, <2>11 DEF LostInv
  <2>13. ReachedInTime(y)
    BY <2>7, <2>8, <2>12, UsefulIsReached
  <2>14. task.rank["bw"][x] <= task.rank["bw"][y]
    BY <1>5, <2>7, <2>13
  <2>15. task.rank["bw"][x] \in Nat /\ task.rank["bw"][y] \in Nat
    BY <1>3, <1>7
  <2>16. QED
    BY <2>6, <2>14, <2>15
<1>10. QED
  BY <1>8, <1>9

-----------------------------------------------------------------------------
(* The lower bound *)

\* The bounds are sound, also the value of the initial state, and an engine
\* that answered did so in its driver, or found the initial state a dead end.
BoundInv ==
    /\ BoundsSound
    /\ pc = "init" => lower_bound <= Optimum
    /\ status # "IN_PROGRESS" => \/ pc = "step"
                                 \/ /\ pc = "init" /\ status = "FAILED"
                                    /\ Optimum = INT_MAX

\* A dead end has no plan.
LEMMA DeadEndHasNoPlan ==
    ASSUME TypeOK, FixedInv
    PROVE  h[task.init] <= Optimum /\ (h[task.init] = INT_MAX => Optimum = INT_MAX)
<1>1. task.init \in State
  BY DEF TypeOK, EngineTypeOK, IsTask
<1>2. h[task.init] <= Optimum
  BY <1>1, Admissible DEF Optimum, OptimalCost
<1>3. QED
  BY <1>2, EngineFacts, LevelFacts DEF TypeOK

\* BoundInv holds at the start.
LEMMA BoundInvInit == Init => BoundInv
<1> SUFFICES ASSUME Init PROVE BoundInv
  OBVIOUS
<1>1. TypeOK /\ FixedInv
  BY TypeInit, FixedInit
<1>2. Optimum \in Nat
  BY <1>1, EngineFacts DEF TypeOK
<1>3. lower_bound <= Optimum
  BY <1>1, <1>2, DeadEndHasNoPlan DEF Init
<1>4. QED
  BY <1>3 DEF Init, BoundInv, BoundsSound

\* BoundInv is inductive: the key selected, and what min_open_f returns, are at
\* most the f of the state that waits.
LEMMA BoundInvNext ==
    /\ TypeOK /\ HeuristicType /\ FixedInv /\ LevelInv /\ LostInv /\ BoundInv
    /\ [Next]_vars
    => BoundInv'
<1> SUFFICES ASSUME TypeOK, HeuristicType, FixedInv, LevelInv, LostInv, BoundInv, [Next]_vars
             PROVE  BoundInv'
  OBVIOUS
<1> USE DEF engine, search
<1>1. /\ EngineTypeOK /\ BoundsSound
      /\ Optimum \in Nat /\ Optimum <= INT_MAX /\ INT_MAX \in Nat
      /\ lower_bound \in Nat /\ upper_bound \in Nat
  BY EngineFacts, LevelFacts DEF TypeOK, BoundInv
<1>2. upper_bound' \in Nat /\ upper_bound' <= upper_bound
  BY BoundsOnlyTighten
<1>3. CASE Step
  <2>1. /\ UNCHANGED <<task, lower_bound>> /\ pc' # "init" /\ pc \in {"init", "step"}
        /\ status' # "IN_PROGRESS" => pc' = "step"
    BY <1>3 DEF Step, StepEngine
  <2>2. Optimum' = Optimum
    BY <2>1 DEF Optimum
  <2>3. BoundsSound'
    BY <1>1, <1>2, <2>1, <2>2 DEF BoundInv, BoundsSound
  <2>4. QED
    BY <2>1, <2>3 DEF BoundInv
<1>4. CASE Unsolvable
  <2>1. /\ UNCHANGED <<task, lower_bound, pc>> /\ pc = "init" /\ status' = "FAILED"
        /\ h[task.init] = INT_MAX
    BY <1>4 DEF Unsolvable
  <2>2. Optimum' = Optimum
    BY <2>1 DEF Optimum
  <2>3. QED
    BY <2>1, <2>2, DeadEndHasNoPlan DEF BoundInv, BoundsSound
<1>5. CASE Select \/ Finish
  <2>1. pc \in {"select", "finish"} /\ task' = task /\ status' = status /\ pc' # "init"
    BY <1>5 DEF Select, Finish
  <2>2. status' = "IN_PROGRESS"
    BY <2>1 DEF BoundInv
  <2>3. AtWork = {}
    BY <2>1 DEF AtWork, FixedInv
  <2>4. ASSUME Optimum < upper_bound'
        PROVE  \E e \in Queued : Fvalue(e) <= Optimum
    <3>1. Optimum < upper_bound /\ lower_bound <= Optimum
      BY <1>1, <1>2, <2>1, <2>4 DEF BoundsSound
    <3>2. ~Solved
      BY <1>1, <3>1 DEF Solved
    <3>3. QED
      BY <2>3, <3>1, <3>2, SomeoneWaits
  <2>5. \A e \in Queued : Fvalue(e) \in Nat
    BY NotLaterFacts
  <2>6. PICK x \in Level : SetLowerBound(x) /\ \A e \in Queued : x <= Fvalue(e)
    <3>1. CASE Select
      <4>1. PICK g, v \in Level : Selected(g, v)
        BY <3>1, SelectFacts
      <4>2. /\ g + v \in Level /\ SetLowerBound(g + v)
            /\ \A e \in Queued : KeyNotLater(g, v, e)
        BY <4>1 DEF Selected
      <4>3. g + v \in Nat
        BY <4>2, LevelFacts
      <4>4. \A e \in Queued : g + v <= Fvalue(e)
        BY <2>5, <4>2, <4>3 DEF KeyNotLater
      <4>5. QED
        BY <4>2, <4>4
    <3>2. CASE Finish
      <4> DEFINE F == {Fvalue(e) : e \in Queued}
      <4>1. MinOpenF \in Level /\ SetLowerBound(MinOpenF)
        BY <3>2, MinOpenFType DEF Finish
      <4>2. F \in SUBSET Nat
        BY <2>5
      <4>3. ASSUME NEW e \in Queued PROVE MinOpenF <= Fvalue(e)
        <5>1. MinOpenF = Least(F)
          BY DEF MinOpenF, Queued
        <5>2. Fvalue(e) \in F
          OBVIOUS
        <5> HIDE DEF F
        <5>3. QED
          BY <4>2, <5>1, <5>2, NatHasLeast
      <4>4. QED
        BY <4>1, <4>3
    <3>3. QED
      BY <1>5, <3>1, <3>2
  <2>7. x \in Nat /\ x \in Int
    BY LevelFacts
  <2>8. Optimum < upper_bound' => x <= Optimum
    BY <1>1, <2>4, <2>5, <2>6, <2>7
  <2>9. BoundsSound'
    BY <1>1, <1>2, <2>1, <2>6, <2>7, <2>8, BoundRises
  <2>10. QED
    BY <2>1, <2>2, <2>9 DEF BoundInv
<1>6. CASE Discard \/ Expand
  <2>1. UNCHANGED <<task, engine>> /\ pc = "expand" /\ pc' = "finish"
    BY <1>6 DEF Discard, Expand
  <2>2. QED
    BY <2>1 DEF BoundInv, BoundsSound, Optimum
<1>7. CASE Done \/ UNCHANGED vars
  BY <1>7 DEF Done, vars, BoundInv, BoundsSound, Optimum
<1>8. QED
  BY <1>3, <1>4, <1>5, <1>6, <1>7 DEF Next
-----------------------------------------------------------------------------
(* The theorems *)

SearchInv == /\ TypeOK /\ HeuristicType /\ FixedInv /\ LevelInv
             /\ OrderInv /\ LostInv /\ PlanInv /\ BoundInv

\* OrderInv holds at the start: nothing is closed or at work.
LEMMA OrderInvInit == Init => OrderInv
<1> SUFFICES ASSUME Init PROVE OrderInv
  OBVIOUS
<1>1. Listed = {} /\ AtWork = {}
  BY DEF Init, Listed, AtWork, InBucket, NoBucket, NoStates, Dir
<1>2. QED
  BY <1>1 DEF OrderInv

\* All invariants hold together.
LEMMA SearchInvariant == Spec => []SearchInv
<1>1. Init => SearchInv
  BY TypeInit, FixedInit, OrderInvInit, LostInvInit, BoundInvInit DEF SearchInv
<1>2. SearchInv /\ [Next]_vars => SearchInv'
  <2> SUFFICES ASSUME SearchInv, [Next]_vars PROVE SearchInv'
    OBVIOUS
  <2>1. /\ TypeOK /\ HeuristicType /\ FixedInv /\ LevelInv
        /\ OrderInv /\ LostInv /\ PlanInv /\ BoundInv
    BY DEF SearchInv
  <2>2. TypeOK' /\ HeuristicType'
    BY <2>1, TypeNext
  <2>3. FixedInv' /\ LevelInv' /\ PlanInv'
    BY <2>1, FixedInvNext, LevelInvNext, PlanInvNext
  <2>4. OrderInv' /\ LostInv'
    BY <2>1, <2>2, OrderInvNext, LostInvNext
  <2>5. BoundInv'
    BY <2>1, BoundInvNext
  <2>6. QED
    BY <2>2, <2>3, <2>4, <2>5 DEF SearchInv
<1>3. QED
  BY <1>1, <1>2, PTL DEF Spec

\* Buckets are closed in order of f, and of g among those of the same f, also
\* when some were imaged ahead of their turn.
THEOREM SelectionIsInOrder == Spec => SelectionOrder
<1>1. SearchInv /\ [Next]_vars =>
        [\A g \in Level : \A s \in closed'["fw"][g] \ closed["fw"][g] :
            \A k \in Level : \A r \in closed["fw"][k] :
                \/ Fvalue(<<k, r>>) < Fvalue(<<g, s>>)
                \/ Fvalue(<<k, r>>) = Fvalue(<<g, s>>) /\ k <= g]_vars
  BY ClosedInOrder DEF SearchInv
<1>2. QED
  BY <1>1, SearchInvariant, PTL DEF Spec, SelectionOrder

\* No successor of a closed or imaged state is lost: neither the window, nor the
\* filters that give up, nor the slices of prune_only drop one that is of use.
THEOREM NothingIsLost == Spec => []NothingLost
<1>1. SearchInv => NothingLost
  BY LostInvImplies DEF SearchInv
<1>2. QED
  BY <1>1, SearchInvariant, PTL

\* The key of a selected bucket, what min_open_f returns at the end of
\* stepImage, and the value of the initial state are lower bounds.
THEOREM BoundsAreSound == Spec => []BoundsSound
<1>1. SearchInv => BoundsSound
  BY DEF SearchInv, BoundInv
<1>2. QED
  BY <1>1, SearchInvariant, PTL

\* The status changes in the driver, or when the initial state is a dead end.
LEMMA WhoAnswers ==
    ASSUME SearchInv, [Next]_vars
    PROVE  \/ Step
           \/ Unsolvable
           \/ UNCHANGED <<task, status, upper_bound, sym_cuts>>
           \/ UNCHANGED <<task, status>> /\ status = "IN_PROGRESS"
<1> USE DEF engine, search
<1>1. Select => UNCHANGED <<task, status>> /\ status = "IN_PROGRESS"
  BY DEF Select, SearchInv, BoundInv
<1>2. Discard \/ Expand \/ Finish \/ Done \/ UNCHANGED vars =>
        UNCHANGED <<task, status, upper_bound, sym_cuts>>
  BY DEF Discard, Expand, Finish, Done, vars
<1>3. QED
  BY <1>1, <1>2 DEF Next

\* Whoever answers is right.
LEMMA AnswerOptimalNext ==
    SearchInv /\ SearchInv' /\ AnswerOptimal /\ [Next]_vars => AnswerOptimal'
<1> SUFFICES ASSUME SearchInv, SearchInv', AnswerOptimal, [Next]_vars PROVE AnswerOptimal'
  OBVIOUS
<1>1. CASE Step /\ status' # "IN_PROGRESS"
  <2>1. EngineTypeOK /\ EngineTypeOK' /\ PlanInv' /\ BoundsSound'
    BY DEF SearchInv, TypeOK, BoundInv
  <2>2. StepEngine /\ pc' # "init"
    BY <1>1 DEF Step
  <2>3. /\ status' = "SOLVED" => /\ Optimum' < task'.bound
                                 /\ \E sol \in sym_cuts' : Cost(sol) = Optimum'
        /\ status' = "FAILED" => Optimum' >= task'.bound
    BY <1>1, <2>1, <2>2, Verdict
  <2>4. QED
    BY <2>3 DEF AnswerOptimal, Cost
<1>2. CASE status' = "IN_PROGRESS"
  BY <1>2 DEF AnswerOptimal
<1>3. CASE Unsolvable
  <2>1. status' = "FAILED" /\ task' = task /\ h[task.init] = INT_MAX
    BY <1>3 DEF Unsolvable
  <2>2. Optimum = INT_MAX
    BY <2>1, DeadEndHasNoPlan DEF SearchInv
  <2>3. Optimum >= task.bound
    BY <2>2, EngineFacts, LevelFacts DEF SearchInv, TypeOK
  <2>4. QED
    BY <2>1, <2>3 DEF AnswerOptimal, Optimum
<1>4. CASE UNCHANGED <<task, status, upper_bound, sym_cuts>>
  BY <1>4 DEF AnswerOptimal, Optimum, Cost
<1>5. QED
  BY <1>1, <1>2, <1>3, <1>4, WhoAnswers

\* The heuristic engines answer with a cheapest plan, and with none only if no
\* plan is cheaper than the user's bound.
THEOREM AnswersAreOptimal == Spec => []AnswerOptimal
<1>1. Init => AnswerOptimal
  BY DEF Init, AnswerOptimal
<1>2. QED
  BY <1>1, AnswerOptimalNext, SearchInvariant, PTL DEF Spec

\* A search starts with a state of AnytimeBounds.
LEMMA BoundsInit == Init => Bounds!Init
<1> SUFFICES ASSUME Init PROVE Bounds!Init
  OBVIOUS
<1>1. IsTask(task)
  BY TasksAssumption DEF Init
<1>2. "bw" \in Dir /\ task.init \in State
  BY <1>1 DEF Dir, IsTask
<1>3. OptimalCost(task) \in Level /\ task.bound \in Level
  BY <1>1, <1>2, DistanceFacts DEF IsTask
<1>4. QED
  BY <1>3 DEF Init, Bounds!Init, Bounds!Cost, Level

\* Once it has answered, the engine does nothing.
LEMMA AnswerIsFinal ==
    ASSUME SearchInv, [Next]_vars, status # "IN_PROGRESS"
    PROVE  UNCHANGED vars
<1>1. pc \in {"init", "step"}
  BY DEF SearchInv, BoundInv
<1>2. QED
  BY <1>1 DEF Next, Unsolvable, Step, StepEngine, Select, Discard, Expand, Finish, Done

\* Each step tightens the bounds, answers, refutes, or is none of the driver's
\* business.
LEMMA BoundsNext ==
    SearchInv /\ SearchInv' /\ [Next]_vars => [Bounds!Next]_(Bounds!vars)
<1> SUFFICES ASSUME SearchInv, SearchInv', [Next]_vars
             PROVE  [Bounds!Next]_(Bounds!vars)
  OBVIOUS
<1> USE DEF engine, search
<1>1. CASE status # "IN_PROGRESS"
  <2>1. UNCHANGED vars
    BY <1>1, AnswerIsFinal
  <2>2. QED
    BY <2>1 DEF vars, Bounds!vars
<1>2. CASE status = "IN_PROGRESS" /\ Unsolvable
  <2>1. /\ UNCHANGED <<task, lower_bound, upper_bound, pc>> /\ status' = "FAILED"
        /\ h[task.init] = INT_MAX
    BY <1>2 DEF Unsolvable
  <2>2. OptimalCost(task) = INT_MAX
    BY <2>1, DeadEndHasNoPlan DEF SearchInv, Optimum
  <2>3. Bounds!Refute
    BY <1>2, <2>1, <2>2 DEF Bounds!Refute
  <2>4. QED
    BY <2>3 DEF Bounds!Next
<1>3. CASE status = "IN_PROGRESS" /\ ~Unsolvable
  <2>1. task' = task /\ (status' = "IN_PROGRESS" \/ (StepEngine /\ pc' = "step"))
    BY <1>3, WhoAnswers DEF Step, StepEngine
  <2>2. lower_bound <= lower_bound' /\ upper_bound' <= upper_bound
    BY BoundsOnlyTighten DEF SearchInv
  <2>3. pc' = "init" => pc = "init"
    BY <1>3 DEF Next, Step, Select, Discard, Expand, Finish, Done, vars
  <2>4. EngineTypeOK /\ EngineTypeOK' /\ PlanInv /\ PlanInv' /\ BoundsSound'
    BY DEF SearchInv, TypeOK, BoundInv
  <2>5. Bounds!Next
    BY <1>3, <2>1, <2>2, <2>3, <2>4, BoundsMove
  <2>6. QED
    BY <2>5
<1>4. QED
  BY <1>1, <1>2, <1>3

\* Every behaviour of a heuristic engine, seen through its two bounds and its
\* status, is one of AnytimeBounds.
THEOREM EngineIsAnytime == Spec => ImplementsBounds
<1>1. Spec => Bounds!Init /\ [][Bounds!Next]_(Bounds!vars)
  BY BoundsInit, BoundsNext, SearchInvariant, PTL DEF Spec
<1>2. QED
  BY <1>1, PTL DEF ImplementsBounds, Bounds!Spec
-----------------------------------------------------------------------------
(* Plans can be reconstructed *)

\* No plan through y that fits an int costs as little as g and what is left.
Beyond(g, y) == g + task.dist["bw"][y] >= INT_MAX

\* y, found at g, is on no plan cheaper than the best one known.
Dull(g, y) == (y \in task.goal \/ PruneOnly) /\ upper_bound <= g + h[y]

\* A state that was imaged ahead for y still waits for being closed at g - c.
Pending(g, c, x, y) ==
    /\ Edge(task, "fw", c, x, y) /\ x \notin task.goal
    /\ <<g - c, x>> \in preexpanded \/ (bucket.g = g - c /\ x \in bucket.cached)

\* Where an entry comes from, or why it will not be closed.
HasOrigin(g, y) ==
    \/ Beyond(g, y)
    \/ Dull(g, y)
    \/ Traceable("fw", g, y)
    \/ \E n \in Nat : n < g /\ Accounted(n, y)
    \/ \E c \in DOMAIN task.ops : \E x \in State : c <= g /\ Pending(g, c, x, y)

\* The bucket at work is new, and f-values fit an int, also those that the keys
\* of prune_only do not show.
BucketInv ==
    /\ pc \in {"select", "expand"} => ~Solved
    /\ InBucket \cap ClosedTotal("fw") = {}
    /\ \A e \in Queued \cup AtWork : h[e[2]] # INT_MAX /\ e[1] + h[e[2]] < INT_MAX

OriginInv == ~Solved => \A e \in Queued \cup AtWork : HasOrigin(e[1], e[2])

\* SolutionReconstructible holds at the start.
LEMMA OriginInit == Init => BucketInv /\ OriginInv /\ SolutionReconstructible
<1> SUFFICES ASSUME Init PROVE BucketInv /\ OriginInv /\ SolutionReconstructible
  OBVIOUS
<1>1. TypeOK /\ HeuristicType
  BY TypeInit
<1>2. InBucket = {} /\ AtWork = {} /\ pc = "init"
  BY DEF Init, InBucket, NoBucket, AtWork
<1>3. \A e \in Queued : e[1] = 0 /\ e[2] = task.init /\ h[task.init] # INT_MAX
  BY DEF Init, Queued
<1>4. h[task.init] \in Nat /\ h[task.init] <= INT_MAX
  BY <1>1, ValueFacts DEF TypeOK, EngineTypeOK, IsTask
<1>5. BucketInv
  BY <1>2, <1>3, <1>4, IntMaxAssumption DEF BucketInv
<1>6. Traceable("fw", 0, task.init)
  BY DEF Traceable, Source
<1>7. OriginInv
  BY <1>2, <1>3, <1>6 DEF OriginInv, HasOrigin
<1>8. \A g \in Level : closed["fw"][g] = {}
  BY DEF Init, NoStates, Dir
<1>9. upper_bound = task.bound /\ sym_cuts = {}
  BY DEF Init
<1>10. SolutionReconstructible
  <2>1. task.bound \in Nat
    BY <1>1, EngineFacts DEF TypeOK
  <2>2. QED
    BY <1>8, <1>9, <2>1 DEF SolutionReconstructible
<1>11. QED
  BY <1>5, <1>7, <1>10

\* BucketInv is inductive.
LEMMA BucketInvNext ==
    TypeOK /\ HeuristicType /\ FixedInv /\ BucketInv /\ TypeOK' /\ [Next]_vars => BucketInv'
<1> SUFFICES ASSUME TypeOK, HeuristicType, FixedInv, BucketInv, TypeOK', [Next]_vars
             PROVE  BucketInv'
  OBVIOUS
<1> USE DEF engine, search
<1>1. (pc \in {"select", "expand"} => ~Solved)'
  <2>1. CASE Step
    <3>1. lower_bound' = lower_bound /\ lower_bound \in Nat /\ upper_bound' \in Nat
      BY <2>1, BoundsOnlyTighten DEF Step, StepEngine
    <3>2. pc' = "select" => ~(lower_bound >= upper_bound')
      BY <2>1 DEF Step, StepEngine
    <3>3. pc' \in {"select", "step"}
      BY <2>1 DEF Step
    <3>4. QED
      BY <3>1, <3>2, <3>3 DEF Solved
  <2>2. CASE Select
    BY <2>2 DEF Select, Solved
  <2>3. CASE Unsolvable \/ Discard \/ Expand \/ Finish \/ Done \/ UNCHANGED vars
    BY <2>3 DEF Unsolvable, Discard, Expand, Finish, Done, vars, BucketInv, Solved
  <2>4. QED
    BY <2>1, <2>2, <2>3 DEF Next
<1>2. (InBucket \cap ClosedTotal("fw") = {})'
      /\ \A e \in (Queued \cup AtWork)' : h'[e[2]] # INT_MAX /\ e[1] + h'[e[2]] < INT_MAX
  <2>1. CASE Idle
    <3>1. /\ InBucket' = InBucket /\ Queued' = Queued /\ AtWork' = AtWork /\ h' = h
          /\ ClosedTotal("fw")' = ClosedTotal("fw")
      BY <2>1 DEF Idle, InBucket, Queued, AtWork, ClosedTotal
    <3>2. QED
      BY <3>1 DEF BucketInv
  <2>2. CASE Select
    <3>0. PICK g, v \in Level : Selected(g, v)
      BY <2>2, SelectFacts
    <3>1. /\ open' \subseteq open /\ preexpanded' \subseteq preexpanded
          /\ UNCHANGED <<task, closed, h>> /\ pc = "select"
          /\ \/ bucket' = bucket
             \/ /\ bucket'.g = g
                /\ InBucket' = PickedAt(g, v) \ (ClosedTotal("bw") \cup ClosedTotal("fw"))
      BY <3>0 DEF Selected
    <3>2. InBucket = {} /\ Queued' \subseteq Queued /\ ClosedTotal("fw")' = ClosedTotal("fw")
      BY <3>1 DEF FixedInv, Queued, ClosedTotal
    <3>3. CASE bucket' = bucket
      BY <3>1, <3>2, <3>3 DEF BucketInv, InBucket, AtWork
    <3>4. CASE /\ bucket'.g = g
               /\ InBucket' = PickedAt(g, v) \ (ClosedTotal("bw") \cup ClosedTotal("fw"))
      <4>1. \A e \in AtWork' : e \in Queued
        BY <3>4 DEF AtWork, PickedAt
      <4>2. QED
        BY <3>1, <3>2, <3>4, <4>1 DEF BucketInv
    <3>5. QED
      BY <3>1, <3>3, <3>4
  <2>3. CASE Discard
    <3>1. InBucket' = {} /\ AtWork' = {} /\ Queued' = Queued /\ h' = h
      BY <2>3, DiscardFacts DEF InBucket, AtWork, NoBucket, Queued
    <3>2. QED
      BY <3>1 DEF BucketInv
  <2>4. CASE Expand
    <3>0. PICK kept \in SUBSET InBucket, fresh \in SUBSET State, ahead \in SUBSET State :
             fresh \subseteq kept /\ Expanded(kept, fresh, ahead)
      BY <2>4, ExpandFacts
    <3>1. /\ \A e \in Queued' \ Queued :
                /\ e \in Entries
                /\ \E c \in DOMAIN task.ops : e[1] = bucket.g + c
          /\ bucket' = NoBucket /\ h' = h
      BY <3>0 DEF Expanded
    <3>2. InBucket' = {} /\ AtWork' = {}
      BY <3>1 DEF InBucket, AtWork, NoBucket
    <3>3. ASSUME NEW e \in Queued' \ Queued
          PROVE  h[e[2]] # INT_MAX /\ e[1] + h[e[2]] < INT_MAX
      <4>1. PICK c \in DOMAIN task.ops : e[1] = bucket.g + c
        BY <3>1, <3>3
      <4>2. e[2] \in State /\ h[e[2]] # INT_MAX
        BY <3>1, <3>3 DEF Entries
      <4>3. h[e[2]] \in Values
        BY <4>2 DEF HeuristicType
      <4>4. bucket.g + c + h[e[2]] < INT_MAX
        BY <2>4, <4>3 DEF Expand
      <4>5. QED
        BY <4>1, <4>2, <4>4
    <3>4. QED
      BY <3>1, <3>2, <3>3 DEF BucketInv
  <2>5. QED
    BY <2>1, <2>2, <2>3, <2>4, StepKinds
<1>3. QED
  BY <1>1, <1>2 DEF BucketInv

\* What a mutex excludes is beyond an int on its way to the goal, together with
\* what follows it.
LEMMA ExcludedIsBeyond ==
    ASSUME TypeOK, NEW c \in DOMAIN task.ops, NEW g \in Level, c <= g,
           NEW x \in State, NEW y \in State, Edge(task, "fw", c, x, y),
           task.dist["fw"][x] <= g - c
    PROVE  /\ x \notin task.notMutex["fw"] => Beyond(g, y)
           /\ y \notin task.notMutex["fw"] => Beyond(g, y)
<1>1. /\ IsTask(task) /\ "fw" \in Dir /\ "bw" \in Dir /\ c \in Nat /\ g \in Nat
      /\ INT_MAX \in Nat /\ g <= INT_MAX
  BY LevelFacts, MinTransitionCostFacts DEF TypeOK, EngineTypeOK, Dir
<1>2. /\ task.dist["fw"][x] \in Nat /\ task.dist["bw"][x] \in Nat
      /\ task.dist["fw"][y] \in Nat /\ task.dist["bw"][y] \in Nat
  BY <1>1, DistanceFacts
<1>3. task.dist["fw"][y] <= task.dist["fw"][x] + c
  BY <1>1 DEF IsTask, IsDistance
<1>4. task.dist["bw"][x] <= task.dist["bw"][y] + c
  <2>1. Edge(task, "bw", c, y, x)
    BY DEF Edge
  <2>2. IsDistance(task, "bw")
    BY <1>1 DEF IsTask
  <2>3. QED
    BY <2>1, <2>2 DEF IsDistance
<1>5. ASSUME NEW z \in State, z \notin task.notMutex["fw"]
      PROVE  task.dist["fw"][z] = INT_MAX \/ task.dist["bw"][z] = INT_MAX
  BY <1>1, <1>5 DEF IsTask, MutexesAreSound, Dir
<1>6. ASSUME x \notin task.notMutex["fw"] PROVE Beyond(g, y)
  <2>1. task.dist["fw"][x] = INT_MAX \/ task.dist["bw"][x] = INT_MAX
    BY <1>5, <1>6
  <2>2. INT_MAX <= g - c \/ INT_MAX <= task.dist["bw"][y] + c
    BY <1>4, <2>1
  <2>3. QED
    BY <1>1, <1>2, <2>2 DEF Beyond
<1>7. ASSUME y \notin task.notMutex["fw"] PROVE Beyond(g, y)
  <2>1. task.dist["fw"][y] = INT_MAX \/ task.dist["bw"][y] = INT_MAX
    BY <1>5, <1>7
  <2>2. task.dist["fw"][y] <= g
    BY <1>1, <1>2, <1>3
  <2>3. QED
    BY <1>1, <1>2, <2>1, <2>2 DEF Beyond
<1>8. QED
  BY <1>6, <1>7

\* A closed state accounts for its successors: they are traceable to it, or were
\* found at less.
ClosedHaveOrigin ==
    \A g, j \in Level : \A c \in DOMAIN task.ops : \A x, y \in State :
        c <= g /\ j <= g - c /\ x \in closed["fw"][j] /\ Edge(task, "fw", c, x, y)
        => HasOrigin(g, y)

\* Until the bounds meet, by LostInv.
LEMMA SuccessorsHaveOrigin ==
    TypeOK /\ FixedInv /\ LevelInv /\ LostInv /\ ~Solved => ClosedHaveOrigin
<1> SUFFICES ASSUME TypeOK, FixedInv, LevelInv, LostInv, ~Solved,
                    NEW g \in Level, NEW j \in Level, NEW c \in DOMAIN task.ops,
                    NEW x \in State, NEW y \in State, c <= g, j <= g - c,
                    x \in closed["fw"][j], Edge(task, "fw", c, x, y)
             PROVE  HasOrigin(g, y)
  BY DEF ClosedHaveOrigin
<1>1. c \in Nat /\ g \in Nat /\ j \in Nat
  BY LevelFacts, MinTransitionCostFacts DEF TypeOK, EngineTypeOK
<1>2. task.dist["fw"][x] <= g - c
  <2>1. task.dist["fw"][x] <= j
    BY DEF LevelInv
  <2>2. task.dist["fw"][x] \in Nat
    BY DistanceFacts DEF TypeOK, EngineTypeOK, Dir
  <2>3. QED
    BY <1>1, <2>1, <2>2
<1>3. CASE j = g - c
  BY <1>1, <1>3 DEF HasOrigin, Traceable
<1>4. CASE x \notin task.notMutex["fw"] \/ y \notin task.notMutex["fw"]
  BY <1>2, <1>4, ExcludedIsBeyond DEF HasOrigin
<1>5. CASE j # g - c /\ x \in task.notMutex["fw"] /\ y \in task.notMutex["fw"]
  <2>1. x \in (AllImaged(j) \cap task.notMutex["fw"]) \ task.goal
    BY <1>5 DEF AllImaged, FixedInv
  <2>2. y \in Image(task, "fw", c, {x}) \cap task.notMutex["fw"]
    BY <1>5 DEF Image
  <2>3. Accounted(j + c, y)
    BY <2>1, <2>2 DEF LostInv
  <2>4. j + c \in Nat /\ j + c < g
    BY <1>1, <1>5
  <2>5. QED
    BY <2>3, <2>4 DEF HasOrigin
<1>6. QED
  BY <1>3, <1>4, <1>5

\* Nothing leaves the closed list, and the task stays.
LEMMA ClosedListGrows ==
    ASSUME TypeOK, HeuristicType, [Next]_vars
    PROVE  ClosedGrows /\ task' = task /\ h' = h
<1> USE DEF engine
<1>1. CASE Idle
  BY <1>1 DEF Idle, ClosedGrows
<1>2. CASE Select
  BY <1>2 DEF Select, ClosedGrows
<1>3. CASE Discard
  BY <1>3, DiscardFacts DEF ClosedGrows
<1>4. CASE Expand
  <2>1. PICK kept \in SUBSET InBucket, fresh \in SUBSET State, ahead \in SUBSET State :
           fresh \subseteq kept /\ Expanded(kept, fresh, ahead)
    BY <1>4, ExpandFacts
  <2>2. closed' = [closed EXCEPT !["fw"][bucket.g] = @ \cup kept] /\ UNCHANGED <<task, h>>
    BY <2>1 DEF Expanded
  <2>3. QED
    BY <2>2 DEF TypeOK, EngineTypeOK, Levels, Dir, ClosedGrows
<1>5. QED
  BY <1>1, <1>2, <1>3, <1>4, StepKinds

\* A consistent heuristic makes y useless if its predecessor x is.
LEMMA DullFromUseless ==
    ASSUME TypeOK, HeuristicType, FixedInv, [Next]_vars, NEW g \in Level,
           NEW c \in DOMAIN task.ops, c <= g, NEW x \in State, NEW y \in State,
           h[y] # INT_MAX, Edge(task, "fw", c, x, y), bucket.g = g - c, Useless(x)
    PROVE  Dull(g, y)'
<1>1. <<x, y>> \in task.ops[c]
  BY DEF Edge
<1>2. h[x] <= c + h[y]
  BY <1>1 DEF FixedInv, IsHeuristic
<1>3. /\ c \in Nat /\ g \in Nat /\ h[x] \in Nat /\ h[y] \in Nat
      /\ upper_bound \in Nat /\ upper_bound' \in Nat /\ upper_bound' <= upper_bound
  BY LevelFacts, MinTransitionCostFacts, ValueFacts, BoundsOnlyTighten DEF TypeOK, EngineTypeOK
<1>4. PruneOnly /\ upper_bound <= (g - c) + h[x]
  BY DEF Useless
<1>5. upper_bound' <= g + h[y]
  BY <1>2, <1>3, <1>4
<1>6. h' = h
  BY ClosedListGrows
<1>7. QED
  BY ModeKept, <1>4, <1>5, <1>6 DEF Dull

\* What waits for a state that was imaged ahead still does, or that state was
\* closed, or dropped with reason.
LEMMA PendingNext ==
    ASSUME TypeOK, HeuristicType, FixedInv, LevelInv, OrderInv, [Next]_vars,
           TypeOK', ClosedHaveOrigin', ~Solved',
           NEW g \in Level, NEW c \in DOMAIN task.ops, c <= g,
           NEW x \in State, NEW y \in State, h[y] # INT_MAX, Pending(g, c, x, y)
    PROVE  HasOrigin(g, y)'
<1> USE DEF engine
<1>1. /\ c \in Nat /\ g \in Nat /\ g - c \in Level /\ g - c \in Nat
      /\ bucket.g \in Level /\ InBucket \subseteq State
      /\ task' = task /\ h' = h /\ ClosedGrows
  <2>1. c \in Nat /\ g \in Nat /\ bucket.g \in Level /\ InBucket \subseteq State
    BY LevelFacts, MinTransitionCostFacts DEF TypeOK, EngineTypeOK, InBucket
  <2>2. g - c \in Level /\ g - c \in Nat
    BY <2>1, IntMaxAssumption DEF Level
  <2>3. QED
    BY <2>1, <2>2, ClosedListGrows
<1>2. Edge(task, "fw", c, x, y) /\ x \notin task.goal
  BY DEF Pending
<1>3. ASSUME NEW j \in Level, j <= g - c, x \in closed'["fw"][j]
      PROVE  HasOrigin(g, y)'
  BY <1>1, <1>2, <1>3 DEF ClosedHaveOrigin
<1>4. ASSUME Pending(g, c, x, y)'
      PROVE  HasOrigin(g, y)'
  BY <1>1, <1>4 DEF HasOrigin
<1>5. ASSUME bucket.g = g - c, x \in InBucket, x \notin task.notMutex["fw"] \/ Useless(x)
      PROVE  HasOrigin(g, y)'
  <2>1. CASE Useless(x)
    BY <1>2, <1>5, <2>1, DullFromUseless DEF HasOrigin
  <2>2. CASE x \notin task.notMutex["fw"]
    <3>1. task.dist["fw"][x] <= g - c
      BY <1>5 DEF LevelInv
    <3>2. Beyond(g, y)
      BY <1>2, <2>2, <3>1, ExcludedIsBeyond
    <3>3. QED
      BY <1>1, <3>2 DEF HasOrigin, Beyond
  <2>3. QED
    BY <1>5, <2>1, <2>2
<1>6. CASE Idle
  BY <1>4, <1>6 DEF Idle, Pending
<1>7. CASE Select
  <2>0. PICK n, v \in Level : Selected(n, v)
    BY <1>7, SelectFacts
  <2>1. /\ preexpanded' = {e \in preexpanded : e[1] # n \/ Value(e[2]) # v}
        /\ pc = "select" /\ UNCHANGED <<task, closed, h>>
        /\ \/ lower_bound' >= upper_bound'
           \/ /\ bucket'.g = n
              /\ InBucket' = PickedAt(n, v) \ (ClosedTotal("bw") \cup ClosedTotal("fw"))
              /\ \A s \in InBucket' : <<n, s>> \in preexpanded => s \in bucket'.cached
    BY <2>0 DEF Selected
  <2>2. <<g - c, x>> \in preexpanded
    BY <2>1 DEF FixedInv, InBucket, Pending
  <2>3. CASE <<g - c, x>> \in preexpanded'
    BY <1>1, <1>2, <1>4, <2>3 DEF Pending
  <2>4. CASE <<g - c, x>> \notin preexpanded'
    <3>1. n = g - c /\ Value(x) = v
      BY <2>1, <2>2, <2>4
    <3>2. CASE x \in ClosedTotal("fw")
      <4>1. PICK j \in Level : j <= g - c /\ x \in closed["fw"][j]
        BY <1>1, <2>2, <3>2, ClosedAtMost DEF Queued
      <4>2. QED
        BY <1>3, <2>1, <4>1
    <3>3. CASE x \notin ClosedTotal("fw")
      <4>1. x \in PickedAt(n, v) \ (ClosedTotal("bw") \cup ClosedTotal("fw"))
        BY <1>2, <2>2, <3>1, <3>3, ClosedGoals DEF PickedAt, Queued
      <4>2. bucket'.g = g - c /\ x \in bucket'.cached
        BY <2>1, <2>2, <3>1, <4>1 DEF Solved
      <4>3. QED
        BY <1>1, <1>2, <1>4, <4>2 DEF Pending
    <3>4. QED
      BY <3>2, <3>3
  <2>5. QED
    BY <2>3, <2>4
<1>8. CASE Discard
  <2>1. CASE <<g - c, x>> \in preexpanded
    BY <1>1, <1>2, <1>4, <1>8, <2>1, DiscardFacts DEF Pending
  <2>2. CASE bucket.g = g - c /\ x \in bucket.cached
    BY <1>5, <1>8, <2>2, DiscardFacts DEF InBucket
  <2>3. QED
    BY <2>1, <2>2 DEF Pending
<1>9. CASE Expand
  <2>0. PICK kept \in SUBSET InBucket, fresh \in SUBSET State, ahead \in SUBSET State :
           fresh \subseteq kept /\ Expanded(kept, fresh, ahead)
    BY <1>9, ExpandFacts
  <2>1. /\ preexpanded \subseteq preexpanded'
        /\ closed' = [closed EXCEPT !["fw"][bucket.g] = @ \cup kept]
        /\ \A s \in (InBucket \cap task.notMutex["fw"]) \ kept : Useless(s)
    BY <2>0 DEF Expanded
  <2>2. CASE <<g - c, x>> \in preexpanded
    BY <1>1, <1>2, <1>4, <2>1, <2>2 DEF Pending
  <2>3. CASE bucket.g = g - c /\ x \in bucket.cached
    <3>1. CASE x \in kept
      <4>1. x \in closed'["fw"][g - c] /\ g - c <= g - c
        BY <1>1, <2>1, <2>3, <3>1 DEF TypeOK, EngineTypeOK, Levels, Dir
      <4>2. QED
        BY <1>1, <1>3, <4>1
    <3>2. CASE x \notin kept
      BY <1>5, <2>1, <2>3, <3>2 DEF InBucket
    <3>3. QED
      BY <3>1, <3>2
  <2>4. QED
    BY <2>2, <2>3 DEF Pending
<1>10. QED
  BY <1>6, <1>7, <1>8, <1>9, StepKinds

\* An entry keeps its origin.
LEMMA OriginKept ==
    ASSUME TypeOK, HeuristicType, FixedInv, LevelInv, OrderInv, [Next]_vars,
           TypeOK', ClosedHaveOrigin', ~Solved',
           NEW g \in Level, NEW y \in State, h[y] # INT_MAX,
           task.dist["fw"][y] <= g, HasOrigin(g, y)
    PROVE  HasOrigin(g, y)'
<1>1. /\ task' = task /\ h' = h /\ ClosedGrows
      /\ upper_bound \in Nat /\ upper_bound' \in Nat /\ upper_bound' <= upper_bound
      /\ IsTask(task) /\ EngineTypeOK /\ "fw" \in Dir /\ "bw" \in Dir
      /\ h[y] \in Nat /\ g \in Nat
  BY ClosedListGrows, BoundsOnlyTighten, ValueFacts, LevelFacts DEF TypeOK, EngineTypeOK, Dir
<1>2. CASE Beyond(g, y)
  BY <1>1, <1>2 DEF HasOrigin, Beyond
<1>3. CASE Dull(g, y)
  <2>1. upper_bound' <= g + h[y]
    BY <1>1, <1>3 DEF Dull
  <2>2. QED
    BY <1>1, <1>3, <2>1 DEF HasOrigin, Dull, PruneOnly
<1>4. CASE Traceable("fw", g, y)
  BY <1>1, <1>4, TraceableStable DEF HasOrigin
<1>5. ASSUME NEW n \in Nat, n < g, Accounted(n, y)
      PROVE  HasOrigin(g, y)'
  <2>1. CASE y \in task.notMutex["fw"]
    <3>1. Accounted(n, y)'
      BY <1>5, <2>1, AccountedNext
    <3>2. QED
      BY <1>5, <3>1 DEF HasOrigin
  <2>2. CASE y \notin task.notMutex["fw"]
    <3>1. task.dist["fw"][y] = INT_MAX \/ task.dist["bw"][y] = INT_MAX
      BY <1>1, <2>2 DEF IsTask, MutexesAreSound, Dir
    <3>2. task.dist["bw"][y] \in Nat /\ INT_MAX \in Nat
      BY <1>1, DistanceFacts, LevelFacts
    <3>3. Beyond(g, y)
      BY <1>1, <3>1, <3>2 DEF Beyond
    <3>4. QED
      BY <1>1, <3>3 DEF HasOrigin, Beyond
  <2>3. QED
    BY <2>1, <2>2
<1>6. ASSUME NEW c \in DOMAIN task.ops, NEW x \in State, c <= g, Pending(g, c, x, y)
      PROVE  HasOrigin(g, y)'
  BY <1>6, PendingNext
<1>7. QED
  BY <1>2, <1>3, <1>4, <1>5, <1>6 DEF HasOrigin

\* init exits for tasks with zero-cost operators.
LEMMA PositiveCosts ==
    ASSUME TypeOK, FixedInv, NEW c \in DOMAIN task.ops
    PROVE  c # 0
<1>1. MinTransitionCost(task) \in Nat /\ c \in Nat /\ MinTransitionCost(task) <= c
  BY MinTransitionCostFacts, LevelFacts DEF TypeOK, EngineTypeOK
<1>2. MinTransitionCost(task) # 0
  BY DEF FixedInv, HasZeroCost
<1>3. QED
  BY <1>1, <1>2

\* The value in the key falls along an operator by no more than its cost.
LEMMA ValueFalls ==
    ASSUME TypeOK, FixedInv, NEW c \in DOMAIN task.ops, NEW x \in State, NEW y \in State,
           Edge(task, "fw", c, x, y), h[y] # INT_MAX
    PROVE  Value(x) <= c + Value(y)
<1>1. c \in Nat /\ <<x, y>> \in task.ops[c]
  BY MinTransitionCostFacts DEF TypeOK, EngineTypeOK, Edge
<1>2. h[x] <= c + h[y]
  BY <1>1 DEF FixedInv, IsHeuristic
<1>3. QED
  BY <1>1, <1>2 DEF Value

\* Entries are pairs of a g and a state.
LEMMA EntriesAreTyped == TypeOK => Queued \cup AtWork \subseteq Level \X State
BY NotLaterFacts

\* OriginInv is inductive: a new entry is a successor of a state that is closed
\* by this step, or imaged ahead by it.
LEMMA OriginInvNext ==
    /\ TypeOK /\ HeuristicType /\ FixedInv /\ LevelInv /\ OrderInv /\ LostInv
    /\ BucketInv /\ OriginInv
    /\ TypeOK' /\ FixedInv' /\ LevelInv' /\ LostInv' /\ [Next]_vars
    => OriginInv'
<1> SUFFICES ASSUME TypeOK, HeuristicType, FixedInv, LevelInv, OrderInv, LostInv,
                    BucketInv, OriginInv, TypeOK', FixedInv', LevelInv', LostInv',
                    [Next]_vars, ~Solved', NEW e \in (Queued \cup AtWork)'
             PROVE  HasOrigin(e[1], e[2])'
  BY DEF OriginInv
<1> USE DEF engine
<1>1. ~Solved
  BY BoundsOnlyTighten DEF Solved
<1>2. ClosedHaveOrigin'
  <2>1. (TypeOK /\ FixedInv /\ LevelInv /\ LostInv /\ ~Solved => ClosedHaveOrigin)'
    BY SuccessorsHaveOrigin, PTL
  <2>2. QED
    BY <2>1
<1>3. e[1] \in Level /\ e[2] \in State
  <2>1. (TypeOK => Queued \cup AtWork \subseteq Level \X State)'
    BY EntriesAreTyped, PTL
  <2>2. QED
    BY <2>1
<1>4. ASSUME e \in Queued \cup AtWork PROVE HasOrigin(e[1], e[2])'
  <2>1. PICK g \in Level, y \in State : g = e[1] /\ y = e[2]
    BY <1>3
  <2>2. HasOrigin(g, y) /\ h[y] # INT_MAX
    BY <1>1, <1>4, <2>1 DEF OriginInv, BucketInv
  <2>3. task.dist["fw"][y] <= g
    BY <1>4, <2>1 DEF LevelInv, AtWork
  <2>4. HasOrigin(g, y)'
    BY <1>2, <2>2, <2>3, OriginKept
  <2>5. QED
    BY <2>1, <2>4
<1>5. CASE Idle
  <2>1. Queued' = Queued /\ AtWork' = AtWork
    BY <1>5 DEF Idle, Queued, AtWork, InBucket
  <2>2. QED
    BY <1>4, <2>1
<1>6. CASE Select
  <2>0. PICK g, v \in Level : Selected(g, v)
    BY <1>6, SelectFacts
  <2>1. /\ open' \subseteq open /\ preexpanded' \subseteq preexpanded
        /\ \/ bucket' = bucket
           \/ bucket'.g = g /\ InBucket' \subseteq PickedAt(g, v)
    BY <2>0 DEF Selected
  <2>2. Queued' \subseteq Queued
    BY <2>1 DEF Queued
  <2>3. AtWork' \subseteq Queued \cup AtWork
    BY <2>1 DEF AtWork, PickedAt, InBucket
  <2>4. QED
    BY <1>4, <2>2, <2>3
<1>7. CASE Discard
  <2>1. AtWork' = {} /\ Queued' = Queued
    BY <1>7, DiscardFacts DEF InBucket, AtWork, NoBucket, Queued
  <2>2. QED
    BY <1>4, <2>1
<1>8. CASE Expand
  <2>0. PICK kept \in SUBSET InBucket, fresh \in SUBSET State, ahead \in SUBSET State :
           fresh \subseteq kept /\ Expanded(kept, fresh, ahead)
    BY <1>8, ExpandFacts
  <2>1. /\ closed' = [closed EXCEPT !["fw"][bucket.g] = @ \cup kept]
        /\ \A x \in ahead : <<bucket.g, x>> \in preexpanded' /\ x \notin ClosedTotal("bw")
        /\ \A f \in Queued' \ Queued :
              \E c \in DOMAIN task.ops : \E x \in fresh \cup ahead :
                  f[1] = bucket.g + c /\ Edge(task, "fw", c, x, f[2])
        /\ bucket' = NoBucket /\ task' = task
    BY <2>0 DEF Expanded
  <2>2. AtWork' = {}
    BY <2>1 DEF InBucket, AtWork, NoBucket
  <2>3. CASE e \in Queued' \ Queued
    <3>1. PICK c \in DOMAIN task.ops, x \in fresh \cup ahead :
             e[1] = bucket.g + c /\ Edge(task, "fw", c, x, e[2])
      BY <2>1, <2>3
    <3>2. PICK g \in Level, y \in State : g = e[1] /\ y = e[2]
      BY <1>3
    <3>3. c \in Nat /\ bucket.g \in Level /\ bucket.g \in Nat /\ x \in State
      BY <2>0, <3>1, LevelFacts, MinTransitionCostFacts DEF TypeOK, EngineTypeOK
    <3>4. c <= g /\ g - c = bucket.g
      BY <3>1, <3>2, <3>3
    <3>5. CASE x \in fresh
      <4>1. x \in closed'["fw"][g - c]
        BY <2>0, <2>1, <3>3, <3>4, <3>5 DEF TypeOK, EngineTypeOK, Levels, Dir
      <4>2. Traceable("fw", g, y)'
        BY <2>1, <3>1, <3>2, <3>4, <4>1 DEF Traceable
      <4>3. QED
        BY <3>2, <4>2 DEF HasOrigin
    <3>6. CASE x \in ahead
      <4>1. <<g - c, x>> \in preexpanded' /\ x \notin task.goal
        BY <2>1, <3>4, <3>6, ClosedGoals
      <4>2. Pending(g, c, x, y)'
        BY <2>1, <3>1, <3>2, <4>1 DEF Pending
      <4>3. QED
        BY <2>1, <3>2, <3>3, <3>4, <4>2 DEF HasOrigin
    <3>7. QED
      BY <3>1, <3>5, <3>6
  <2>4. QED
    BY <1>4, <2>2, <2>3
<1>9. QED
  BY <1>5, <1>6, <1>7, <1>8, StepKinds

\* A state that Expand keeps is traceable: none of the reasons to drop it applies.
LEMMA KeptIsTraceable ==
    ASSUME TypeOK, HeuristicType, FixedInv, OrderInv, BucketInv, OriginInv,
           NEW kept \in SUBSET InBucket, NEW fresh, NEW ahead, Expanded(kept, fresh, ahead),
           NEW y \in kept, bucket.g + task.dist["bw"][y] < INT_MAX
    PROVE  Traceable("fw", bucket.g, y)
<1> DEFINE g == bucket.g
           e == <<g, y>>
<1>1. /\ pc = "expand" /\ ~(upper_bound < INT_MAX /\ Useless(y))
      /\ y \in InBucket /\ y \in State /\ y \notin task.goal /\ y \notin ClosedTotal("fw")
  BY DEF Expanded, FixedInv, BucketInv, TypeOK, InBucket
<1>2. /\ g \in Nat /\ g \in Level /\ h[y] \in Nat /\ upper_bound \in Nat
      /\ task.dist["bw"][y] \in Nat /\ INT_MAX \in Nat
  <2>1. IsTask(task) /\ "bw" \in Dir
    BY DEF TypeOK, EngineTypeOK, Dir
  <2>2. task.dist["bw"][y] \in Nat
    BY <1>1, <2>1, DistanceFacts
  <2>3. QED
    BY <1>1, <2>2, LevelFacts, ValueFacts, EngineFacts DEF TypeOK
<1>3. e \in AtWork
  BY <1>1 DEF AtWork
<1>4. HasOrigin(g, y) /\ g + h[y] < INT_MAX /\ h[y] # INT_MAX
  BY <1>1, <1>3 DEF BucketInv, OriginInv
<1>5. ~Beyond(g, y)
  BY <1>2 DEF Beyond
<1>6. ~Dull(g, y)
  BY <1>1, <1>2, <1>4 DEF Dull, Useless
<1>7. ASSUME NEW k \in Level, k < g PROVE <<k, y>> \notin Queued /\ y \notin closed["fw"][k]
  <2>1. y \notin closed["fw"][k]
    BY <1>1 DEF ClosedTotal
  <2>2. ASSUME <<k, y>> \in Queued PROVE FALSE
    <3>1. NotLater(e, <<k, y>>)
      BY <1>3, <2>2 DEF OrderInv
    <3>2. Value(y) \in Nat /\ k \in Nat
      BY <1>1, LevelFacts, ValueFacts
    <3>3. QED
      BY <1>2, <1>7, <3>1, <3>2 DEF NotLater, Fvalue
  <2>3. QED
    BY <2>1, <2>2
<1>8. ASSUME NEW n \in Nat, n < g, Accounted(n, y) PROVE FALSE
  <2>1. CASE (y \in task.goal \/ PruneOnly) /\ upper_bound <= n + h[y]
    <3>1. upper_bound <= g + h[y]
      BY <1>2, <1>8, <2>1
    <3>2. QED
      BY <1>6, <2>1, <3>1 DEF Dull
  <2>2. ASSUME NEW k \in Level, k <= n,
               <<k, y>> \in Queued \/ k = bucket.g \/ y \in closed["fw"][k]
        PROVE  FALSE
    <3>1. k < g
      BY <1>2, <1>8, <2>2, LevelFacts
    <3>2. QED
      BY <1>2, <1>7, <2>2, <3>1
  <2>3. QED
    BY <1>4, <1>8, <2>1, <2>2 DEF Accounted
<1>9. ASSUME NEW c \in DOMAIN task.ops, NEW x \in State, c <= g, Pending(g, c, x, y)
      PROVE  FALSE
  <2>1. c \in Nat /\ c # 0
    BY MinTransitionCostFacts, PositiveCosts DEF TypeOK, EngineTypeOK
  <2>2. <<g - c, x>> \in preexpanded
    BY <1>2, <1>9, <2>1 DEF Pending
  <2>3. NotLater(e, <<g - c, x>>)
    BY <1>3, <2>2 DEF OrderInv, Queued
  <2>4. /\ Fvalue(e) = g + Value(y) /\ Fvalue(<<g - c, x>>) = (g - c) + Value(x)
        /\ Value(x) \in Nat /\ Value(y) \in Nat
    BY <1>1, ValueFacts DEF Fvalue
  <2>5. Value(x) <= c + Value(y)
    BY <1>1, <1>4, <1>9, <2>1, ValueFalls DEF Pending
  <2>6. QED
    BY <1>2, <1>9, <2>1, <2>3, <2>4, <2>5 DEF NotLater
<1>10. QED
  BY <1>4, <1>5, <1>6, <1>8, <1>9 DEF HasOrigin

\* A plan is registered only for a goal state whose origin is in the closed list.
\* The others are no news: a cheaper plan is known, or they wait at less.
LEMMA RegisteredIsTraceable ==
    ASSUME TypeOK, HeuristicType, FixedInv, LevelInv, OrderInv, BucketInv, OriginInv,
           NEW g \in Level, NEW v \in Level, Selected(g, v),
           NEW y \in PickedAt(g, v), y \in task.goal, g < upper_bound
    PROVE  Traceable("fw", g, y)
<1>1. /\ pc = "select" /\ ~Solved /\ InBucket = {}
      /\ \A f \in Queued : KeyNotLater(g, v, f)
  BY DEF Selected, BucketInv, FixedInv
<1>2. <<g, y>> \in Queued /\ y \in State /\ Value(y) = v
  BY DEF PickedAt
<1>3. /\ g \in Nat /\ v \in Nat /\ upper_bound \in Nat /\ upper_bound <= INT_MAX
      /\ INT_MAX \in Nat
  BY LevelFacts, EngineFacts DEF TypeOK
<1>4. h[y] = 0 /\ h[y] # INT_MAX
  BY IntMaxAssumption DEF FixedInv, IsHeuristic
<1>5. HasOrigin(g, y)
  BY <1>1, <1>2 DEF OriginInv
<1>6. ~Beyond(g, y)
  <2>1. IsTask(task) /\ "bw" \in Dir /\ y \in Source(task, "bw")
    BY DEF TypeOK, EngineTypeOK, Dir, Source
  <2>2. task.dist["bw"][y] = 0
    BY <1>2, <2>1, DistanceFacts
  <2>3. QED
    BY <1>3, <2>2 DEF Beyond
<1>7. ~Dull(g, y)
  BY <1>3, <1>4 DEF Dull
<1>8. ASSUME NEW n \in Nat, n < g, Accounted(n, y) PROVE FALSE
  <2>1. ~(upper_bound <= n + h[y])
    BY <1>3, <1>4, <1>8
  <2>2. ASSUME NEW k \in Level, k <= n, <<k, y>> \in Queued PROVE FALSE
    <3>1. KeyNotLater(g, v, <<k, y>>) /\ Fvalue(<<k, y>>) = k + v
      BY <1>1, <1>2, <2>2 DEF Fvalue
    <3>2. k \in Nat /\ k < g
      BY <1>3, <1>8, <2>2, LevelFacts
    <3>3. QED
      BY <1>3, <3>1, <3>2 DEF KeyNotLater
  <2>3. \A k \in Level : y \notin closed["fw"][k]
    BY DEF FixedInv
  <2>4. QED
    BY <1>1, <1>4, <1>8, <2>1, <2>2, <2>3 DEF Accounted
<1>9. ASSUME NEW c \in DOMAIN task.ops, NEW x \in State, c <= g, Pending(g, c, x, y)
      PROVE  FALSE
  <2>1. c \in Nat /\ c # 0
    BY MinTransitionCostFacts, PositiveCosts DEF TypeOK, EngineTypeOK
  <2>2. <<g - c, x>> \in Queued
    BY <1>1, <1>9 DEF Pending, InBucket, Queued
  <2>3. KeyNotLater(g, v, <<g - c, x>>) /\ Fvalue(<<g - c, x>>) = (g - c) + Value(x)
    BY <1>1, <2>2 DEF Fvalue
  <2>4. Value(x) \in Nat /\ Value(x) <= c + v
    BY <1>2, <1>4, <1>9, ValueFacts, ValueFalls DEF Pending
  <2>5. QED
    BY <1>3, <1>9, <2>1, <2>3, <2>4 DEF KeyNotLater
<1>10. QED
  BY <1>5, <1>6, <1>7, <1>8, <1>9 DEF HasOrigin

\* The registered cut consists of goal states that can be traced back.
GoodCut(sol) ==
    /\ sol.cut # {} /\ sol.h = 0
    /\ \A s \in sol.cut : s \in task.goal /\ Traceable("fw", sol.g, s)

\* Two parts of SolutionReconstructible.
CutsTraceable ==
    /\ upper_bound < task.bound => \E sol \in sym_cuts : Cost(sol) = upper_bound /\ sol.cut # {}
    /\ \A sol \in sym_cuts : \A s \in sol.cut :
          s \in task.goal /\ sol.h = 0 /\ Traceable("fw", sol.g, s)

ClosedTraceable ==
    \A g \in Level : \A s \in closed["fw"][g] :
        g + task.dist["bw"][s] < INT_MAX => Traceable("fw", g, s)

\* A call of new_solution leaves the registry with a good cut, if the cuts that
\* are cheaper than the best so far are good.
LEMMA GoodCutsStay ==
    ASSUME EngineTypeOK, task' = task, ClosedGrows, CutsTraceable, sym_cuts \subseteq Cuts,
           NEW sols, sols \subseteq Cuts, NewSolutions(sols),
           \A sol \in sols : Cost(sol) < upper_bound => GoodCut(sol)
    PROVE  CutsTraceable'
<1>1. \/ UNCHANGED <<sym_cuts, upper_bound>>
      \/ \E sol \in sols : /\ sym_cuts' = {sol}
                           /\ upper_bound' = Cost(sol)
                           /\ upper_bound' < upper_bound
  BY NewSolutionsFacts DEF EngineTypeOK
<1>2. \A g \in Level : \A s : Traceable("fw", g, s) => Traceable("fw", g, s)'
  BY TraceableStable DEF Dir
<1>3. CASE UNCHANGED <<sym_cuts, upper_bound>>
  <2>1. \A sol \in sym_cuts : sol.g \in Level
    BY DEF Cuts
  <2>2. QED
    BY <1>2, <1>3, <2>1 DEF CutsTraceable, Cost
<1>4. ASSUME NEW sol \in sols, sym_cuts' = {sol}, upper_bound' = Cost(sol),
             upper_bound' < upper_bound
      PROVE  CutsTraceable'
  <2>1. GoodCut(sol) /\ sol.g \in Level
    BY <1>4 DEF Cuts
  <2>2. QED
    BY <1>2, <1>4, <2>1 DEF CutsTraceable, GoodCut, Cost
<1>5. QED
  BY <1>1, <1>3, <1>4

\* Steps that register no plan keep the cut.
LEMMA SameCutStays ==
    ASSUME EngineTypeOK, task' = task, ClosedGrows, CutsTraceable,
           UNCHANGED <<sym_cuts, upper_bound>>
    PROVE  CutsTraceable'
<1>1. \A g \in Level : \A s : Traceable("fw", g, s) => Traceable("fw", g, s)'
  BY TraceableStable DEF Dir
<1>2. \A sol \in sym_cuts : sol.g \in Level
  BY DEF EngineTypeOK, Cuts
<1>3. QED
  BY <1>1, <1>2 DEF CutsTraceable, Cost

\* CutsTraceable is inductive.
LEMMA CutsTraceableNext ==
    /\ TypeOK /\ HeuristicType /\ FixedInv /\ LevelInv /\ OrderInv /\ BucketInv
    /\ OriginInv /\ CutsTraceable /\ [Next]_vars
    => CutsTraceable'
<1> SUFFICES ASSUME TypeOK, HeuristicType, FixedInv, LevelInv, OrderInv, BucketInv,
                    OriginInv, CutsTraceable, [Next]_vars
             PROVE  CutsTraceable'
  OBVIOUS
<1> USE DEF engine, search
<1>1. EngineTypeOK /\ IsTask(task) /\ task' = task /\ ClosedGrows /\ sym_cuts \subseteq Cuts
  BY ClosedListGrows DEF TypeOK, EngineTypeOK
<1>2. CASE Step
  <2>1. EmptyPlan \subseteq Cuts /\ NewSolutions(EmptyPlan)
    BY <1>1, <1>2, EmptyPlanType DEF Step, StepEngine
  <2>2. \A sol \in EmptyPlan : GoodCut(sol)
    BY DEF EmptyPlan, GoodCut, Traceable, Source
  <2>3. QED
    BY <1>1, <2>1, <2>2, GoodCutsStay
<1>3. CASE Select
  <2>0. PICK g, v \in Level : Selected(g, v)
    BY <1>3, SelectFacts
  <2> DEFINE B == PickedAt(g, v)
             sols == CheapestCut("fw", g, B)
  <2>1. NewSolutions(sols)
    BY <2>0 DEF Selected
  <2>2. B \in SUBSET State /\ "fw" \in Dir /\ Opposite("fw") = "bw"
    BY DEF PickedAt, Dir, Opposite
  <2>3. sols \subseteq CheapestCuts("fw", g, B)
    BY DEF CheapestCuts
  <2>4. CheapestCuts("fw", g, B) \subseteq Cuts
    BY <1>1, <2>2, CheapestCutsType DEF EngineTypeOK
  <2>5. ASSUME NEW sol \in sols, Cost(sol) < upper_bound PROVE GoodCut(sol)
    <3>0. sol \in CheapestCuts("fw", g, B)
      BY <2>3
    <3> HIDE DEF B, sols
    <3>1. PICK k \in Level : \E C \in (SUBSET (B \cap closed["bw"][k])) \ {{}} :
             sol = [g |-> g, h |-> k, cut |-> C]
      BY <2>2, <3>0, CheapestCutsFacts
    <3>2. PICK C \in (SUBSET (B \cap closed["bw"][k])) \ {{}} :
             sol = [g |-> g, h |-> k, cut |-> C]
      BY <3>1
    <3>3. k = 0 /\ C \subseteq task.goal /\ C # {} /\ C \subseteq B
      BY <3>2 DEF FixedInv
    <3>4. g < upper_bound
      <4>1. sol.g = g /\ sol.h = 0 /\ g \in Nat
        BY <3>2, <3>3, LevelFacts
      <4>2. Cost(sol) = g
        BY <4>1 DEF Cost
      <4>3. QED
        BY <2>5, <4>2
    <3>5. \A s \in C : s \in task.goal /\ Traceable("fw", g, s)
      BY <2>0, <3>3, <3>4, RegisteredIsTraceable DEF B
    <3>6. QED
      BY <3>2, <3>3, <3>5 DEF GoodCut
  <2>6. sols \subseteq Cuts
    BY <2>3, <2>4
  <2> HIDE DEF sols
  <2>7. QED
    BY <1>1, <2>1, <2>5, <2>6, GoodCutsStay
<1>4. CASE Unsolvable \/ Discard \/ Expand \/ Finish \/ Done \/ UNCHANGED vars
  <2>1. UNCHANGED <<sym_cuts, upper_bound>>
    BY <1>4 DEF Unsolvable, Discard, Expand, Finish, Done, vars
  <2>2. QED
    BY <1>1, <2>1, SameCutStays
<1>5. QED
  BY <1>2, <1>3, <1>4 DEF Next

\* ClosedTraceable is inductive.
LEMMA ClosedTraceableNext ==
    /\ TypeOK /\ HeuristicType /\ FixedInv /\ OrderInv /\ BucketInv
    /\ OriginInv /\ ClosedTraceable /\ [Next]_vars
    => ClosedTraceable'
<1> SUFFICES ASSUME TypeOK, HeuristicType, FixedInv, OrderInv, BucketInv,
                    OriginInv, ClosedTraceable, [Next]_vars,
                    NEW g \in Level, NEW s \in closed'["fw"][g],
                    g + task'.dist["bw"][s] < INT_MAX
             PROVE  Traceable("fw", g, s)'
  BY DEF ClosedTraceable
<1> USE DEF engine
<1>1. EngineTypeOK /\ task' = task /\ ClosedGrows /\ "fw" \in Dir
  BY ClosedListGrows DEF TypeOK, Dir
<1>2. CASE s \in closed["fw"][g]
  BY <1>1, <1>2, TraceableStable DEF ClosedTraceable
<1>3. CASE s \notin closed["fw"][g]
  <2>1. closed' # closed
    BY <1>3
  <2>2. Expand
    BY <2>1, StepKinds, SelectFacts, DiscardFacts DEF Idle, Selected
  <2>3. PICK kept \in SUBSET InBucket, fresh \in SUBSET State, ahead \in SUBSET State :
           fresh \subseteq kept /\ Expanded(kept, fresh, ahead)
    BY <2>2, ExpandFacts
  <2>4. closed' = [closed EXCEPT !["fw"][bucket.g] = @ \cup kept]
    BY <2>3 DEF Expanded
  <2>5. g = bucket.g /\ s \in kept
    BY <1>3, <2>4 DEF TypeOK, EngineTypeOK, Levels, Dir
  <2>6. Traceable("fw", g, s)
    BY <1>1, <2>3, <2>5, KeptIsTraceable
  <2>7. QED
    BY <1>1, <2>6, TraceableStable
<1>4. QED
  BY <1>2, <1>3

\* The plan that a heuristic search registers can be reconstructed from its
\* closed list, whatever was imaged ahead, dropped by a filter or sliced off.
THEOREM SolutionsAreReconstructible == Spec => []SolutionReconstructible
<1>1. SolutionReconstructible <=> CutsTraceable /\ ClosedTraceable
  BY DEF SolutionReconstructible, CutsTraceable, ClosedTraceable
<1> DEFINE Inv == BucketInv /\ OriginInv /\ CutsTraceable /\ ClosedTraceable
<1>2. Init => Inv
  BY <1>1, OriginInit
<1>3. SearchInv /\ SearchInv' /\ Inv /\ [Next]_vars => Inv'
  BY BucketInvNext, OriginInvNext, CutsTraceableNext, ClosedTraceableNext DEF SearchInv
<1>4. Inv => SolutionReconstructible
  BY <1>1
<1>5. QED
  BY <1>2, <1>3, <1>4, SearchInvariant, PTL DEF Spec
=============================================================================
