----------------------- MODULE SolutionRegistryProofs -----------------------
(***************************************************************************)
(* The plan that SolutionRegistry reports is valid, optimal and, if asked  *)
(* for, simple; and it does report one.                                    *)
(***************************************************************************)
EXTENDS SolutionRegistry, UniformCostSearchProofs

-----------------------------------------------------------------------------
(* What a sequence of operators does *)

\* Appending to the second of two sequences.
LEMMA AppendToConcat ==
    ASSUME NEW I, NEW p \in Seq(I), NEW q \in Seq(I), NEW i \in I
    PROVE  p \o Append(q, i) = Append(p \o q, i)
OBVIOUS

\* One function more.
LEMMA ChainAppend ==
    ASSUME NEW V, NEW I, NEW Do \in [I -> [V -> V]], NEW v \in V, NEW ops \in Seq(I),
           NEW f, Chain(f, V, Do, v, ops), NEW i \in I
    PROVE  Leads(V, Do, v, Append(ops, i), Do[i][f[Len(ops)]])
<1> DEFINE l == Len(ops)
           more == Append(ops, i)
           g == [n \in 0 .. l + 1 |-> IF n = l + 1 THEN Do[i][f[l]] ELSE f[n]]
<1>1. /\ l \in Nat /\ Len(more) = l + 1
      /\ more[l + 1] = i /\ \A n \in 1 .. l : more[n] = ops[n]
  OBVIOUS
<1>2. f[l] \in V /\ Do[i][f[l]] \in V
  BY <1>1 DEF Chain
<1>3. g \in [0 .. l + 1 -> V]
  BY <1>1, <1>2 DEF Chain
<1>4. g[0] = v /\ g[l + 1] = Do[i][f[l]] /\ g[l] = f[l]
  BY <1>1 DEF Chain
<1>5. ASSUME NEW n \in 1 .. l PROVE g[n] = Do[more[n]][g[n - 1]]
  <2>1. g[n] = f[n] /\ g[n - 1] = f[n - 1]
    BY <1>1
  <2>2. f[n] = Do[ops[n]][f[n - 1]]
    BY DEF Chain
  <2> HIDE DEF g
  <2>3. QED
    BY <1>1, <2>1, <2>2
<1> HIDE DEF g, more
<1>6. \A n \in 1 .. l + 1 : g[n] = Do[more[n]][g[n - 1]]
  <2>1. g[l + 1] = Do[more[l + 1]][g[l + 1 - 1]]
    BY <1>1, <1>4
  <2>2. \A n \in 1 .. l + 1 : n = l + 1 \/ n \in 1 .. l
    BY <1>1
  <2>3. QED
    BY <1>5, <2>1, <2>2
<1>7. Chain(g, V, Do, v, more)
  BY <1>1, <1>3, <1>4, <1>6 DEF Chain
<1>8. QED
  BY <1>1, <1>4, <1>7 DEF more, Leads

\* One function before the others.
LEMMA ChainCons ==
    ASSUME NEW V, NEW I, NEW Do \in [I -> [V -> V]], NEW v \in V, NEW ops \in Seq(I),
           NEW i \in I, NEW f, Chain(f, V, Do, Do[i][v], ops)
    PROVE  Leads(V, Do, v, <<i>> \o ops, f[Len(ops)])
<1> DEFINE l == Len(ops)
           more == <<i>> \o ops
           g == [n \in 0 .. l + 1 |-> IF n = 0 THEN v ELSE f[n - 1]]
<1>1. /\ l \in Nat /\ Len(more) = l + 1
      /\ more[1] = i /\ \A n \in 1 .. l : more[n + 1] = ops[n]
  OBVIOUS
<1>2. /\ \A n \in 0 .. l : f[n] \in V
      /\ f[0] = Do[i][v]
      /\ \A n \in 1 .. l : f[n] = Do[ops[n]][f[n - 1]]
  BY <1>1 DEF Chain
<1>3. g \in [0 .. l + 1 -> V]
  BY <1>1, <1>2
<1>4. g[0] = v /\ \A n \in 0 .. l : g[n + 1] = f[n]
  BY <1>1
<1> HIDE DEF g, more
<1>5. ASSUME NEW n \in 1 .. l + 1 PROVE g[n] = Do[more[n]][g[n - 1]]
  <2>1. CASE n = 1
    <3>1. g[0 + 1] = f[0] /\ 0 + 1 = 1 /\ 1 - 1 = 0
      BY <1>1, <1>4
    <3>2. QED
      BY <1>1, <1>2, <1>4, <2>1, <3>1
  <2>2. CASE n # 1
    <3> DEFINE m == n - 1
    <3>1. m \in 1 .. l /\ m \in 0 .. l /\ m - 1 \in 0 .. l /\ m - 1 + 1 = m /\ m + 1 = n
      BY <1>1, <2>2
    <3> HIDE DEF m
    <3>2. g[m + 1] = f[m] /\ g[m - 1 + 1] = f[m - 1] /\ more[m + 1] = ops[m]
      BY <1>1, <1>4, <3>1
    <3>3. f[m] = Do[ops[m]][f[m - 1]]
      BY <1>2, <3>1
    <3>4. n - 1 = m
      BY DEF m
    <3>5. QED
      BY <3>1, <3>2, <3>3, <3>4
  <2>3. QED
    BY <2>1, <2>2
<1>6. Chain(g, V, Do, v, more)
  BY <1>1, <1>3, <1>4, <1>5 DEF Chain
<1>7. QED
  BY <1>1, <1>4, <1>6 DEF more, Leads

\* The operators of the task as functions on sets of states, and on costs.
Operators == DOMAIN task.operators

StateSets == SUBSET State

Applying == [i \in Operators |-> [S \in StateSets |-> ApplyOperator(i, S)]]

Adding == [i \in Operators |-> [k \in Nat |-> k + task.operators[i].cost]]

TaskOK == IsTask(task) /\ HasOperators(task)

\* An operator has a cost, and leads from states to states.
LEMMA OperatorFacts ==
    ASSUME TaskOK, NEW i \in Operators
    PROVE  /\ task.operators[i].cost \in DOMAIN task.ops
           /\ task.operators[i].cost \in Nat
           /\ task.operators[i].rel \subseteq State \X State
           /\ \A S : ApplyOperator(i, S) \in StateSets
<1>1. task.operators[i] \in [cost : DOMAIN task.ops, rel : SUBSET (State \X State)]
  <2>1. PICK J : J = [cost : DOMAIN task.ops, rel : SUBSET (State \X State)]
    OBVIOUS
  <2>2. task.operators \in Seq(J)
    BY <2>1, Zenon DEF TaskOK, HasOperators
  <2>3. task.operators[i] \in J
    BY <2>2, ElementFacts DEF Operators
  <2>4. QED
    BY <2>1, <2>3, Zenon
<1>2. task.operators[i].cost \in Nat
  BY <1>1, MinTransitionCostFacts DEF TaskOK
<1>3. \A S : ApplyOperator(i, S) \in StateSets
  BY DEF ApplyOperator, StateSets
<1>4. QED
  BY <1>1, <1>2, <1>3

\* They are functions of the types that the lemmas on lists ask for.
LEMMA StepTypes ==
    ASSUME TaskOK
    PROVE  /\ Applying \in [Operators -> [StateSets -> StateSets]]
           /\ Adding \in [Operators -> [Nat -> Nat]]
<1>1. \A i \in Operators : [S \in StateSets |-> ApplyOperator(i, S)]
                              \in [StateSets -> StateSets]
  BY OperatorFacts
<1>2. ASSUME NEW i \in Operators
      PROVE  [k \in Nat |-> k + task.operators[i].cost] \in [Nat -> Nat]
  <2>1. task.operators[i].cost \in Nat
    BY OperatorFacts
  <2>2. QED
    BY <2>1
<1>3. QED
  BY <1>1, <1>2 DEF Applying, Adding

\* RunPlan ends such a list.
LEMMA RunPlanChain ==
    ASSUME TaskOK, NEW S \in StateSets, NEW ops \in Seq(Operators)
    PROVE  /\ \E f : Chain(f, StateSets, Applying, S, ops)
           /\ \A f : Chain(f, StateSets, Applying, S, ops) => RunPlan(S, ops) = f[Len(ops)]
<1> DEFINE Eqn(a) == a = [n \in 0 .. Len(ops) |->
                            IF n = 0 THEN S ELSE ApplyOperator(ops[n], a[n - 1])]
           after == CHOOSE a : Eqn(a)
<1>1. RunPlan(S, ops) = after[Len(ops)]
  BY DEF RunPlan
<1>2. \E f : Chain(f, StateSets, Applying, S, ops)
  BY ChainExists, StepTypes
<1>3. ASSUME NEW f, Chain(f, StateSets, Applying, S, ops)
      PROVE  after[Len(ops)] = f[Len(ops)]
  <2>1. \A n \in 1 .. Len(ops) : /\ f[n - 1] \in StateSets /\ ops[n] \in Operators
                                 /\ f[n] = Applying[ops[n]][f[n - 1]]
    <3>1. \A n \in 1 .. Len(ops) : n - 1 \in 0 .. Len(ops)
      OBVIOUS
    <3>2. QED
      BY <1>3, <3>1 DEF Chain
  <2>2. \A n \in 1 .. Len(ops) : f[n] = ApplyOperator(ops[n], f[n - 1])
    BY <2>1 DEF Applying
  <2>3. f = [n \in 0 .. Len(ops) |-> f[n]] /\ f[0] = S
    BY <1>3 DEF Chain
  <2>4. \A n \in 0 .. Len(ops) : f[n] = IF n = 0 THEN S ELSE ApplyOperator(ops[n], f[n - 1])
    BY <2>2, <2>3
  <2>5. Eqn(f)
    BY <2>3, <2>4
  <2>6. Eqn(after)
    BY <2>5
  <2> HIDE DEF after
  <2>7. \A n \in 0 .. Len(ops) :
            after[n] = IF n = 0 THEN S ELSE ApplyOperator(ops[n], after[n - 1])
    BY <2>6
  <2>8. after[0] = S
    BY <2>7, ElementFacts
  <2>9. \A n \in 1 .. Len(ops) : after[n - 1] \in StateSets =>
                                     after[n] = Applying[ops[n]][after[n - 1]]
    <3> SUFFICES ASSUME NEW n \in 1 .. Len(ops), after[n - 1] \in StateSets
                 PROVE  after[n] = Applying[ops[n]][after[n - 1]]
      OBVIOUS
    <3>1. after[n] = ApplyOperator(ops[n], after[n - 1])
      BY <2>7
    <3>2. QED
      BY <2>1, <3>1 DEF Applying
  <2>10. Applying \in [Operators -> [StateSets -> StateSets]]
    BY StepTypes
  <2>11. Follows(after, StateSets, Applying, S, ops)
    BY <2>8, <2>9 DEF Follows
  <2>12. S \in StateSets
    OBVIOUS
  <2>13. QED
    BY <1>3, <2>10, <2>11, <2>12, ChainUnique
<1>4. QED
  BY <1>1, <1>2, <1>3

\* PlanCost ends such a list.
LEMMA PlanCostChain ==
    ASSUME TaskOK, NEW ops \in Seq(Operators)
    PROVE  /\ \E f : Chain(f, Nat, Adding, 0, ops)
           /\ \A f : Chain(f, Nat, Adding, 0, ops) => PlanCost(ops) = f[Len(ops)]
<1> DEFINE Eqn(a) == a = [n \in 0 .. Len(ops) |->
                            IF n = 0 THEN 0 ELSE a[n - 1] + task.operators[ops[n]].cost]
           sum == CHOOSE a : Eqn(a)
<1>1. PlanCost(ops) = sum[Len(ops)]
  BY DEF PlanCost
<1>2. \E f : Chain(f, Nat, Adding, 0, ops)
  BY ChainExists, StepTypes
<1>3. ASSUME NEW f, Chain(f, Nat, Adding, 0, ops)
      PROVE  sum[Len(ops)] = f[Len(ops)]
  <2>1. \A n \in 1 .. Len(ops) : /\ f[n - 1] \in Nat /\ ops[n] \in Operators
                                 /\ f[n] = Adding[ops[n]][f[n - 1]]
    <3> SUFFICES ASSUME NEW n \in 1 .. Len(ops)
                 PROVE  /\ f[n - 1] \in Nat /\ ops[n] \in Operators
                        /\ f[n] = Adding[ops[n]][f[n - 1]]
      OBVIOUS
    <3>1. n - 1 \in 0 .. Len(ops) /\ ops[n] \in Operators
      OBVIOUS
    <3>2. /\ \A m \in 0 .. Len(ops) : f[m] \in Nat
          /\ \A m \in 1 .. Len(ops) : f[m] = Adding[ops[m]][f[m - 1]]
      BY <1>3 DEF Chain
    <3>3. QED
      BY <3>1, <3>2
  <2>2. \A n \in 1 .. Len(ops) : f[n] = f[n - 1] + task.operators[ops[n]].cost
    BY <2>1 DEF Adding
  <2>3. f = [n \in 0 .. Len(ops) |-> f[n]] /\ f[0] = 0
    BY <1>3 DEF Chain
  <2>4. \A n \in 0 .. Len(ops) :
            f[n] = IF n = 0 THEN 0 ELSE f[n - 1] + task.operators[ops[n]].cost
    BY <2>2, <2>3
  <2>5. Eqn(f)
    BY <2>3, <2>4
  <2>6. Eqn(sum)
    BY <2>5
  <2> HIDE DEF sum
  <2>7. \A n \in 0 .. Len(ops) :
            sum[n] = IF n = 0 THEN 0 ELSE sum[n - 1] + task.operators[ops[n]].cost
    BY <2>6
  <2>8. sum[0] = 0
    BY <2>7, ElementFacts
  <2>9. \A n \in 1 .. Len(ops) : sum[n - 1] \in Nat =>
                                     sum[n] = Adding[ops[n]][sum[n - 1]]
    <3> SUFFICES ASSUME NEW n \in 1 .. Len(ops), sum[n - 1] \in Nat
                 PROVE  sum[n] = Adding[ops[n]][sum[n - 1]]
      OBVIOUS
    <3>1. sum[n] = sum[n - 1] + task.operators[ops[n]].cost
      BY <2>7
    <3>2. QED
      BY <2>1, <3>1 DEF Adding
  <2>10. Adding \in [Operators -> [Nat -> Nat]]
    BY StepTypes
  <2>11. Follows(sum, Nat, Adding, 0, ops)
    BY <2>8, <2>9 DEF Follows
  <2>12. PICK V, z : V = Nat /\ z = 0
    OBVIOUS
  <2>13. /\ Adding \in [Operators -> [V -> V]] /\ z \in V
         /\ Follows(sum, V, Adding, z, ops) /\ Chain(f, V, Adding, z, ops)
    BY <1>3, <2>10, <2>11, <2>12
  <2>14. QED
    BY <2>13, ChainUnique
<1>4. QED
  BY <1>1, <1>2, <1>3

\* Nothing happens without operators.
LEMMA EmptyRun ==
    ASSUME TaskOK, NEW S \in StateSets
    PROVE  <<>> \in Seq(Operators) /\ RunPlan(S, <<>>) = S /\ PlanCost(<<>>) = 0
<1>1. <<>> \in Seq(Operators) /\ Len(<<>>) = 0
  OBVIOUS
<1>2. RunPlan(S, <<>>) = S
  <2>1. PICK f : Chain(f, StateSets, Applying, S, <<>>)
    BY <1>1, RunPlanChain
  <2>2. f[Len(<<>>)] = S
    BY <1>1, <2>1 DEF Chain
  <2>3. QED
    BY <1>1, <2>1, <2>2, RunPlanChain
<1>3. PlanCost(<<>>) = 0
  <2>1. PICK f : Chain(f, Nat, Adding, 0, <<>>)
    BY <1>1, PlanCostChain
  <2>2. f[Len(<<>>)] = 0
    BY <1>1, <2>1 DEF Chain
  <2>3. QED
    BY <1>1, <2>1, <2>2, PlanCostChain
<1>4. QED
  BY <1>1, <1>2, <1>3

\* Where a sequence of operators leads to, and its cost.
LEMMA RunTypes ==
    ASSUME TaskOK, NEW S \in StateSets, NEW ops \in Seq(Operators)
    PROVE  RunPlan(S, ops) \in StateSets /\ PlanCost(ops) \in Nat
<1>1. Len(ops) \in 0 .. Len(ops)
  OBVIOUS
<1>2. RunPlan(S, ops) \in StateSets
  <2>1. PICK f : Chain(f, StateSets, Applying, S, ops)
    BY RunPlanChain
  <2>2. f[Len(ops)] \in StateSets
    BY <1>1, <2>1 DEF Chain
  <2>3. QED
    BY <2>1, <2>2, RunPlanChain
<1>3. PlanCost(ops) \in Nat
  <2>1. PICK f : Chain(f, Nat, Adding, 0, ops)
    BY PlanCostChain
  <2>2. f[Len(ops)] \in Nat
    BY <1>1, <2>1 DEF Chain
  <2>3. QED
    BY <2>1, <2>2, PlanCostChain
<1>4. QED
  BY <1>2, <1>3

\* One operator more.
LEMMA AppendRun ==
    ASSUME TaskOK, NEW S \in StateSets, NEW ops \in Seq(Operators), NEW i \in Operators
    PROVE  /\ Append(ops, i) \in Seq(Operators)
           /\ RunPlan(S, Append(ops, i)) = ApplyOperator(i, RunPlan(S, ops))
           /\ PlanCost(Append(ops, i)) = PlanCost(ops) + task.operators[i].cost
<1>1. Append(ops, i) \in Seq(Operators) /\ Len(ops) \in 0 .. Len(ops)
  OBVIOUS
<1>2. PICK more : more = Append(ops, i)
  OBVIOUS
<1>3. RunPlan(S, more) = ApplyOperator(i, RunPlan(S, ops))
  <2>1. PICK f : Chain(f, StateSets, Applying, S, ops)
    BY RunPlanChain
  <2>2. PICK I, V, Do : I = Operators /\ V = StateSets /\ Do = Applying
    OBVIOUS
  <2>3. Leads(V, Do, S, more, Do[i][f[Len(ops)]])
    <3>1. /\ Do \in [I -> [V -> V]] /\ S \in V /\ ops \in Seq(I) /\ i \in I
          /\ Chain(f, V, Do, S, ops)
      BY <2>1, <2>2, StepTypes
    <3>2. QED
      BY <1>2, <3>1, ChainAppend
  <2>4. PICK g : Chain(g, V, Do, S, more) /\ g[Len(more)] = Do[i][f[Len(ops)]]
    BY <2>3 DEF Leads
  <2>5. f[Len(ops)] \in StateSets
    BY <1>1, <2>1 DEF Chain
  <2>6. f[Len(ops)] = RunPlan(S, ops)
    BY <2>1, RunPlanChain
  <2>7. g[Len(more)] = RunPlan(S, more)
    BY <1>1, <1>2, <2>2, <2>4, RunPlanChain
  <2>8. Applying[i][f[Len(ops)]] = ApplyOperator(i, f[Len(ops)])
    BY <2>5 DEF Applying
  <2>9. QED
    BY <2>2, <2>4, <2>6, <2>7, <2>8
<1>4. PlanCost(more) = PlanCost(ops) + task.operators[i].cost
  <2>1. PICK f : Chain(f, Nat, Adding, 0, ops)
    BY PlanCostChain
  <2>2. PICK I, V, Do, z : I = Operators /\ V = Nat /\ Do = Adding /\ z = 0
    OBVIOUS
  <2>3. Leads(V, Do, z, more, Do[i][f[Len(ops)]])
    <3>1. /\ Do \in [I -> [V -> V]] /\ z \in V /\ ops \in Seq(I) /\ i \in I
          /\ Chain(f, V, Do, z, ops)
      BY <2>1, <2>2, StepTypes
    <3>2. QED
      BY <1>2, <3>1, ChainAppend
  <2>4. PICK g : Chain(g, V, Do, z, more) /\ g[Len(more)] = Do[i][f[Len(ops)]]
    BY <2>3 DEF Leads
  <2>5. f[Len(ops)] \in Nat
    BY <1>1, <2>1 DEF Chain
  <2>6. f[Len(ops)] = PlanCost(ops)
    BY <2>1, PlanCostChain
  <2>7. g[Len(more)] = PlanCost(more)
    BY <1>1, <1>2, <2>2, <2>4, PlanCostChain
  <2>8. Adding[i][f[Len(ops)]] = f[Len(ops)] + task.operators[i].cost
    BY <2>5 DEF Adding
  <2>9. QED
    BY <2>2, <2>4, <2>6, <2>7, <2>8
<1>5. QED
  BY <1>1, <1>2, <1>3, <1>4

\* One operator before the others.
LEMMA ConsRun ==
    ASSUME TaskOK, NEW S \in StateSets, NEW ops \in Seq(Operators), NEW i \in Operators
    PROVE  /\ <<i>> \o ops \in Seq(Operators)
           /\ RunPlan(S, <<i>> \o ops) = RunPlan(ApplyOperator(i, S), ops)
           /\ PlanCost(<<i>> \o ops) = PlanCost(ops) + task.operators[i].cost
<1>1. <<i>> \o ops \in Seq(Operators) /\ Len(ops) \in 0 .. Len(ops)
  OBVIOUS
<1>2. PICK more : more = <<i>> \o ops
  OBVIOUS
<1>3. RunPlan(S, more) = RunPlan(ApplyOperator(i, S), ops)
  <2>1. PICK T : T = ApplyOperator(i, S)
    OBVIOUS
  <2>2. T \in StateSets
    BY <2>1, OperatorFacts
  <2>3. PICK f : Chain(f, StateSets, Applying, T, ops)
    BY <2>2, RunPlanChain
  <2>4. PICK I, V, Do : I = Operators /\ V = StateSets /\ Do = Applying
    OBVIOUS
  <2>5. T = Do[i][S]
    BY <2>1, <2>4 DEF Applying
  <2>6. Leads(V, Do, S, more, f[Len(ops)])
    <3>1. /\ Do \in [I -> [V -> V]] /\ S \in V /\ ops \in Seq(I) /\ i \in I
          /\ Chain(f, V, Do, Do[i][S], ops)
      BY <2>3, <2>4, <2>5, StepTypes
    <3>2. QED
      BY <1>2, <3>1, ChainCons
  <2>7. PICK g : Chain(g, V, Do, S, more) /\ g[Len(more)] = f[Len(ops)]
    BY <2>6 DEF Leads
  <2>8. f[Len(ops)] = RunPlan(T, ops)
    BY <2>2, <2>3, RunPlanChain
  <2>9. g[Len(more)] = RunPlan(S, more)
    BY <1>1, <1>2, <2>4, <2>7, RunPlanChain
  <2>10. QED
    BY <2>1, <2>7, <2>8, <2>9
<1>4. PlanCost(more) = PlanCost(ops) + task.operators[i].cost
  <2>1. PICK c : c = task.operators[i].cost
    OBVIOUS
  <2>2. c \in Nat /\ Adding[i][0] = c
    BY <2>1, OperatorFacts DEF Adding
  <2>3. PICK f : Chain(f, Nat, Adding, 0, ops)
    BY PlanCostChain
  <2> DEFINE h == [n \in 0 .. Len(ops) |-> f[n] + c]
  <2>4. \A n \in 0 .. Len(ops) : f[n] \in Nat
    BY <2>3 DEF Chain
  <2>5. h \in [0 .. Len(ops) -> Nat] /\ h[0] = c
    <3>1. f[0] = 0
      BY <2>3 DEF Chain
    <3>2. QED
      BY <2>2, <2>4, <3>1
  <2>6. ASSUME NEW n \in 1 .. Len(ops) PROVE h[n] = Adding[ops[n]][h[n - 1]]
    <3>1. n - 1 \in 0 .. Len(ops) /\ ops[n] \in Operators
      BY ElementFacts
    <3>2. f[n] = Adding[ops[n]][f[n - 1]]
      BY <2>3 DEF Chain
    <3>3. f[n] = f[n - 1] + task.operators[ops[n]].cost
      BY <2>4, <3>1, <3>2 DEF Adding
    <3>4. h[n - 1] \in Nat /\ h[n - 1] = f[n - 1] + c /\ h[n] = f[n] + c
      BY <2>2, <2>4, <3>1
    <3> HIDE DEF h
    <3>5. Adding[ops[n]][h[n - 1]] = h[n - 1] + task.operators[ops[n]].cost
      BY <3>1, <3>4 DEF Adding
    <3>6. f[n - 1] \in Nat /\ task.operators[ops[n]].cost \in Nat
      BY <2>4, <3>1, OperatorFacts
    <3>7. QED
      BY <2>2, <3>3, <3>4, <3>5, <3>6
  <2>7. Chain(h, Nat, Adding, c, ops) /\ h[Len(ops)] = f[Len(ops)] + c
    BY <1>1, <2>5, <2>6 DEF Chain
  <2> HIDE DEF h
  <2>8. PICK I, V, Do, z, k : /\ I = Operators /\ V = Nat /\ Do = Adding /\ z = 0
                              /\ k = h
    OBVIOUS
  <2>9. Leads(V, Do, z, more, k[Len(ops)])
    <3>1. /\ Do \in [I -> [V -> V]] /\ z \in V /\ ops \in Seq(I) /\ i \in I
          /\ Chain(k, V, Do, Do[i][z], ops)
      BY <2>2, <2>7, <2>8, StepTypes
    <3>2. QED
      BY <1>2, <3>1, ChainCons
  <2>10. PICK g : Chain(g, V, Do, z, more) /\ g[Len(more)] = k[Len(ops)]
    BY <2>9 DEF Leads
  <2>11. g[Len(more)] = PlanCost(more)
    BY <1>1, <1>2, <2>8, <2>10, PlanCostChain
  <2>12. f[Len(ops)] = PlanCost(ops)
    BY <2>3, PlanCostChain
  <2>13. QED
    BY <2>1, <2>7, <2>8, <2>10, <2>11, <2>12
<1>5. QED
  BY <1>1, <1>2, <1>3, <1>4

\* From more states, operators lead to more states.
LEMMA RunMonotone ==
    ASSUME TaskOK, NEW S \in StateSets, NEW T \in StateSets, S \subseteq T,
           NEW ops \in Seq(Operators)
    PROVE  RunPlan(S, ops) \subseteq RunPlan(T, ops)
<1>1. PICK f : Chain(f, StateSets, Applying, S, ops)
  BY RunPlanChain
<1>2. PICK g : Chain(g, StateSets, Applying, T, ops)
  BY RunPlanChain
<1> DEFINE Bad == {n \in 0 .. Len(ops) : ~ (f[n] \subseteq g[n])}
           least == Least(Bad)
<1>3. Len(ops) \in Nat /\ Len(ops) \in 0 .. Len(ops) /\ Bad \in SUBSET Nat
  OBVIOUS
<1>4. ASSUME Bad # {} PROVE FALSE
  <2>1. least \in Bad /\ \A n \in Bad : least <= n
    <3> HIDE DEF Bad
    <3>1. QED
      BY <1>3, <1>4, NatHasLeast
  <2> HIDE DEF least
  <2>2. least \in 1 .. Len(ops) /\ least - 1 \in 0 .. Len(ops) /\ ~ (least - 1 \in Bad)
    <3>1. 0 \notin Bad
      BY <1>1, <1>2 DEF Chain
    <3>2. least \in 0 .. Len(ops) /\ least # 0
      BY <2>1, <3>1
    <3> HIDE DEF Bad
    <3>3. QED
      BY <1>3, <2>1, <3>2
  <2>3. f[least - 1] \subseteq g[least - 1]
    BY <2>2
  <2>4. ~ (f[least] \subseteq g[least])
    BY <2>1
  <2> HIDE DEF Bad
  <2>5. /\ f[least - 1] \in StateSets /\ g[least - 1] \in StateSets /\ ops[least] \in Operators
        /\ f[least] = Applying[ops[least]][f[least - 1]]
        /\ g[least] = Applying[ops[least]][g[least - 1]]
    BY <1>1, <1>2, <2>2, ElementFacts DEF Chain
  <2>6. /\ f[least] = ApplyOperator(ops[least], f[least - 1])
        /\ g[least] = ApplyOperator(ops[least], g[least - 1])
    BY <2>5 DEF Applying
  <2>7. QED
    BY <2>3, <2>4, <2>6 DEF ApplyOperator
<1>5. f[Len(ops)] \subseteq g[Len(ops)]
  BY <1>3, <1>4
<1>6. QED
  BY <1>1, <1>2, <1>5, RunPlanChain

-----------------------------------------------------------------------------
(* What the search leaves behind *)

\* A direction that is not searched keeps the closed list it was seeded with.
SeedInv == \A d \in Dir \ Searches : \A g \in Level : \A s \in closed[d][g] :
               g = 0 /\ s \in Source(task, d)

\* A registered cut is not empty; with one direction, it consists of states
\* that the other one would start from.
CutInv == \A sol \in sym_cuts :
              /\ sol.cut # {}
              /\ "fw" \notin Searches => sol.g = 0 /\ sol.cut \subseteq {task.init}
              /\ "bw" \notin Searches => sol.h = 0 /\ sol.cut \subseteq task.goal

\* The first layer of level 0 are the states a direction started from.
LayerInv ==
    /\ zeroCostClosed \in [Searches -> [Level -> Seq(StateSets)]]
    /\ \A d \in Searches :
          IF HasZeroCost(task) THEN /\ zeroCostClosed[d][0] # <<>>
                                    /\ Head(zeroCostClosed[d][0]) = Source(task, d)
                               ELSE zeroCostClosed[d][0] = <<>>

\* The cuts of a bucket with the seed of the opposite direction.
LEMMA SeededCuts ==
    ASSUME TypeOK, SeedInv, NEW d \in Searches, NEW g \in Level, NEW bucket \in SUBSET State,
           NEW sol \in CheapestCuts(d, g, bucket)
    PROVE  /\ sol.cut # {}
           /\ "fw" \notin Searches => sol.g = 0 /\ sol.cut \subseteq {task.init}
           /\ "bw" \notin Searches => sol.h = 0 /\ sol.cut \subseteq task.goal
<1>1. d \in Dir
  BY SearchesAssumption
<1>2. PICK h \in Level : \E C \in (SUBSET (bucket \cap closed[Opposite(d)][h])) \ {{}} :
         sol = IF d = "fw" THEN [g |-> g, h |-> h, cut |-> C]
                           ELSE [g |-> h, h |-> g, cut |-> C]
  BY CheapestCutsFacts
<1>3. PICK C \in (SUBSET (bucket \cap closed[Opposite(d)][h])) \ {{}} :
         sol = IF d = "fw" THEN [g |-> g, h |-> h, cut |-> C]
                           ELSE [g |-> h, h |-> g, cut |-> C]
  BY <1>2
<1>4. sol.cut = C
  BY <1>3
<1>5. ASSUME Opposite(d) \notin Searches PROVE h = 0 /\ C \subseteq Source(task, Opposite(d))
  BY <1>1, <1>3, <1>5, OppositeFacts DEF SeedInv
<1>6. CASE d = "fw"
  <2>1. sol.h = h /\ Opposite(d) = "bw"
    BY <1>3, <1>6 DEF Opposite
  <2>2. QED
    BY <1>3, <1>4, <1>5, <1>6, <2>1 DEF Source
<1>7. CASE d = "bw"
  <2>1. sol.g = h /\ Opposite(d) = "fw"
    BY <1>3, <1>7 DEF Opposite
  <2>2. QED
    BY <1>3, <1>4, <1>5, <1>7, <2>1 DEF Source
<1>8. QED
  BY <1>1, <1>6, <1>7 DEF Dir

\* The callback keeps such cuts.
LEMMA CutInvNewSolutions ==
    ASSUME TypeOK, CutInv, task' = task, NEW sols, NewSolutions(sols),
           \A sol \in sols :
              /\ sol.cut # {}
              /\ "fw" \notin Searches => sol.g = 0 /\ sol.cut \subseteq {task.init}
              /\ "bw" \notin Searches => sol.h = 0 /\ sol.cut \subseteq task.goal
    PROVE  CutInv'
<1>1. sym_cuts' = sym_cuts \/ \E sol \in sols : sym_cuts' = {sol}
  BY DEF NewSolutions
<1>2. QED
  BY <1>1 DEF CutInv

\* Both hold at the start.
LEMMA SeedCutInit == Init => SeedInv /\ CutInv
<1>1. Init => SeedInv
  BY DEF Init, SeedInv, NoStates
<1>2. Init => CutInv
  BY DEF Init, CutInv
<1>3. QED
  BY <1>1, <1>2

\* No step fills the closed list of a direction that is not searched.
LEMMA SeedInvNext == TypeOK /\ SeedInv /\ [Next]_vars => SeedInv'
<1> SUFFICES ASSUME TypeOK, SeedInv, [Next]_vars PROVE SeedInv'
  OBVIOUS
<1>0. [LossyNext]_vars
  BY NextIsLossy
<1>1. CASE \E d \in Searches : PopSome(d)
  <2>1. PICK d \in Searches : PopSome(d)
    BY <1>1
  <2>2. \A e \in Dir : \A k \in Level : \A s \in closed'[e][k] \ closed[e][k] : e = d
    BY <2>1, PopFacts
  <2>3. task' = task
    BY <2>1 DEF PopSome, Close
  <2>4. QED
    BY <2>2, <2>3 DEF SeedInv
<1>2. CASE \A d \in Searches : ~PopSome(d)
  BY <1>0, <1>2, OnlyPopCloses DEF SeedInv
<1>3. QED
  BY <1>1, <1>2

\* Whatever is registered has been cut with a seed.
LEMMA CutInvNext == TypeOK /\ TypeOK' /\ SeedInv /\ CutInv /\ [Next]_vars => CutInv'
<1> SUFFICES ASSUME TypeOK, SeedInv, CutInv, [Next]_vars PROVE CutInv'
  OBVIOUS
<1> USE DEF engine, search, control
<1>0. IsTask(task)
  BY DEF TypeOK, EngineTypeOK
<1>1. CASE Step
  <2>1. task' = task /\ NewSolutions(EmptyPlan)
    BY <1>1 DEF Step, StepEngine
  <2>2. \A sol \in EmptyPlan : /\ sol.cut = {task.init} /\ task.init \in task.goal
                               /\ sol.g = 0 /\ sol.h = 0
    BY DEF EmptyPlan
  <2>3. QED
    BY <2>1, <2>2, CutInvNewSolutions
<1>2. ASSUME NEW d \in Searches, Pop(d) PROVE CutInv'
  <2>1. task' = task /\ NewSolutions(PoppedCuts(d))
    BY <1>2 DEF Pop, Close
  <2>2. MinG(open[d]) \in Level /\ open[d][MinG(open[d])] \in SUBSET State
    BY MinGFacts DEF TypeOK, Levels
  <2>3. QED
    BY <2>1, <2>2, SeededCuts, CutInvNewSolutions DEF PoppedCuts
<1>3. ASSUME NEW d \in Searches, Expand(d) PROVE CutInv'
  <2>1. task' = task /\ NewSolutions(ImageCuts(d))
    BY <1>3 DEF Expand
  <2>2. ASSUME NEW sol \in ImageCuts(d)
        PROVE  /\ sol.cut # {}
               /\ "fw" \notin Searches => sol.g = 0 /\ sol.cut \subseteq {task.init}
               /\ "bw" \notin Searches => sol.h = 0 /\ sol.cut \subseteq task.goal
    <3>1. PICK c \in CostsOf(frontier[d].phase) :
             sol \in CheapestCuts(d, frontier[d].g + c, Image(task, d, c, frontier[d].states))
      BY DEF ImageCuts
    <3>2. c \in Nat /\ frontier[d].g \in Level /\ frontier[d].g + c < INT_MAX
      BY <1>0, <1>3, MinTransitionCostFacts DEF CostsOf, Expand, TypeOK, Frontier
    <3>3. frontier[d].g + c \in Level
      BY <3>2, IntMaxAssumption DEF Level
    <3>4. Image(task, d, c, frontier[d].states) \in SUBSET State
      BY ImageType
    <3>5. QED
      BY <3>1, <3>3, <3>4, SeededCuts
  <2>3. QED
    BY <2>1, <2>2, CutInvNewSolutions
<1>4. CASE UNCHANGED <<task, sym_cuts>>
  BY <1>4 DEF CutInv
<1>5. QED
  BY <1>1, <1>2, <1>3, <1>4 DEF Next, StepImage, BucketReady, Exhausted, Prepare,
     PrepareTruncated, ExpandTruncated, Finish, Return, Done, vars

\* A level that has layers keeps its first one, and no other level is touched.
LEMMA RecordLayersFacts ==
    ASSUME TypeOK', LayerInv, NEW d \in Searches, RecordLayers(d)
    PROVE  /\ zeroCostClosed' \in [Searches -> [Level -> Seq(StateSets)]]
           /\ \A e \in Searches : zeroCostClosed[e][0] # <<>> =>
                 /\ zeroCostClosed'[e][0] # <<>>
                 /\ Head(zeroCostClosed'[e][0]) = Head(zeroCostClosed[e][0])
<1>1. PICK g \in Level : LET new == closed'[d][g] \ closed[d][g] IN
         \E first \in (SUBSET new) \ {{}} :
            zeroCostClosed' = [zeroCostClosed EXCEPT ![d][g] =
               @ \o IF first = new THEN <<new>> ELSE <<first, new \ first>>]
  BY DEF RecordLayers
<1>2. PICK new, first : /\ new = closed'[d][g] \ closed[d][g]
                        /\ first \in (SUBSET new) \ {{}}
                        /\ zeroCostClosed' = [zeroCostClosed EXCEPT ![d][g] =
                              @ \o IF first = new THEN <<new>> ELSE <<first, new \ first>>]
  BY <1>1
<1>3. PICK more : more = IF first = new THEN <<new>> ELSE <<first, new \ first>>
  OBVIOUS
<1>4. closed'[d][g] \in SUBSET State
  BY SearchesAssumption DEF TypeOK, EngineTypeOK, Levels
<1>5. new \in StateSets /\ first \in StateSets /\ (new \ first) \in StateSets
  BY <1>2, <1>4 DEF StateSets
<1>6. more \in Seq(StateSets)
  BY <1>3, <1>5
<1>7. zeroCostClosed' = [zeroCostClosed EXCEPT ![d][g] = @ \o more]
  BY <1>2, <1>3
<1>8. PICK L : L = Seq(StateSets)
  OBVIOUS
<1>9. zeroCostClosed \in [Searches -> [Level -> L]]
  BY <1>8 DEF LayerInv
<1>10. zeroCostClosed[d][g] \in Seq(StateSets)
  BY <1>8, <1>9
<1>11. PICK old : old = zeroCostClosed[d][g]
  OBVIOUS
<1>12. /\ old \o more \in Seq(StateSets)
       /\ old # <<>> => old \o more # <<>> /\ Head(old \o more) = Head(old)
  BY <1>6, <1>10, <1>11
<1>13. zeroCostClosed' = [zeroCostClosed EXCEPT ![d][g] = old \o more]
  BY <1>7, <1>11
<1>14. zeroCostClosed' \in [Searches -> [Level -> L]]
  BY <1>8, <1>9, <1>12, <1>13
<1>15. ASSUME NEW e \in Searches, zeroCostClosed[e][0] # <<>>
       PROVE  /\ zeroCostClosed'[e][0] # <<>>
              /\ Head(zeroCostClosed'[e][0]) = Head(zeroCostClosed[e][0])
  <2>1. 0 \in Level
    BY LevelFacts
  <2>2. CASE e = d /\ g = 0
    <3>1. zeroCostClosed'[e][0] = old \o more
      BY <1>9, <1>13, <2>2
    <3>2. QED
      BY <1>11, <1>12, <1>15, <2>2, <3>1
  <2>3. CASE ~ (e = d /\ g = 0)
    <3>1. zeroCostClosed'[e][0] = zeroCostClosed[e][0]
      BY <1>9, <1>13, <2>1, <2>3
    <3>2. QED
      BY <1>15, <3>1
  <2>4. QED
    BY <2>2, <2>3
<1>16. QED
  BY <1>8, <1>14, <1>15

\* LayerInv holds at the start.
LEMMA LayerInvInit == RegistryInit => LayerInv
<1> SUFFICES ASSUME RegistryInit PROVE LayerInv
  OBVIOUS
<1>1. TypeOK
  BY InitType DEF RegistryInit
<1>2. \A d \in Searches : Source(task, d) \in StateSets
  BY <1>1, SearchesAssumption DEF TypeOK, EngineTypeOK, IsTask, Source, StateSets
<1>3. 0 \in Level
  BY LevelFacts
<1>4. \A d \in Searches, g \in Level :
         zeroCostClosed[d][g] =
             IF HasZeroCost(task) /\ g = 0 THEN <<Source(task, d)>> ELSE <<>>
  BY DEF RegistryInit
<1>5. \A d \in Searches : <<Source(task, d)>> \in Seq(StateSets)
  BY <1>2
<1>6. zeroCostClosed \in [Searches -> [Level -> Seq(StateSets)]]
  <2>1. <<>> \in Seq(StateSets)
    OBVIOUS
  <2>2. PICK L : L = Seq(StateSets)
    OBVIOUS
  <2>3. \A d \in Searches, g \in Level :
            (IF HasZeroCost(task) /\ g = 0 THEN <<Source(task, d)>> ELSE <<>>) \in L
    BY <1>5, <2>1, <2>2
  <2>4. zeroCostClosed \in [Searches -> [Level -> L]]
    BY <2>3 DEF RegistryInit
  <2>5. QED
    BY <2>2, <2>4
<1>7. \A x : <<x>> # <<>> /\ Head(<<x>>) = x
  OBVIOUS
<1>8. \A d \in Searches :
         zeroCostClosed[d][0] = IF HasZeroCost(task) THEN <<Source(task, d)>> ELSE <<>>
  BY <1>3, <1>4
<1>9. QED
  BY <1>6, <1>7, <1>8 DEF LayerInv

\* Closing a bucket adds layers, and nothing else changes them.
LEMMA LayerInvNext == TypeOK /\ TypeOK' /\ LayerInv /\ [RegistryNext]_allVars => LayerInv'
<1> SUFFICES ASSUME TypeOK, TypeOK', LayerInv, [RegistryNext]_allVars PROVE LayerInv'
  OBVIOUS
<1>1. CASE UNCHANGED <<task, zeroCostClosed>>
  BY <1>1 DEF LayerInv
<1>2. CASE Search
  <2>1. task' = task
    <3>1. [LossyNext]_vars
      BY <1>2, NextIsLossy DEF Search
    <3>2. QED
      BY <3>1, LossyKeepsTask
  <2>2. CASE UNCHANGED zeroCostClosed
    BY <1>1, <2>1, <2>2
  <2>3. CASE HasZeroCost(task) /\ \E d \in Searches : RecordLayers(d)
    <3>1. PICK d \in Searches : RecordLayers(d)
      BY <2>3
    <3>2. zeroCostClosed' \in [Searches -> [Level -> Seq(StateSets)]]
      BY <3>1, RecordLayersFacts
    <3>3. \A e \in Searches : zeroCostClosed[e][0] # <<>> =>
             /\ zeroCostClosed'[e][0] # <<>>
             /\ Head(zeroCostClosed'[e][0]) = Head(zeroCostClosed[e][0])
      BY <3>1, RecordLayersFacts
    <3>4. QED
      BY <2>1, <2>3, <3>2, <3>3 DEF LayerInv
  <2>4. QED
    BY <1>2, <2>2, <2>3 DEF Search
<1>3. QED
  BY <1>1, <1>2 DEF RegistryNext, ReconstructNode, GiveUp, Answered, allVars, vars

\* The states that reconstruction takes a direction to start from.
LEMMA StartsAreSources ==
    ASSUME TypeOK, LevelInv, LayerInv, NEW d \in Searches
    PROVE  StartStates(d) \subseteq Source(task, d) /\ StartStates(d) \in StateSets
<1>1. d \in Dir /\ 0 \in Level /\ IsTask(task)
  BY SearchesAssumption, LevelFacts DEF TypeOK, EngineTypeOK
<1>2. Source(task, d) \in StateSets
  BY <1>1 DEF IsTask, Source, StateSets
<1>3. CASE HasZeroCost(task)
  BY <1>2, <1>3 DEF LayerInv, StartStates
<1>4. CASE ~HasZeroCost(task)
  <2>1. StartStates(d) = closed[d][0]
    BY <1>4 DEF LayerInv, StartStates
  <2>2. ASSUME NEW s \in closed[d][0] PROVE s \in Source(task, d)
    <3>1. s \in State
      BY <1>1, <2>2 DEF TypeOK, EngineTypeOK, Levels
    <3>2. task.dist[d][s] <= 0
      BY <1>1, <2>2 DEF LevelInv
    <3>3. task.dist[d][s] = 0
      BY <1>1, <3>1, <3>2, DistanceFacts
    <3>4. ASSUME s \notin Source(task, d) PROVE FALSE
      <4>1. PICK c \in DOMAIN task.ops : \E p \in State :
               c \in Nat /\ task.dist[d][s] = task.dist[d][p] + c
        BY <1>1, <3>1, <3>3, <3>4, CheapestPredecessor, IntMaxAssumption
      <4>2. PICK p \in State : c \in Nat /\ task.dist[d][s] = task.dist[d][p] + c
        BY <4>1
      <4>3. task.dist[d][p] \in Nat
        BY <1>1, DistanceFacts
      <4>4. c = 0
        BY <3>3, <4>2, <4>3
      <4>5. MinTransitionCost(task) <= c /\ MinTransitionCost(task) \in Nat
        BY <1>1, MinTransitionCostFacts, LevelFacts
      <4>6. QED
        BY <1>4, <4>4, <4>5 DEF HasZeroCost
    <3>5. QED
      BY <3>4
  <2>3. QED
    BY <1>2, <2>1, <2>2 DEF StateSets
<1>5. QED
  BY <1>3, <1>4

-----------------------------------------------------------------------------
(* What a node promises *)

OperatorSeqs == Seq(Operators)

NodeType == [g : Level, h : Level, layer : Nat, states : StateSets, visited : StateSets,
             fwd : BOOLEAN, prefix : OperatorSeqs, suffix : OperatorSeqs]

\* In the first phase: the prefix completes the cost.  If there is no second
\* phase, it leads from each of the states to the goal.
FwdNode(node, f) ==
    /\ "fw" \in Searches
    /\ node.suffix = <<>>
    /\ node.g + node.h + PlanCost(node.prefix) = f
    /\ "bw" \notin Searches =>
          /\ node.h = 0
          /\ \A s \in node.states : RunPlan({s}, node.prefix) \cap task.goal # {}

\* In the second phase: the operators found so far lead from the initial state
\* to each of the states.
BwdNode(node, f) ==
    /\ "bw" \in Searches
    /\ node.g = 0
    /\ node.h + PlanCost(node.prefix \o node.suffix) = f
    /\ node.states \subseteq RunPlan({task.init}, node.prefix \o node.suffix)

NodeInv(node, f) ==
    /\ node \in NodeType
    /\ node.fwd => FwdNode(node, f)
    /\ ~node.fwd => BwdNode(node, f)

\* What the proofs below assume of the search,
Found == /\ TypeOK /\ LevelInv /\ HasOperators(task)
         /\ SeedInv /\ CutInv /\ LayerInv

\* ... and what follows for the task and the states that each phase ends with.
LEMMA FoundFacts ==
    ASSUME Found
    PROVE  /\ TaskOK /\ IsTask(task)
           /\ {task.init} \in StateSets /\ task.goal \in StateSets
           /\ \A s \in State : {s} \in StateSets
           /\ \A S, T : S \in StateSets /\ T \subseteq S => T \in StateSets
           /\ "fw" \in Searches => /\ StartStates("fw") \subseteq {task.init}
                                   /\ StartStates("fw") \in StateSets
           /\ "bw" \in Searches => StartStates("bw") \subseteq task.goal
           /\ "fw" \in Searches /\ "bw" \in Searches <=> Bidirectional
           /\ Optimum \in Nat
<1>1. IsTask(task) /\ TaskOK
  BY DEF Found, TypeOK, EngineTypeOK, TaskOK
<1>2. {task.init} \in StateSets /\ task.goal \in StateSets
  BY <1>1 DEF IsTask, StateSets
<1>3. /\ \A s \in State : {s} \in StateSets
      /\ \A S, T : S \in StateSets /\ T \subseteq S => T \in StateSets
  BY DEF StateSets
<1>4. "fw" \in Searches => /\ StartStates("fw") \subseteq {task.init}
                           /\ StartStates("fw") \in StateSets
  BY StartsAreSources DEF Found, Source
<1>5. "bw" \in Searches => StartStates("bw") \subseteq task.goal
  <2>1. "bw" # "fw"
    OBVIOUS
  <2>2. QED
    BY <2>1, StartsAreSources DEF Found, Source
<1>6. "fw" \in Searches /\ "bw" \in Searches <=> Bidirectional
  BY SearchesAssumption DEF Bidirectional, Dir
<1>7. Optimum \in Nat
  BY EngineFacts DEF Found, TypeOK
<1>8. QED
  BY <1>1, <1>2, <1>3, <1>4, <1>5, <1>6, <1>7

\* A node that is a solution holds a valid plan of optimal cost.
LEMMA SolutionsAreValid ==
    ASSUME Found, NEW f \in Nat, NEW node, NodeInv(node, f), IsSolution(node)
    PROVE  /\ RunPlan({task.init}, node.prefix \o node.suffix) \cap task.goal # {}
           /\ PlanCost(node.prefix \o node.suffix) = f
<1>1. node \in NodeType
  BY DEF NodeInv
<1>2. /\ node.g \in Nat /\ node.h \in Nat /\ node.fwd \in BOOLEAN
      /\ node.prefix \in Seq(Operators) /\ node.suffix \in Seq(Operators)
      /\ node.states \in StateSets
  BY <1>1, LevelFacts DEF NodeType, OperatorSeqs
<1>3. node.g = 0 /\ node.h = 0
  BY <1>2 DEF IsSolution, F
<1>4. CASE node.fwd
  <2>1. FwdNode(node, f)
    BY <1>4 DEF NodeInv
  <2>2. node.suffix = <<>> /\ node.prefix \o node.suffix = node.prefix
    BY <1>2, <2>1 DEF FwdNode
  <2>3. "fw" \in Searches /\ "bw" \notin Searches
    BY <1>4, <2>1, FoundFacts DEF FwdNode, IsSolution
  <2>4. task.init \in node.states
    BY <1>4, <2>3, FoundFacts DEF IsSolution
  <2>5. RunPlan({task.init}, node.prefix) \cap task.goal # {}
    BY <2>1, <2>3, <2>4 DEF FwdNode
  <2>6. PlanCost(node.prefix) \in Nat
    BY <1>2, FoundFacts, RunTypes
  <2>7. PlanCost(node.prefix) = f
    BY <1>3, <2>1, <2>6 DEF FwdNode
  <2>8. QED
    BY <2>2, <2>5, <2>7
<1>5. CASE ~node.fwd
  <2>1. BwdNode(node, f)
    BY <1>5 DEF NodeInv
  <2>2. node.states \cap task.goal # {}
    BY <1>5, <2>1, FoundFacts DEF BwdNode, IsSolution
  <2>3. node.prefix \o node.suffix \in Seq(Operators)
    BY <1>2
  <2>4. PlanCost(node.prefix \o node.suffix) \in Nat
    BY <1>2, <2>3, FoundFacts, RunTypes
  <2>5. PlanCost(node.prefix \o node.suffix) = f
    BY <1>3, <2>1, <2>4 DEF BwdNode
  <2>6. QED
    BY <2>1, <2>2, <2>5 DEF BwdNode
<1>6. QED
  BY <1>4, <1>5

\* Fewer states, and other states visited, leave a node what it is.
LEMMA NarrowerNode ==
    ASSUME Found, NEW f \in Nat, NEW node, NodeInv(node, f), NEW S, S \subseteq node.states,
           NEW V \in StateSets
    PROVE  NodeInv([node EXCEPT !.states = S, !.visited = V], f)
<1> DEFINE new == [node EXCEPT !.states = S, !.visited = V]
<1>1. node \in NodeType
  BY DEF NodeInv
<1>2. S \in StateSets
  BY <1>1, FoundFacts DEF NodeType
<1>3. /\ new \in NodeType
      /\ new.g = node.g /\ new.h = node.h /\ new.fwd = node.fwd
      /\ new.prefix = node.prefix /\ new.suffix = node.suffix /\ new.states = S
  BY <1>1, <1>2 DEF NodeType
<1> HIDE DEF new
<1>4. FwdNode(node, f) => FwdNode(new, f)
  BY <1>3 DEF FwdNode
<1>5. BwdNode(node, f) => BwdNode(new, f)
  BY <1>3 DEF BwdNode
<1>6. NodeInv(new, f)
  BY <1>3, <1>4, <1>5 DEF NodeInv
<1>7. QED
  BY <1>6 DEF new

\* ... as ReconstructNode does before it expands a node,
LEMMA NarrowedNode ==
    ASSUME Found, NEW f \in Nat, NEW top, NodeInv(top, f), NEW states \in Picked(top)
    PROVE  NodeInv(Narrowed(top, states), f)
<1>1. top.states \in StateSets /\ top.visited \in StateSets
  BY DEF NodeInv, NodeType
<1>2. states \subseteq top.states
  BY DEF Picked
<1>3. PICK V : V = IF task.simple THEN top.visited \cup states ELSE top.visited
  OBVIOUS
<1>4. V \in StateSets
  BY <1>1, <1>2, <1>3 DEF StateSets
<1>5. Narrowed(top, states) = [top EXCEPT !.states = states, !.visited = V]
  BY <1>3 DEF Narrowed
<1>6. PICK S : S = states
  OBVIOUS
<1>7. NodeInv([top EXCEPT !.states = S, !.visited = V], f)
  BY <1>2, <1>4, <1>6, NarrowerNode
<1>8. QED
  BY <1>5, <1>6, <1>7

\* ... and with the states that it leaves behind.
LEMMA WaitingNodes ==
    ASSUME Found, NEW f \in Nat, \A n \in queue : NodeInv(n, f), NEW top \in queue, NEW states,
           NEW n \in Waiting(top, states)
    PROVE  NodeInv(n, f)
<1>1. CASE n \in queue
  BY <1>1
<1>2. CASE n = [top EXCEPT !.states = @ \ states]
  <2>1. NodeInv(top, f) /\ top.visited \in StateSets /\ top \in NodeType
    BY DEF NodeInv, NodeType
  <2>2. n = [top EXCEPT !.states = top.states \ states, !.visited = top.visited]
    BY <1>2, <2>1 DEF NodeType
  <2>3. QED
    BY <2>1, <2>2, NarrowerNode
<1>3. QED
  BY <1>1, <1>2 DEF Waiting

\* The layer that get_zero_cut returns is counted from 0.
LEMMA ZeroCutType ==
    ASSUME LayerInv, NEW d \in Searches, NEW g \in Level, NEW S
    PROVE  ZeroCut(d, g, S) \in Nat
<1>1. PICK L : L = Seq(StateSets)
  OBVIOUS
<1>2. zeroCostClosed[d][g] \in Seq(StateSets)
  BY <1>1 DEF LayerInv
<1> DEFINE layers == zeroCostClosed[d][g]
           met == {i \in DOMAIN layers : layers[i] \cap S # {}}
<1>3. Len(layers) \in Nat /\ DOMAIN layers = 1 .. Len(layers)
  BY <1>2, ElementFacts
<1>4. met \in SUBSET (Nat \ {0})
  BY <1>3
<1> HIDE DEF met, layers
<1>5. met # {} => Least(met) \in Nat \ {0}
  BY <1>4, NatHasLeast
<1>6. ZeroCut(d, g, S) = (IF met = {} THEN Len(layers) + 1 ELSE Least(met)) - 1
  BY DEF ZeroCut, met, layers
<1>7. QED
  BY <1>3, <1>5, <1>6

\* The fields of the node that an operator leads to.
LEMMA NewNodeFields ==
    ASSUME Found, NEW f \in Nat, NEW node, NodeInv(node, f), NEW i \in Operators,
           ClosedStep(node, i) # {}
    PROVE  /\ NewNode(node, i) \in NodeType
           /\ NewNode(node, i).fwd = node.fwd
           /\ NewNode(node, i).visited = node.visited
           /\ NewNode(node, i).states = Unvisited(node, ClosedStep(node, i))
           /\ node.fwd => /\ NewNode(node, i).g = node.g - task.operators[i].cost
                          /\ NewNode(node, i).h = node.h
                          /\ NewNode(node, i).prefix = <<i>> \o node.prefix
                          /\ NewNode(node, i).suffix = node.suffix
           /\ ~node.fwd => /\ NewNode(node, i).h = node.h - task.operators[i].cost
                           /\ NewNode(node, i).g = node.g
                           /\ NewNode(node, i).suffix = Append(node.suffix, i)
                           /\ NewNode(node, i).prefix = node.prefix
<1> DEFINE cost == task.operators[i].cost
           step == ClosedStep(node, i)
           states == Unvisited(node, step)
           d == IF node.fwd THEN "fw" ELSE "bw"
           left == IF node.fwd THEN node.g - cost ELSE node.h - cost
           layer == IF cost = 0 THEN ZeroCut(d, left, step) ELSE 0
           new == IF node.fwd
                  THEN [node EXCEPT !.states = states, !.g = left,
                                    !.prefix = <<i>> \o node.prefix, !.layer = layer]
                  ELSE [node EXCEPT !.states = states, !.h = left,
                                    !.suffix = Append(node.suffix, i), !.layer = layer]
<1>1. node \in NodeType
  BY DEF NodeInv
<1>2. /\ node.g \in Nat /\ node.g <= INT_MAX /\ node.h \in Nat /\ node.h <= INT_MAX
      /\ node.fwd \in BOOLEAN
      /\ node.prefix \in Seq(Operators) /\ node.suffix \in Seq(Operators)
  BY <1>1, LevelFacts DEF NodeType, OperatorSeqs
<1>3. cost \in Nat
  BY FoundFacts, OperatorFacts
<1>4. d \in Searches /\ d \in Dir
  BY SearchesAssumption DEF NodeInv, FwdNode, BwdNode
<1>5. left >= 0 /\ step \subseteq closed[d][left]
  BY <1>2, <1>3 DEF ClosedStep
<1>6. left \in Level
  <2>1. node.g - cost <= INT_MAX /\ node.h - cost <= INT_MAX
    BY <1>2, <1>3, LevelFacts
  <2>2. left \in Int /\ left <= INT_MAX
    BY <1>2, <1>3, <2>1
  <2> HIDE DEF left
  <2>3. QED
    BY <1>5, <2>2 DEF Level
<1>7. states \in StateSets
  <2>1. closed[d][left] \in SUBSET State
    BY <1>4, <1>6 DEF Found, TypeOK, EngineTypeOK, Levels
  <2> HIDE DEF left, step, d
  <2>2. QED
    BY <1>5, <2>1 DEF Unvisited, StateSets
<1>8. layer \in Nat
  <2> HIDE DEF left, step, d, cost
  <2>1. QED
    BY <1>4, <1>6, ZeroCutType DEF Found
<1>9. <<i>> \o node.prefix \in OperatorSeqs /\ Append(node.suffix, i) \in OperatorSeqs
  BY <1>2 DEF OperatorSeqs
<1>10. NewNode(node, i) = new
  <2>1. node = [node EXCEPT !.states = node.states]
    BY <1>1 DEF NodeType
  <2>2. CASE node.fwd
    BY <1>1, <2>2 DEF NewNode, NodeType
  <2>3. CASE ~node.fwd
    BY <1>1, <2>3 DEF NewNode, NodeType
  <2>4. QED
    BY <1>2, <2>2, <2>3
<1> HIDE DEF left, step, states, layer
<1>11. CASE node.fwd
  <2>1. new = [node EXCEPT !.states = states, !.g = left, !.prefix = <<i>> \o node.prefix,
                           !.layer = layer]
    BY <1>11
  <2>2. /\ new \in NodeType
        /\ new.fwd = node.fwd /\ new.visited = node.visited /\ new.states = states
        /\ new.g = left /\ new.h = node.h
        /\ new.prefix = <<i>> \o node.prefix /\ new.suffix = node.suffix
    <3> HIDE DEF new
    <3>1. QED
      BY <1>1, <1>6, <1>7, <1>8, <1>9, <2>1 DEF NodeType
  <2> HIDE DEF new
  <2>3. QED
    BY <1>10, <1>11, <2>2 DEF left, states, step
<1>12. CASE ~node.fwd
  <2>1. new = [node EXCEPT !.states = states, !.h = left,
                           !.suffix = Append(node.suffix, i), !.layer = layer]
    BY <1>12
  <2>2. /\ new \in NodeType
        /\ new.fwd = node.fwd /\ new.visited = node.visited /\ new.states = states
        /\ new.h = left /\ new.g = node.g
        /\ new.suffix = Append(node.suffix, i) /\ new.prefix = node.prefix
    <3> HIDE DEF new
    <3>1. QED
      BY <1>1, <1>6, <1>7, <1>8, <1>9, <2>1 DEF NodeType
  <2> HIDE DEF new
  <2>3. QED
    BY <1>10, <1>12, <2>2 DEF left, states, step
<1>13. QED
  BY <1>2, <1>11, <1>12

\* An operator leads from node to node.
LEMMA NewNodeInv ==
    ASSUME Found, NEW f \in Nat, NEW node, NodeInv(node, f), NEW i \in Operators,
           ClosedStep(node, i) # {}
    PROVE  NodeInv(NewNode(node, i), f)
<1>1. PICK new : new = NewNode(node, i)
  OBVIOUS
<1>2. PICK c : c = task.operators[i].cost
  OBVIOUS
<1>3. /\ node \in NodeType /\ new \in NodeType
      /\ node.states \in StateSets
      /\ node.prefix \in Seq(Operators) /\ node.suffix \in Seq(Operators)
      /\ node.g \in Nat /\ node.h \in Nat /\ c \in Nat /\ TaskOK
  BY <1>1, <1>2, NewNodeFields, OperatorFacts, FoundFacts, LevelFacts
     DEF NodeInv, NodeType, OperatorSeqs
<1>4. new.fwd = node.fwd
  BY <1>1, NewNodeFields
<1>5. new.states \subseteq IF node.fwd THEN RegressOperator(i, node.states)
                                       ELSE ApplyOperator(i, node.states)
  <2>1. ClosedStep(node, i) \subseteq IF node.fwd THEN RegressOperator(i, node.states)
                                                  ELSE ApplyOperator(i, node.states)
    BY DEF ClosedStep
  <2>2. new.states = Unvisited(node, ClosedStep(node, i))
    BY <1>1, NewNodeFields
  <2>3. new.states \subseteq ClosedStep(node, i)
    BY <2>2 DEF Unvisited
  <2>4. QED
    BY <2>1, <2>3
<1>6. CASE node.fwd
  <2>1. FwdNode(node, f)
    BY <1>6 DEF NodeInv
  <2>2. /\ new.g = node.g - c /\ new.h = node.h
        /\ new.prefix = <<i>> \o node.prefix /\ new.suffix = node.suffix
    BY <1>1, <1>2, <1>6, NewNodeFields
  <2>3. {} \in StateSets
    BY DEF StateSets
  <2>4. PlanCost(new.prefix) = PlanCost(node.prefix) + c /\ PlanCost(node.prefix) \in Nat
    BY <1>2, <1>3, <2>2, <2>3, ConsRun, RunTypes
  <2>5. new.g + new.h + PlanCost(new.prefix) = f
    BY <1>3, <2>1, <2>2, <2>4 DEF FwdNode
  <2>6. ASSUME "bw" \notin Searches, NEW s \in new.states
        PROVE  RunPlan({s}, new.prefix) \cap task.goal # {}
    <3>1. PICK y \in node.states : <<s, y>> \in task.operators[i].rel /\ s \in State
      BY <1>5, <1>6 DEF RegressOperator
    <3>2. y \in State
      BY <1>3 DEF StateSets
    <3>3. RunPlan({y}, node.prefix) \cap task.goal # {}
      BY <2>1, <2>6 DEF FwdNode
    <3>4. {y} \subseteq ApplyOperator(i, {s})
      BY <3>1, <3>2 DEF ApplyOperator
    <3>5. PICK S, Y, T : S = {s} /\ Y = {y} /\ T = ApplyOperator(i, S)
      OBVIOUS
    <3>6. S \in StateSets /\ Y \in StateSets /\ T \in StateSets /\ Y \subseteq T
      BY <1>3, <3>1, <3>2, <3>4, <3>5, FoundFacts, OperatorFacts
    <3>7. RunPlan(S, <<i>> \o node.prefix) = RunPlan(T, node.prefix)
      BY <1>3, <3>5, <3>6, ConsRun
    <3>8. RunPlan(Y, node.prefix) \subseteq RunPlan(T, node.prefix)
      BY <1>3, <3>6, RunMonotone
    <3>9. QED
      BY <2>2, <3>3, <3>5, <3>7, <3>8
  <2>7. FwdNode(new, f)
    BY <2>1, <2>2, <2>5, <2>6 DEF FwdNode
  <2>8. QED
    BY <1>1, <1>3, <1>4, <1>6, <2>7 DEF NodeInv
<1>7. CASE ~node.fwd
  <2>1. BwdNode(node, f)
    BY <1>7 DEF NodeInv
  <2>2. /\ new.h = node.h - c /\ new.g = node.g
        /\ new.suffix = Append(node.suffix, i) /\ new.prefix = node.prefix
    BY <1>1, <1>2, <1>7, NewNodeFields
  <2>3. PICK ops : ops = node.prefix \o node.suffix
    OBVIOUS
  <2>4. ops \in Seq(Operators) /\ new.prefix \o new.suffix = Append(ops, i)
    <3>1. node.prefix \o Append(node.suffix, i) = Append(node.prefix \o node.suffix, i)
      <4>1. PICK I, p, q : I = Operators /\ p = node.prefix /\ q = node.suffix
        OBVIOUS
      <4>2. p \in Seq(I) /\ q \in Seq(I) /\ i \in I
        BY <1>3, <4>1
      <4>3. p \o Append(q, i) = Append(p \o q, i)
        BY <4>2, AppendToConcat
      <4>4. QED
        BY <4>1, <4>3
    <3>2. QED
      BY <1>3, <2>2, <2>3, <3>1
  <2>5. PICK S : S = {task.init}
    OBVIOUS
  <2>6. S \in StateSets
    BY <2>5, FoundFacts
  <2>7. /\ RunPlan(S, Append(ops, i)) = ApplyOperator(i, RunPlan(S, ops))
        /\ PlanCost(Append(ops, i)) = PlanCost(ops) + c
        /\ PlanCost(ops) \in Nat
    BY <1>2, <1>3, <2>4, <2>6, AppendRun, RunTypes
  <2>8. node.states \subseteq RunPlan(S, ops)
    BY <2>1, <2>3, <2>5 DEF BwdNode
  <2>9. new.states \subseteq ApplyOperator(i, RunPlan(S, ops))
    BY <1>5, <1>7, <2>8 DEF ApplyOperator
  <2>10. new.h + PlanCost(Append(ops, i)) = f
    <3>1. node.h + PlanCost(ops) = f
      BY <2>1, <2>3 DEF BwdNode
    <3>2. QED
      BY <1>3, <2>2, <2>7, <3>1
  <2>11. BwdNode(new, f)
    BY <2>1, <2>2, <2>4, <2>5, <2>7, <2>9, <2>10 DEF BwdNode
  <2>12. QED
    BY <1>1, <1>3, <1>4, <1>7, <2>11 DEF NodeInv
<1>8. QED
  BY <1>6, <1>7

\* Nor does the swap to the second phase break the promise.
LEMMA PushedInv ==
    ASSUME Found, NEW f \in Nat, NEW new, NodeInv(new, f)
    PROVE  NodeInv(Pushed(new), f)
<1>1. CASE ~SwapToBwdPhase(new)
  BY <1>1 DEF Pushed
<1>2. CASE SwapToBwdPhase(new)
  <2>1. /\ new \in NodeType /\ new.prefix \in Seq(Operators)
        /\ new.h \in Nat /\ new.visited \in StateSets
    BY LevelFacts DEF NodeInv, NodeType, OperatorSeqs
  <2>2. FwdNode(new, f) /\ new.g = 0 /\ "fw" \in Searches /\ "bw" \in Searches
    BY <1>2, FoundFacts DEF SwapToBwdPhase, NodeInv
  <2>3. PICK S, T : S = StartStates("fw") /\ T = {task.init}
    OBVIOUS
  <2>4. S \in StateSets /\ T \in StateSets /\ S \subseteq T /\ TaskOK
    BY <2>2, <2>3, FoundFacts
  <2>5. /\ RunPlan(S, new.prefix) \in StateSets
        /\ RunPlan(S, new.prefix) \subseteq RunPlan(T, new.prefix)
    BY <2>1, <2>4, RunMonotone, RunTypes
  <2>6. PICK R, V : /\ R = RunPlan(S, new.prefix)
                    /\ V = IF task.simple THEN new.visited \cup S ELSE new.visited
    OBVIOUS
  <2>7. R \in StateSets /\ V \in StateSets
    BY <2>1, <2>4, <2>5, <2>6 DEF StateSets
  <2>8. PICK pushed : pushed = [new EXCEPT !.fwd = FALSE, !.layer = INT_MAX,
                                           !.states = R, !.visited = V]
    OBVIOUS
  <2>9. Pushed(new) = pushed
    BY <1>2, <2>3, <2>6, <2>8 DEF Pushed
  <2>10. INT_MAX \in Nat
    BY LevelFacts
  <2>11. /\ pushed \in NodeType
         /\ pushed.fwd = FALSE /\ pushed.g = new.g /\ pushed.h = new.h /\ pushed.states = R
         /\ pushed.prefix = new.prefix /\ pushed.suffix = new.suffix
    BY <2>1, <2>7, <2>8, <2>10 DEF NodeType
  <2>12. pushed.prefix \o pushed.suffix = new.prefix
    BY <2>1, <2>2, <2>11 DEF FwdNode
  <2>13. PlanCost(new.prefix) \in Nat
    BY <2>1, <2>4, RunTypes
  <2>14. pushed.h + PlanCost(new.prefix) = f
    BY <2>1, <2>2, <2>11, <2>13 DEF FwdNode
  <2>15. BwdNode(pushed, f)
    BY <2>2, <2>3, <2>5, <2>6, <2>11, <2>12, <2>14 DEF BwdNode
  <2>16. QED
    BY <2>9, <2>11, <2>15 DEF NodeInv
<1>3. QED
  BY <1>1, <1>2

\* expand_actions pushes nodes that keep it.
LEMMA ExpandActionsInv ==
    ASSUME Found, NEW f \in Nat, NEW node, NodeInv(node, f), NEW n \in ExpandActions(node)
    PROVE  NodeInv(n, f)
<1>1. PICK i \in Operators : /\ Unvisited(node, ClosedStep(node, i)) # {}
                             /\ n = Pushed(NewNode(node, i))
  BY DEF ExpandActions, Operators
<1>2. ClosedStep(node, i) # {}
  BY <1>1 DEF Unvisited
<1>3. PICK new : new = NewNode(node, i)
  OBVIOUS
<1>4. NodeInv(new, f)
  BY <1>2, <1>3, NewNodeInv
<1>5. QED
  BY <1>1, <1>3, <1>4, PushedInv

\* Reconstruction starts from the registered cut, whose cost is optimal.
LEMMA InitialNodesInv ==
    ASSUME Found, NEW f \in Nat, NEW cuts, cuts \subseteq Cuts,
           \A sol \in cuts :
              /\ Cost(sol) = f
              /\ "fw" \notin Searches => sol.g = 0 /\ sol.cut \subseteq {task.init}
              /\ "bw" \notin Searches => sol.h = 0 /\ sol.cut \subseteq task.goal,
           NEW n \in InitialNodes(cuts)
    PROVE  NodeInv(n, f)
<1> DEFINE Start(sol) == [g |-> sol.g, h |-> sol.h, layer |-> INT_MAX, states |-> sol.cut,
                          visited |-> {}, fwd |-> "fw" \in Searches,
                          prefix |-> <<>>, suffix |-> <<>>]
           Swapped(sol) == [Start(sol) EXCEPT !.states = StartStates("fw"),
                                              !.visited = StartStates("fw"), !.fwd = FALSE]
<1>1. PICK sol \in cuts : \/ n = Start(sol)
                          \/ n = Swapped(sol) /\ SwapToBwdPhase(Start(sol))
  BY DEF InitialNodes
<1>2. /\ sol.g \in Level /\ sol.h \in Level /\ sol.cut \in StateSets
      /\ sol.g \in Nat /\ sol.h \in Nat /\ sol.g + sol.h = f
  BY LevelFacts DEF Cuts, Cost, StateSets
<1>3. INT_MAX \in Nat /\ {} \in StateSets /\ ("fw" \in Searches) \in BOOLEAN
  BY LevelFacts DEF StateSets
<1>4. <<>> \in OperatorSeqs /\ PlanCost(<<>>) = 0 /\ <<>> \o <<>> = <<>>
  BY <1>3, EmptyRun, FoundFacts DEF OperatorSeqs
<1>5. \A S \in StateSets : RunPlan(S, <<>>) = S
  BY EmptyRun, FoundFacts
<1>6. CASE n = Start(sol)
  <2>1. /\ n.g = sol.g /\ n.h = sol.h /\ n.states = sol.cut /\ n.fwd = ("fw" \in Searches)
        /\ n.prefix = <<>> /\ n.suffix = <<>>
    BY <1>6
  <2>2. n \in NodeType
    BY <1>2, <1>3, <1>4, <1>6 DEF NodeType
  <2>3. ASSUME "fw" \in Searches PROVE FwdNode(n, f)
    <3>1. ASSUME "bw" \notin Searches, NEW s \in n.states
          PROVE  RunPlan({s}, n.prefix) \cap task.goal # {}
      <4>1. s \in task.goal /\ s \in State
        BY <1>2, <2>1, <3>1 DEF StateSets
      <4>2. RunPlan({s}, <<>>) = {s}
        BY <1>5, <4>1, FoundFacts
      <4>3. QED
        BY <2>1, <4>1, <4>2
    <3>2. n.g + n.h + PlanCost(n.prefix) = f
      BY <1>2, <1>4, <2>1
    <3>3. QED
      BY <2>1, <2>3, <3>1, <3>2 DEF FwdNode
  <2>4. ASSUME "fw" \notin Searches PROVE BwdNode(n, f)
    <3>1. "bw" \in Searches
      BY <2>4, SearchesAssumption DEF Dir
    <3>2. n.g = 0 /\ n.states \subseteq {task.init}
      BY <2>1, <2>4
    <3>3. RunPlan({task.init}, <<>>) = {task.init}
      BY <1>5, FoundFacts
    <3>4. n.h + PlanCost(<<>>) = f
      BY <1>2, <1>4, <2>1, <3>2
    <3>5. QED
      BY <1>4, <2>1, <3>1, <3>2, <3>3, <3>4 DEF BwdNode
  <2>5. QED
    BY <2>1, <2>2, <2>3, <2>4 DEF NodeInv
<1>7. CASE n = Swapped(sol) /\ SwapToBwdPhase(Start(sol))
  <2>1. "fw" \in Searches /\ "bw" \in Searches /\ sol.g = 0
    BY <1>7, FoundFacts DEF SwapToBwdPhase
  <2>2. StartStates("fw") \in StateSets /\ StartStates("fw") \subseteq {task.init}
    BY <2>1, FoundFacts
  <2>3. n = [g |-> sol.g, h |-> sol.h, layer |-> INT_MAX, states |-> StartStates("fw"),
             visited |-> StartStates("fw"), fwd |-> FALSE, prefix |-> <<>>, suffix |-> <<>>]
    BY <1>7
  <2>4. n \in NodeType
    BY <1>2, <1>3, <1>4, <2>2, <2>3 DEF NodeType
  <2>5. RunPlan({task.init}, <<>>) = {task.init}
    BY <1>5, FoundFacts
  <2>6. n.h + PlanCost(<<>>) = f
    BY <1>2, <1>4, <2>1, <2>3
  <2>7. BwdNode(n, f)
    BY <1>4, <2>1, <2>2, <2>3, <2>5, <2>6 DEF BwdNode
  <2>8. QED
    BY <2>3, <2>4, <2>7 DEF NodeInv
<1>8. QED
  BY <1>1, <1>6, <1>7

-----------------------------------------------------------------------------
(* Reconstruction *)

\* Runs and promises only depend on the task.
LEMMA Stable ==
    ASSUME task' = task
    PROVE  /\ \A ops : RunPlan({task.init}, ops)' = RunPlan({task.init}, ops)
           /\ \A ops : PlanCost(ops)' = PlanCost(ops)
           /\ \A node, f : NodeInv(node, f)' = NodeInv(node, f)
<1>1. ASSUME NEW S, NEW ops PROVE RunPlan(S, ops)' = RunPlan(S, ops)
  BY DEF RunPlan, ApplyOperator
<1>2. ASSUME NEW ops PROVE RunPlan({task.init}, ops)' = RunPlan({task.init}, ops)
  BY DEF RunPlan, ApplyOperator
<1>3. ASSUME NEW ops PROVE PlanCost(ops)' = PlanCost(ops)
  BY DEF PlanCost
<1>4. ASSUME NEW node, NEW f PROVE FwdNode(node, f)' = FwdNode(node, f)
  BY <1>1, <1>3 DEF FwdNode
<1>5. ASSUME NEW node, NEW f PROVE BwdNode(node, f)' = BwdNode(node, f)
  BY <1>2, <1>3 DEF BwdNode
<1>6. ASSUME NEW node, NEW f PROVE NodeInv(node, f)' = NodeInv(node, f)
  BY <1>4, <1>5 DEF NodeInv, NodeType, OperatorSeqs, Operators, StateSets
<1>7. QED
  BY <1>2, <1>3, <1>6

\* What makes PlanValid inductive.
RegistryInv ==
    /\ HasOperators(task)
    /\ SeedInv /\ CutInv /\ LayerInv
    /\ registry = "idle" => queue = {} /\ plan = {}
    /\ \A node \in queue : NodeInv(node, Optimum)
    /\ PlanValid

\* A reconstruction is a search, and then leaves it alone.
LEMMA RegistrySearches == RegistrySpec => Spec
<1>1. RegistryInit => Init
  BY DEF RegistryInit
<1>2. [RegistryNext]_allVars => [Next]_vars
  BY DEF RegistryNext, Search, ReconstructNode, GiveUp, Answered, allVars
<1>3. QED
  BY <1>1, <1>2, PTL DEF RegistrySpec, Spec

\* RegistryInv holds at the start.
LEMMA RegistryInvInit == RegistryInit => RegistryInv
<1> SUFFICES ASSUME RegistryInit PROVE RegistryInv
  OBVIOUS
<1>1. Init /\ registry = "idle" /\ queue = {} /\ plan = {}
  BY DEF RegistryInit
<1>2. HasOperators(task)
  BY <1>1, OperatorsAssumption DEF Init
<1>3. QED
  BY <1>1, <1>2, SeedCutInit, LayerInvInit DEF RegistryInv, PlanValid

\* The cuts from which a reconstruction may start: of optimal cost, and complete
\* in a direction that is not searched.
CutsReady ==
    /\ sym_cuts \subseteq Cuts
    /\ \A sol \in sym_cuts :
          /\ Cost(sol) = Optimum
          /\ "fw" \notin Searches => sol.g = 0 /\ sol.cut \subseteq {task.init}
          /\ "bw" \notin Searches => sol.h = 0 /\ sol.cut \subseteq task.goal

\* When the search has solved the task, the cut it holds is of optimal cost.
LEMMA SolvedCuts ==
    SearchInv /\ AnswerOptimal /\ CutInv /\ status = "SOLVED" => CutsReady
<1> SUFFICES ASSUME SearchInv, AnswerOptimal, CutInv, status = "SOLVED"
             PROVE  CutsReady
  OBVIOUS
<1>1. sym_cuts \subseteq Cuts /\ PlanInv
  BY DEF SearchInv, TypeOK, EngineTypeOK
<1>2. \E sol \in sym_cuts : Cost(sol) = Optimum
  BY DEF AnswerOptimal
<1>3. \E sol \in Cuts : sym_cuts = {sol}
  BY <1>1, <1>2 DEF PlanInv
<1>4. \A sol \in sym_cuts : Cost(sol) = Optimum
  BY <1>2, <1>3
<1>5. QED
  BY <1>1, <1>4 DEF CutInv, CutsReady

\* No step changes the task.
LEMMA RegistryKeepsTask == [RegistryNext]_allVars => task' = task
<1> SUFFICES ASSUME [RegistryNext]_allVars PROVE task' = task
  OBVIOUS
<1>1. [Next]_vars
  BY DEF RegistryNext, Search, ReconstructNode, GiveUp, Answered, allVars
<1>2. [LossyNext]_vars
  BY <1>1, NextIsLossy
<1>3. QED
  BY <1>2, LossyKeepsTask

\* RegistryInv is inductive.
LEMMA RegistryInvNext ==
    /\ SearchInv /\ SearchInv' /\ AnswerOptimal' /\ RegistryInv
    /\ [RegistryNext]_allVars
    => RegistryInv'
<1> SUFFICES ASSUME SearchInv, SearchInv', AnswerOptimal', RegistryInv, [RegistryNext]_allVars
             PROVE  RegistryInv'
  OBVIOUS
<1>1. [Next]_vars
  BY DEF RegistryNext, Search, ReconstructNode, GiveUp, Answered, allVars
<1>2. task' = task
  BY RegistryKeepsTask
<1>3. TypeOK /\ TypeOK' /\ Found
  BY DEF SearchInv, Found, RegistryInv
<1>4. SeedInv' /\ CutInv' /\ LayerInv'
  BY <1>1, <1>3, SeedInvNext, CutInvNext, LayerInvNext DEF RegistryInv
<1>5. HasOperators(task)'
  BY <1>2 DEF RegistryInv, HasOperators
<1>6. Optimum' = Optimum
  BY <1>2 DEF Optimum
<1>7. ASSUME \A n \in queue' : NodeInv(n, Optimum),
             \A ops \in plan' : /\ RunPlan({task.init}, ops) \cap task.goal # {}
                                /\ PlanCost(ops) = Optimum,
             registry' = "idle" => queue' = {} /\ plan' = {}
      PROVE  RegistryInv'
  <2>1. \A n \in queue' : NodeInv(n, Optimum)'
    <3>1. PICK f : f = Optimum
      OBVIOUS
    <3>2. \A n \in queue' : NodeInv(n, f)'
      BY <1>2, <1>7, <3>1, Stable
    <3>3. QED
      BY <1>6, <3>1, <3>2 DEF NodeInv, FwdNode, BwdNode
  <2>2. PlanValid'
    BY <1>2, <1>6, <1>7, Stable DEF PlanValid, Optimum
  <2>3. QED
    BY <1>4, <1>5, <1>7, <2>1, <2>2 DEF RegistryInv
<1>8. \A ops \in plan : /\ RunPlan({task.init}, ops) \cap task.goal # {}
                        /\ PlanCost(ops) = Optimum
  BY DEF RegistryInv, PlanValid, Optimum
<1>9. CASE Search
  <2>1. queue = {} /\ plan = {} /\ plan' = plan /\ registry = "idle"
    BY <1>9 DEF Search, RegistryInv
  <2>2. CASE status' = "SOLVED"
    <3>1. queue' = InitialNodes(sym_cuts') /\ registry' = "reconstruct"
      BY <1>9, <2>2 DEF Search
    <3>2. PICK cuts : cuts = sym_cuts'
      OBVIOUS
    <3>3. /\ cuts \subseteq Cuts
          /\ \A sol \in cuts :
                /\ Cost(sol) = Optimum
                /\ "fw" \notin Searches => sol.g = 0 /\ sol.cut \subseteq {task.init}
                /\ "bw" \notin Searches => sol.h = 0 /\ sol.cut \subseteq task.goal
      <4>1. CutsReady'
        <5>1. (status = "SOLVED")'
          BY <2>2
        <5>2. (SearchInv /\ AnswerOptimal /\ CutInv /\ status = "SOLVED" => CutsReady)'
          BY SolvedCuts, PTL
        <5>3. QED
          BY <1>4, <5>1, <5>2
      <4>2. QED
        BY <1>2, <1>6, <3>2, <4>1 DEF CutsReady, Cost
    <3>4. \A n \in queue' : NodeInv(n, Optimum)
      BY FoundFacts, <1>3, <3>1, <3>2, <3>3, InitialNodesInv
    <3>5. QED
      BY <1>7, <1>8, <2>1, <3>1, <3>4
  <2>3. CASE status' # "SOLVED"
    <3>1. queue' = queue /\ registry' = registry
      BY <1>9, <2>3 DEF Search, registryVars
    <3>2. QED
      BY <1>7, <2>1, <3>1
  <2>4. QED
    BY <2>2, <2>3
<1>10. CASE ReconstructNode
  <2>1. PICK top \in Top(queue) : \E states \in Picked(top) :
             LET node == Narrowed(top, states)
             IN IF IsSolution(node)
                THEN /\ plan' = {node.prefix \o node.suffix}
                     /\ queue' = {}
                     /\ registry' = "returned"
                ELSE /\ queue' = Waiting(top, states) \cup ExpandActions(node)
                     /\ UNCHANGED <<plan, registry>>
    BY <1>10 DEF ReconstructNode
  <2>2. PICK states \in Picked(top) :
             LET node == Narrowed(top, states)
             IN IF IsSolution(node)
                THEN /\ plan' = {node.prefix \o node.suffix}
                     /\ queue' = {}
                     /\ registry' = "returned"
                ELSE /\ queue' = Waiting(top, states) \cup ExpandActions(node)
                     /\ UNCHANGED <<plan, registry>>
    BY <2>1
  <2>3. PICK node : node = Narrowed(top, states)
    OBVIOUS
  <2>4. top \in queue /\ NodeInv(top, Optimum)
    BY DEF Top, RegistryInv
  <2>5. NodeInv(node, Optimum)
    BY FoundFacts, <1>3, <2>3, <2>4, NarrowedNode
  <2>6. CASE IsSolution(node)
    <3>1. plan' = {node.prefix \o node.suffix} /\ queue' = {} /\ registry' = "returned"
      BY <2>2, <2>3, <2>6
    <3>2. QED
      BY FoundFacts, <1>3, <1>7, <2>5, <2>6, <3>1, SolutionsAreValid
  <2>7. CASE ~IsSolution(node)
    <3>1. /\ queue' = Waiting(top, states) \cup ExpandActions(node)
          /\ UNCHANGED <<plan, registry>>
      BY <2>2, <2>3, <2>7
    <3>2. \A n \in Waiting(top, states) : NodeInv(n, Optimum)
      BY FoundFacts, <1>3, <2>4, WaitingNodes DEF RegistryInv
    <3>3. \A n \in ExpandActions(node) : NodeInv(n, Optimum)
      BY FoundFacts, <1>3, <2>5, ExpandActionsInv
    <3>4. registry # "idle"
      BY <1>10 DEF ReconstructNode
    <3>5. QED
      BY <1>7, <1>8, <3>1, <3>2, <3>3, <3>4
  <2>8. QED
    BY <2>6, <2>7
<1>11. CASE GiveUp
  BY <1>7, <1>8, <1>11 DEF GiveUp, RegistryInv
<1>12. CASE UNCHANGED allVars
  BY <1>7, <1>8, <1>12 DEF allVars, registryVars, RegistryInv
<1>13. QED
  BY <1>9, <1>10, <1>11, <1>12 DEF RegistryNext, Answered

\* RegistryInv is an invariant, next to those of the search.
LEMMA RegistryInvariant == RegistrySpec => [](SearchInv /\ RegistryInv)
<1>1. RegistrySpec => [](SearchInv /\ AnswerOptimal)
  BY RegistrySearches, BoundInvariant, AnswersAreOptimal, PTL
<1>2. QED
  BY <1>1, RegistryInvInit, RegistryInvNext, PTL DEF RegistrySpec

\* The plan that is reported leads from the initial state to the goal and is a
\* cheapest one: the operators that sym_fw, sym_bw and sym_bd take from the
\* closed lists of one or two directions fit together, whichever nodes the
\* queue prefers, in whatever order they wait, with free operators or without.
THEOREM PlansAreValid == RegistrySpec => []PlanValid
<1>1. RegistryInv => PlanValid
  BY DEF RegistryInv
<1>2. QED
  BY <1>1, RegistryInvariant, PTL

-----------------------------------------------------------------------------
(* Simple plans *)

\* w lists the states on a way through V along the relations R[ops[1]],
\* R[ops[2]], ... that visits none of them twice.
Way(w, V, R, ops) ==
    /\ w \in [0 .. Len(ops) -> V]
    /\ \A n \in 1 .. Len(ops) : <<w[n - 1], w[n]>> \in R[ops[n]]
    /\ \A m, n \in 0 .. Len(ops) : w[m] = w[n] => m = n

\* v is such a way that goes to w[0] first; or to w's last state, and then on.
WayFrom(v, x, w, V, R, ops) ==
    /\ Way(v, V, R, ops) /\ v[0] = x
    /\ \A n \in 1 .. Len(ops) : v[n] = w[n - 1]

WayTo(v, x, w, V, R, ops) ==
    /\ Way(v, V, R, ops) /\ v[Len(ops)] = x
    /\ \A n \in 0 .. Len(ops) - 1 : v[n] = w[n]

\* A way can be extended at its beginning by a state that is not on it.
LEMMA WayCons ==
    ASSUME NEW V, NEW I, NEW R, NEW ops \in Seq(I), NEW w, Way(w, V, R, ops),
           NEW i \in I, NEW x \in V, <<x, w[0]>> \in R[i],
           \A n \in 0 .. Len(ops) : w[n] # x
    PROVE  \E v : WayFrom(v, x, w, V, R, <<i>> \o ops)
<1> DEFINE l == Len(ops)
           more == <<i>> \o ops
           v == [n \in 0 .. l + 1 |-> IF n = 0 THEN x ELSE w[n - 1]]
<1>1. /\ l \in Nat /\ Len(more) = l + 1
      /\ more[1] = i /\ \A n \in 1 .. l : more[n + 1] = ops[n]
  OBVIOUS
<1>2. /\ \A n \in 0 .. l : w[n] \in V
      /\ \A n \in 1 .. l : <<w[n - 1], w[n]>> \in R[ops[n]]
      /\ \A m, n \in 0 .. l : w[m] = w[n] => m = n
  BY DEF Way
<1> HIDE DEF more, l
<1>3. v \in [0 .. l + 1 -> V]
  <2>1. \A n \in 0 .. l + 1 : n # 0 => n - 1 \in 0 .. l
    BY <1>1
  <2>2. QED
    BY <1>2, <2>1
<1>4. v[0] = x /\ \A n \in 1 .. l + 1 : v[n] = w[n - 1]
  BY <1>1
<1> HIDE DEF v
<1>5. ASSUME NEW n \in 1 .. l + 1 PROVE <<v[n - 1], v[n]>> \in R[more[n]]
  <2>1. CASE n = 1
    <3>1. n - 1 = 0 /\ more[n] = i
      BY <1>1, <2>1
    <3>2. v[0] = x /\ v[1] = w[0]
      BY <1>1, <1>4, <2>1
    <3>3. <<v[0], v[1]>> \in R[i]
      BY <3>2
    <3>4. QED
      BY <2>1, <3>1, <3>3
  <2>2. CASE n # 1
    <3>1. n - 1 \in 1 .. l /\ n - 1 \in 1 .. l + 1 /\ (n - 1) + 1 = n
      BY <1>1, <2>2
    <3>2. PICK m : m = n - 1
      OBVIOUS
    <3>3. more[n] = ops[m] /\ v[n] = w[m] /\ v[m] = w[m - 1]
      BY <1>1, <1>4, <3>1, <3>2
    <3>4. QED
      BY <1>2, <3>1, <3>2, <3>3
  <2>3. QED
    BY <2>1, <2>2
<1>6. ASSUME NEW m \in 0 .. l + 1, NEW n \in 0 .. l + 1, v[m] = v[n] PROVE m = n
  <2>1. CASE m # 0 /\ n # 0
    <3>1. m - 1 \in 0 .. l /\ n - 1 \in 0 .. l /\ v[m] = w[m - 1] /\ v[n] = w[n - 1]
      BY <1>1, <1>4, <2>1
    <3>2. m - 1 = n - 1
      BY <1>2, <1>6, <3>1
    <3>3. QED
      BY <1>1, <3>2
  <2>2. CASE m = 0 /\ n # 0
    <3>1. n - 1 \in 0 .. l /\ v[m] = x /\ v[n] = w[n - 1]
      BY <1>1, <1>4, <2>2
    <3>2. QED
      BY <1>6, <3>1 DEF l
  <2>3. CASE m # 0 /\ n = 0
    <3>1. m - 1 \in 0 .. l /\ v[n] = x /\ v[m] = w[m - 1]
      BY <1>1, <1>4, <2>3
    <3>2. QED
      BY <1>6, <3>1 DEF l
  <2>4. QED
    BY <2>1, <2>2, <2>3
<1>7. WayFrom(v, x, w, V, R, more)
  BY <1>1, <1>3, <1>4, <1>5, <1>6 DEF WayFrom, Way
<1>8. QED
  BY <1>7 DEF more

\* ... and at its end.
LEMMA WayAppend ==
    ASSUME NEW V, NEW I, NEW R, NEW ops \in Seq(I), NEW w, Way(w, V, R, ops),
           NEW i \in I, NEW x \in V, <<w[Len(ops)], x>> \in R[i],
           \A n \in 0 .. Len(ops) : w[n] # x
    PROVE  \E v : WayTo(v, x, w, V, R, Append(ops, i))
<1> DEFINE l == Len(ops)
           more == Append(ops, i)
           v == [n \in 0 .. l + 1 |-> IF n = l + 1 THEN x ELSE w[n]]
<1>1. /\ l \in Nat /\ Len(more) = l + 1
      /\ more[l + 1] = i /\ \A n \in 1 .. l : more[n] = ops[n]
  OBVIOUS
<1>2. /\ \A n \in 0 .. l : w[n] \in V
      /\ \A n \in 1 .. l : <<w[n - 1], w[n]>> \in R[ops[n]]
      /\ \A m, n \in 0 .. l : w[m] = w[n] => m = n
  BY DEF Way
<1>3. <<w[l], x>> \in R[i] /\ \A n \in 0 .. l : w[n] # x
  OBVIOUS
<1> HIDE DEF more, l
<1>4. v \in [0 .. l + 1 -> V]
  <2>1. \A n \in 0 .. l + 1 : n # l + 1 => n \in 0 .. l
    BY <1>1
  <2>2. QED
    BY <1>2, <2>1
<1>5. v[l + 1] = x /\ \A n \in 0 .. l : v[n] = w[n]
  BY <1>1
<1> HIDE DEF v
<1>6. ASSUME NEW n \in 1 .. l + 1 PROVE <<v[n - 1], v[n]>> \in R[more[n]]
  <2>1. n - 1 \in 0 .. l /\ v[n - 1] = w[n - 1]
    BY <1>1, <1>5
  <2>2. CASE n = l + 1
    <3>1. n - 1 = l
      BY <1>1, <2>2
    <3>2. QED
      BY <1>1, <1>3, <1>5, <2>1, <2>2, <3>1
  <2>3. CASE n # l + 1
    <3>1. n \in 1 .. l /\ n \in 0 .. l
      BY <1>1, <2>3
    <3>2. QED
      BY <1>1, <1>2, <1>5, <2>1, <3>1
  <2>4. QED
    BY <2>2, <2>3
<1>7. ASSUME NEW m \in 0 .. l + 1, NEW n \in 0 .. l + 1, v[m] = v[n] PROVE m = n
  <2>1. m \in 0 .. l \/ m = l + 1
    BY <1>1
  <2>2. n \in 0 .. l \/ n = l + 1
    BY <1>1
  <2>3. QED
    BY <1>2, <1>3, <1>5, <1>7, <2>1, <2>2
<1>8. WayTo(v, x, w, V, R, more)
  <2>1. \A n \in 0 .. Len(more) - 1 : v[n] = w[n]
    BY <1>1, <1>5
  <2>2. QED
    BY <1>1, <1>4, <1>5, <1>6, <1>7, <2>1 DEF WayTo, Way
<1>9. QED
  BY <1>8 DEF more

\* The relations of the operators.
Relations == [i \in Operators |-> task.operators[i].rel]

Singles(f, w, ops) == \A n \in 0 .. Len(ops) : f[n] = {w[n]}

\* Such a way is the run of its operators, as they are deterministic.
LEMMA WayIsRun ==
    ASSUME TaskOK, NEW s \in State, NEW ops \in Seq(Operators),
           NEW w, Way(w, State, Relations, ops), w[0] = s,
           NEW S, S = {s}, NEW f, Chain(f, StateSets, Applying, S, ops)
    PROVE  Singles(f, w, ops)
<1> DEFINE Bad == {n \in 0 .. Len(ops) : f[n] # {w[n]}}
           least == Least(Bad)
<1>1. Len(ops) \in Nat /\ Bad \in SUBSET Nat /\ f[0] = {w[0]}
  BY DEF Chain
<1>2. ASSUME Bad # {} PROVE FALSE
  <2>1. least \in Bad /\ \A n \in Bad : least <= n
    <3> HIDE DEF Bad
    <3>1. QED
      BY <1>1, <1>2, NatHasLeast
  <2> HIDE DEF least
  <2>2. /\ least \in 1 .. Len(ops) /\ least - 1 \in 0 .. Len(ops)
        /\ f[least - 1] = {w[least - 1]}
    BY <1>1, <2>1
  <2>3. PICK i \in Operators : i = ops[least]
    BY <2>2, ElementFacts
  <2>4. <<w[least - 1], w[least]>> \in task.operators[i].rel
    BY <2>2, <2>3 DEF Way, Relations
  <2>5. w[least - 1] \in State /\ w[least] \in State
    BY <2>2 DEF Way
  <2>6. \A e, g \in task.operators[i].rel : e[1] = g[1] => e = g
    BY <2>3 DEF TaskOK, HasOperators, Operators
  <2>7. ApplyOperator(i, {w[least - 1]}) = {w[least]}
    <3>1. ASSUME NEW y, <<w[least - 1], y>> \in task.operators[i].rel
          PROVE  y = w[least]
      <4>1. <<w[least - 1], y>> = <<w[least - 1], w[least]>>
        BY <2>4, <2>6, <3>1
      <4>2. QED
        BY <4>1
    <3>2. QED
      BY <2>4, <2>5, <3>1 DEF ApplyOperator
  <2>8. f[least] = ApplyOperator(i, f[least - 1])
    <3>1. f[least] = Applying[i][f[least - 1]] /\ f[least - 1] \in StateSets
      BY <2>2, <2>3 DEF Chain
    <3>2. QED
      BY <3>1 DEF Applying
  <2>9. QED
    BY <2>1, <2>2, <2>7, <2>8
<1>3. QED
  BY <1>1, <1>2 DEF Singles

\* The first operators of a plan lead to where the plan is after them.
LEMMA PartOfRun ==
    ASSUME TaskOK, NEW S \in StateSets, NEW ops \in Seq(Operators),
           NEW f, Chain(f, StateSets, Applying, S, ops), NEW n \in 0 .. Len(ops)
    PROVE  RunPlan(S, SubSeq(ops, 1, n)) = f[n]
<1>1. PICK part : part = SubSeq(ops, 1, n)
  OBVIOUS
<1>2. /\ part \in Seq(Operators) /\ Len(part) = n /\ n \in Nat /\ Len(ops) \in Nat
      /\ \A m \in 1 .. n : part[m] = ops[m]
  BY <1>1
<1> DEFINE g == [m \in 0 .. n |-> f[m]]
<1>3. 0 .. n \subseteq 0 .. Len(ops) /\ 1 .. n \subseteq 1 .. Len(ops) /\ 0 \in 0 .. n
  BY <1>2
<1>4. g \in [0 .. n -> StateSets] /\ g[0] = S
  BY <1>3 DEF Chain
<1>5. ASSUME NEW m \in 1 .. n PROVE g[m] = Applying[part[m]][g[m - 1]]
  <2>1. m \in 0 .. n /\ m - 1 \in 0 .. n
    BY <1>2
  <2>2. f[m] = Applying[ops[m]][f[m - 1]]
    BY <1>3 DEF Chain
  <2>3. QED
    BY <1>2, <2>1, <2>2
<1> HIDE DEF g
<1>6. Chain(g, StateSets, Applying, S, part)
  BY <1>2, <1>4, <1>5 DEF Chain
<1>7. RunPlan(S, part) = g[n]
  BY <1>2, <1>6, RunPlanChain
<1>8. g[n] = f[n]
  BY <1>2 DEF g
<1>9. QED
  BY <1>1, <1>7, <1>8

Loopless(S, ops) ==
    \A m, n \in 0 .. Len(ops) :
        m < n => RunPlan(S, SubSeq(ops, 1, m)) # RunPlan(S, SubSeq(ops, 1, n))

\* The plan of such a way visits no state twice.
LEMMA WayIsSimple ==
    ASSUME TaskOK, NEW s \in State, NEW ops \in Seq(Operators),
           NEW w, Way(w, State, Relations, ops), w[0] = s
    PROVE  RunPlan({s}, ops) = {w[Len(ops)]} /\ Loopless({s}, ops)
<1>1. PICK S : S = {s} /\ S \in StateSets
  BY DEF StateSets
<1>2. PICK f : Chain(f, StateSets, Applying, S, ops)
  BY <1>1, RunPlanChain
<1>3. Len(ops) \in Nat /\ \A n \in 0 .. Len(ops) : f[n] = {w[n]}
  <2>1. Singles(f, w, ops)
    BY <1>1, <1>2, WayIsRun
  <2>2. QED
    BY <2>1 DEF Singles
<1>4. RunPlan(S, ops) = f[Len(ops)]
  BY <1>1, <1>2, RunPlanChain
<1>5. \A n \in 0 .. Len(ops) : RunPlan(S, SubSeq(ops, 1, n)) = {w[n]}
  BY <1>1, <1>2, <1>3, PartOfRun
<1>6. ASSUME NEW m \in 0 .. Len(ops), NEW n \in 0 .. Len(ops), m < n
      PROVE  RunPlan(S, SubSeq(ops, 1, m)) # RunPlan(S, SubSeq(ops, 1, n))
  <2>1. m # n
    BY <1>3, <1>6
  <2>2. w[m] # w[n]
    BY <2>1 DEF Way
  <2>3. QED
    BY <1>5, <2>2
<1>7. Len(ops) \in 0 .. Len(ops)
  BY <1>3
<1>8. RunPlan(S, ops) = {w[Len(ops)]}
  BY <1>3, <1>4, <1>7
<1>9. Loopless(S, ops)
  BY <1>6 DEF Loopless
<1>10. QED
  BY <1>1, <1>8, <1>9

\* A way from s through states that have been seen, and one to s.
WayBefore(s, ops, seen) ==
    \E w : /\ Way(w, State, Relations, ops)
           /\ w[0] = s
           /\ \A n \in 1 .. Len(ops) : w[n] \in seen

WayBehind(s, ops, seen) ==
    \E w : /\ Way(w, State, Relations, ops)
           /\ w[0] = task.init /\ w[Len(ops)] = s
           /\ \A n \in 0 .. Len(ops) - 1 : w[n] \in seen

\* What is promised of a node that waits, if plans are to be simple,
NodeSimple(node) ==
    \A s \in node.states :
        /\ node.fwd => s \notin node.visited /\ WayBefore(s, node.prefix, node.visited)
        /\ ~node.fwd => WayBehind(s, node.prefix \o node.suffix, node.visited)

\* ... and of one that has been narrowed to a state.
TakenSimple(node) ==
    \E s \in node.visited :
        /\ node.states = {s}
        /\ node.fwd => WayBefore(s, node.prefix, node.visited)
        /\ ~node.fwd => WayBehind(s, node.prefix \o node.suffix, node.visited)

\* The more states have been seen, the less is said.
LEMMA MoreSeen ==
    ASSUME NEW s, NEW ops, NEW seen, NEW more, seen \subseteq more
    PROVE  /\ WayBefore(s, ops, seen) => WayBefore(s, ops, more)
           /\ WayBehind(s, ops, seen) => WayBehind(s, ops, more)
<1>1. ASSUME WayBefore(s, ops, seen) PROVE WayBefore(s, ops, more)
  <2>1. PICK w : /\ Way(w, State, Relations, ops)
                 /\ w[0] = s
                 /\ \A n \in 1 .. Len(ops) : w[n] \in seen
    BY <1>1 DEF WayBefore
  <2>2. \A n \in 1 .. Len(ops) : w[n] \in more
    BY <2>1
  <2>3. QED
    BY <2>1, <2>2 DEF WayBefore
<1>2. ASSUME WayBehind(s, ops, seen) PROVE WayBehind(s, ops, more)
  <2>1. PICK w : /\ Way(w, State, Relations, ops)
                 /\ w[0] = task.init /\ w[Len(ops)] = s
                 /\ \A n \in 0 .. Len(ops) - 1 : w[n] \in seen
    BY <1>2 DEF WayBehind
  <2>2. \A n \in 0 .. Len(ops) - 1 : w[n] \in more
    BY <2>1
  <2>3. QED
    BY <2>1, <2>2 DEF WayBehind
<1>3. QED
  BY <1>1, <1>2

\* An operator in front of a way, from a state that has not been seen,
LEMMA ConsBefore ==
    ASSUME NEW i \in Operators, NEW ops \in Seq(Operators), NEW seen,
           NEW y \in seen, WayBefore(y, ops, seen),
           NEW x \in State, x \notin seen, <<x, y>> \in task.operators[i].rel
    PROVE  WayBefore(x, <<i>> \o ops, seen)
<1>1. PICK w : /\ Way(w, State, Relations, ops)
               /\ w[0] = y
               /\ \A n \in 1 .. Len(ops) : w[n] \in seen
  BY DEF WayBefore
<1>2. \A n \in 0 .. Len(ops) : w[n] \in seen
  <2>1. \A n \in 0 .. Len(ops) : n = 0 \/ n \in 1 .. Len(ops)
    OBVIOUS
  <2>2. QED
    BY <1>1, <2>1
<1>3. PICK V, R, I : V = State /\ R = Relations /\ I = Operators
  OBVIOUS
<1>4. <<x, w[0]>> \in R[i] /\ \A n \in 0 .. Len(ops) : w[n] # x
  BY <1>1, <1>2, <1>3 DEF Relations
<1>5. Way(w, V, R, ops) /\ ops \in Seq(I) /\ i \in I /\ x \in V
  BY <1>1, <1>3
<1>6. \E v : WayFrom(v, x, w, V, R, <<i>> \o ops)
  BY <1>4, <1>5, WayCons
<1>7. PICK v : WayFrom(v, x, w, V, R, <<i>> \o ops)
  BY <1>6
<1>8. PICK more : more = <<i>> \o ops
  OBVIOUS
<1>9. Len(more) = Len(ops) + 1 /\ Len(ops) \in Nat
  BY <1>8
<1>10. ASSUME NEW n \in 1 .. Len(more) PROVE v[n] \in seen
  <2>1. v[n] = w[n - 1]
    BY <1>7, <1>8 DEF WayFrom
  <2>2. n - 1 \in 0 .. Len(ops)
    BY <1>9
  <2>3. QED
    BY <1>2, <2>1, <2>2
<1>11. Way(v, State, Relations, more) /\ v[0] = x
  BY <1>3, <1>7, <1>8 DEF WayFrom
<1>12. WayBefore(x, more, seen)
  BY <1>10, <1>11 DEF WayBefore
<1>13. QED
  BY <1>8, <1>12

\* ... and one behind it, to a state that has not been seen.
LEMMA AppendBehind ==
    ASSUME NEW i \in Operators, NEW ops \in Seq(Operators), NEW seen,
           NEW x \in seen, WayBehind(x, ops, seen),
           NEW y \in State, y \notin seen, <<x, y>> \in task.operators[i].rel
    PROVE  WayBehind(y, Append(ops, i), seen)
<1>1. PICK w : /\ Way(w, State, Relations, ops)
               /\ w[0] = task.init /\ w[Len(ops)] = x
               /\ \A n \in 0 .. Len(ops) - 1 : w[n] \in seen
  BY DEF WayBehind
<1>2. Len(ops) \in Nat /\ \A n \in 0 .. Len(ops) : w[n] \in seen
  <2>1. Len(ops) \in Nat
    OBVIOUS
  <2>2. \A n \in 0 .. Len(ops) : n = Len(ops) \/ n \in 0 .. Len(ops) - 1
    BY <2>1
  <2>3. QED
    BY <1>1, <2>1, <2>2
<1>3. PICK V, R, I : V = State /\ R = Relations /\ I = Operators
  OBVIOUS
<1>4. <<w[Len(ops)], y>> \in R[i] /\ \A n \in 0 .. Len(ops) : w[n] # y
  BY <1>1, <1>2, <1>3 DEF Relations
<1>5. Way(w, V, R, ops) /\ ops \in Seq(I) /\ i \in I /\ y \in V
  BY <1>1, <1>3
<1>6. \E v : WayTo(v, y, w, V, R, Append(ops, i))
  BY <1>4, <1>5, WayAppend
<1>7. PICK v : WayTo(v, y, w, V, R, Append(ops, i))
  BY <1>6
<1>8. PICK more : more = Append(ops, i)
  OBVIOUS
<1>9. Len(more) = Len(ops) + 1
  BY <1>8
<1>10. \A n \in 0 .. Len(ops) : v[n] = w[n]
  <2>1. 0 .. Len(more) - 1 = 0 .. Len(ops)
    BY <1>2, <1>9
  <2>2. QED
    BY <1>7, <1>8, <2>1 DEF WayTo
<1>11. \A n \in 0 .. Len(more) - 1 : v[n] \in seen
  BY <1>2, <1>9, <1>10
<1>12. Way(v, State, Relations, more) /\ v[Len(more)] = y /\ v[0] = task.init
  BY <1>1, <1>2, <1>3, <1>7, <1>8, <1>10 DEF WayTo
<1>13. WayBehind(y, more, seen)
  BY <1>11, <1>12 DEF WayBehind
<1>14. QED
  BY <1>8, <1>13

\* A node of a plan without operators.
LEMMA EmptyWay ==
    ASSUME NEW s \in State, NEW seen
    PROVE  /\ WayBefore(s, <<>>, seen)
           /\ s = task.init => WayBehind(s, <<>>, seen)
<1> DEFINE w == [n \in 0 .. 0 |-> s]
<1>1. Len(<<>>) = 0 /\ 1 .. 0 = {} /\ 0 .. 0 - 1 = {} /\ 0 .. 0 = {0}
  OBVIOUS
<1>2. w \in [0 .. 0 -> State] /\ w[0] = s
  OBVIOUS
<1> HIDE DEF w
<1>3. Way(w, State, Relations, <<>>)
  BY <1>1, <1>2 DEF Way
<1>4. QED
  BY <1>1, <1>2, <1>3 DEF WayBefore, WayBehind

\* ReconstructNode splits a state off a node: it is visited now,
LEMMA TakenNode ==
    ASSUME Found, NEW f \in Nat, task.simple, NEW top, NodeInv(top, f), NodeSimple(top),
           NEW states \in Picked(top)
    PROVE  TakenSimple(Narrowed(top, states))
<1>1. PICK s \in top.states : states = {s}
  BY DEF Picked
<1>2. PICK node : node = Narrowed(top, states)
  OBVIOUS
<1>3. /\ node.states = {s} /\ node.visited = top.visited \cup {s}
      /\ node.fwd = top.fwd /\ node.prefix = top.prefix /\ node.suffix = top.suffix
  BY <1>1, <1>2 DEF Narrowed, NodeInv, NodeType
<1>4. top.visited \subseteq node.visited /\ s \in node.visited
  BY <1>3
<1>5. ASSUME node.fwd PROVE WayBefore(s, node.prefix, node.visited)
  <2>1. WayBefore(s, node.prefix, top.visited)
    BY <1>1, <1>3, <1>5 DEF NodeSimple
  <2>2. QED
    BY <1>4, <2>1, MoreSeen
<1>6. ASSUME ~node.fwd PROVE WayBehind(s, node.prefix \o node.suffix, node.visited)
  <2>1. PICK ops : ops = node.prefix \o node.suffix
    OBVIOUS
  <2>2. WayBehind(s, ops, top.visited)
    BY <1>1, <1>3, <1>6, <2>1 DEF NodeSimple
  <2>3. WayBehind(s, ops, node.visited)
    BY <1>4, <2>2, MoreSeen
  <2>4. QED
    BY <2>1, <2>3
<1>7. TakenSimple(node)
  BY <1>3, <1>4, <1>5, <1>6 DEF TakenSimple
<1>8. QED
  BY <1>2, <1>7

\* ... and what is left of the node waits.
LEMMA WaitingSimple ==
    ASSUME Found, NEW f \in Nat, \A n \in queue : NodeInv(n, f) /\ NodeSimple(n), NEW top \in queue,
           NEW states, NEW n \in Waiting(top, states)
    PROVE  NodeSimple(n)
<1>1. CASE n \in queue
  BY <1>1
<1>2. CASE n = [top EXCEPT !.states = @ \ states]
  <2>1. NodeSimple(top) /\ top \in NodeType
    BY DEF NodeInv
  <2>2. /\ n.states \subseteq top.states /\ n.visited = top.visited
        /\ n.fwd = top.fwd /\ n.prefix = top.prefix /\ n.suffix = top.suffix
    BY <1>2, <2>1 DEF NodeType
  <2>3. QED
    BY <2>1, <2>2 DEF NodeSimple
<1>3. QED
  BY <1>1, <1>2 DEF Waiting

\* An operator leads on to states that have not been visited.
LEMMA NewNodeSimple ==
    ASSUME Found, NEW f \in Nat, task.simple, NEW node, NodeInv(node, f), TakenSimple(node),
           NEW i \in Operators, ClosedStep(node, i) # {}
    PROVE  NodeSimple(NewNode(node, i))
<1>1. PICK new : new = NewNode(node, i)
  OBVIOUS
<1>2. PICK s \in node.visited :
             /\ node.states = {s}
             /\ node.fwd => WayBefore(s, node.prefix, node.visited)
             /\ ~node.fwd => WayBehind(s, node.prefix \o node.suffix, node.visited)
  BY DEF TakenSimple
<1>3. /\ new.fwd = node.fwd /\ new.visited = node.visited
      /\ new.states = ClosedStep(node, i) \ node.visited
  BY <1>1, NewNodeFields DEF Unvisited
<1>4. node.prefix \in Seq(Operators) /\ node.suffix \in Seq(Operators)
  BY DEF NodeInv, NodeType, OperatorSeqs
<1>5. ASSUME node.fwd, NEW x \in new.states
      PROVE  x \notin new.visited /\ WayBefore(x, new.prefix, new.visited)
  <2>1. x \in State /\ x \notin node.visited /\ <<x, s>> \in task.operators[i].rel
    BY <1>2, <1>3, <1>5 DEF ClosedStep, RegressOperator
  <2>2. WayBefore(x, <<i>> \o node.prefix, node.visited)
    BY <1>2, <1>4, <1>5, <2>1, ConsBefore
  <2>3. new.prefix = <<i>> \o node.prefix
    BY <1>1, <1>5, NewNodeFields
  <2>4. QED
    BY <1>3, <2>1, <2>2, <2>3
<1>6. ASSUME ~node.fwd, NEW y \in new.states
      PROVE  WayBehind(y, new.prefix \o new.suffix, new.visited)
  <2>1. y \in State /\ y \notin node.visited /\ <<s, y>> \in task.operators[i].rel
    BY <1>2, <1>3, <1>6 DEF ClosedStep, ApplyOperator
  <2>2. PICK I, p, q, ops : /\ I = Operators /\ p = node.prefix /\ q = node.suffix
                            /\ ops = p \o q
    OBVIOUS
  <2>3. p \in Seq(I) /\ q \in Seq(I) /\ i \in I
    BY <1>4, <2>2
  <2>4. p \o Append(q, i) = Append(ops, i)
    <3>1. p \o Append(q, i) = Append(p \o q, i)
      BY <2>3, AppendToConcat
    <3>2. QED
      BY <2>2, <3>1
  <2>5. ops \in Seq(Operators)
    BY <2>2, <2>3
  <2>6. WayBehind(s, ops, node.visited)
    BY <1>2, <1>6, <2>2
  <2>7. WayBehind(y, Append(ops, i), node.visited)
    BY <1>2, <2>1, <2>5, <2>6, AppendBehind
  <2>8. new.suffix = Append(q, i) /\ new.prefix = p
    BY <1>1, <1>6, <2>2, NewNodeFields
  <2>9. QED
    BY <1>3, <2>4, <2>7, <2>8
<1>7. NodeSimple(new)
  BY <1>3, <1>5, <1>6 DEF NodeSimple
<1>8. QED
  BY <1>1, <1>7

\* The second phase starts at the end of a way from the initial state.
LEMMA PushedSimple ==
    ASSUME Found, NEW f \in Nat, task.simple, NEW new, NodeInv(new, f), NodeSimple(new)
    PROVE  NodeSimple(Pushed(new))
<1>1. CASE ~SwapToBwdPhase(new)
  BY <1>1 DEF Pushed
<1>2. CASE SwapToBwdPhase(new)
  <2>1. /\ new \in NodeType /\ new.prefix \in Seq(Operators) /\ new.fwd
        /\ FwdNode(new, f) /\ new.suffix = <<>>
    BY <1>2 DEF NodeInv, NodeType, OperatorSeqs, SwapToBwdPhase, FwdNode
  <2>2. StartStates("fw") = {task.init} /\ task.init \in new.states /\ task.init \in State
    <3>1. StartStates("fw") \subseteq {task.init}
      BY <1>2, FoundFacts DEF SwapToBwdPhase
    <3>2. QED
      BY <1>2, <3>1, FoundFacts DEF SwapToBwdPhase, IsTask
  <2>3. PICK s, ops, seen : s = task.init /\ ops = new.prefix /\ seen = new.visited
    OBVIOUS
  <2>4. PICK w : /\ Way(w, State, Relations, ops) /\ w[0] = s
                 /\ \A n \in 1 .. Len(ops) : w[n] \in seen
    BY <2>1, <2>2, <2>3 DEF NodeSimple, WayBefore
  <2>5. RunPlan({s}, ops) = {w[Len(ops)]}
    BY <2>1, <2>2, <2>3, <2>4, FoundFacts, WayIsSimple
  <2>6. PICK pushed : pushed = Pushed(new)
    OBVIOUS
  <2>7. /\ pushed.fwd = FALSE /\ pushed.states = {w[Len(ops)]}
        /\ pushed.visited = seen \cup {s}
        /\ pushed.prefix = ops /\ pushed.suffix = <<>>
    BY <1>2, <2>1, <2>2, <2>3, <2>5, <2>6 DEF Pushed, NodeType
  <2>8. pushed.prefix \o pushed.suffix = ops
    BY <2>1, <2>3, <2>7
  <2>9. \A n \in 0 .. Len(ops) - 1 : w[n] \in pushed.visited
    <3>1. \A n \in 0 .. Len(ops) - 1 : n = 0 \/ n \in 1 .. Len(ops)
      BY <2>1, <2>3
    <3>2. QED
      BY <2>4, <2>7, <3>1
  <2>10. WayBehind(w[Len(ops)], ops, pushed.visited)
    BY <2>3, <2>4, <2>9 DEF WayBehind
  <2>11. NodeSimple(pushed)
    BY <2>7, <2>8, <2>10 DEF NodeSimple
  <2>12. QED
    BY <2>6, <2>11
<1>3. QED
  BY <1>1, <1>2

\* expand_actions pushes nodes that keep the promise.
LEMMA ExpandActionsSimple ==
    ASSUME Found, NEW f \in Nat, task.simple, NEW node, NodeInv(node, f), TakenSimple(node),
           NEW n \in ExpandActions(node)
    PROVE  NodeSimple(n)
<1>1. PICK i \in Operators : /\ Unvisited(node, ClosedStep(node, i)) # {}
                             /\ n = Pushed(NewNode(node, i))
  BY DEF ExpandActions, Operators
<1>2. ClosedStep(node, i) # {}
  BY <1>1 DEF Unvisited
<1>3. PICK new : new = NewNode(node, i)
  OBVIOUS
<1>4. NodeInv(new, f) /\ NodeSimple(new)
  BY <1>2, <1>3, NewNodeInv, NewNodeSimple
<1>5. QED
  BY <1>1, <1>3, <1>4, PushedSimple

\* So do the nodes that reconstruction starts from.
LEMMA InitialNodesSimple ==
    ASSUME Found, NEW cuts, cuts \subseteq Cuts,
           "fw" \notin Searches => \A sol \in cuts : sol.cut \subseteq {task.init},
           NEW n \in InitialNodes(cuts)
    PROVE  NodeSimple(n)
<1> DEFINE Start(sol) == [g |-> sol.g, h |-> sol.h, layer |-> INT_MAX, states |-> sol.cut,
                          visited |-> {}, fwd |-> "fw" \in Searches,
                          prefix |-> <<>>, suffix |-> <<>>]
           Swapped(sol) == [Start(sol) EXCEPT !.states = StartStates("fw"),
                                              !.visited = StartStates("fw"), !.fwd = FALSE]
<1>1. PICK sol \in cuts : \/ n = Start(sol)
                          \/ n = Swapped(sol) /\ SwapToBwdPhase(Start(sol))
  BY DEF InitialNodes
<1>2. sol.cut \subseteq State /\ task.init \in State
  BY FoundFacts DEF Cuts, IsTask
<1>3. <<>> \o <<>> = <<>>
  OBVIOUS
<1>4. CASE n = Start(sol)
  BY <1>1, <1>2, <1>3, <1>4, EmptyWay DEF NodeSimple
<1>5. CASE n = Swapped(sol) /\ SwapToBwdPhase(Start(sol))
  <2>1. StartStates("fw") \subseteq {task.init}
    BY <1>5, FoundFacts DEF SwapToBwdPhase
  <2>2. QED
    BY <1>2, <1>3, <1>5, <2>1, EmptyWay DEF NodeSimple
<1>6. QED
  BY <1>1, <1>4, <1>5

\* A node that is a solution holds the operators of a way from the initial state.
LEMMA SolutionsAreWays ==
    ASSUME Found, NEW f \in Nat, NEW node, NodeInv(node, f), TakenSimple(node), IsSolution(node)
    PROVE  /\ node.prefix \o node.suffix \in Seq(Operators)
           /\ \E w : /\ Way(w, State, Relations, node.prefix \o node.suffix)
                     /\ w[0] = task.init
<1>1. PICK s \in node.visited :
             /\ node.states = {s}
             /\ node.fwd => WayBefore(s, node.prefix, node.visited)
             /\ ~node.fwd => WayBehind(s, node.prefix \o node.suffix, node.visited)
  BY DEF TakenSimple
<1>2. PICK ops : ops = node.prefix \o node.suffix
  OBVIOUS
<1>3. node.prefix \in Seq(Operators) /\ node.suffix \in Seq(Operators)
  BY DEF NodeInv, NodeType, OperatorSeqs
<1>4. ops \in Seq(Operators) /\ task.init \in State
  BY <1>2, <1>3, FoundFacts DEF IsTask
<1>5. \E w : Way(w, State, Relations, ops) /\ w[0] = task.init
  <2>1. CASE node.fwd
    <3>1. ops = node.prefix /\ "fw" \in Searches
      <4>1. node.suffix = <<>> /\ "fw" \in Searches
        BY <2>1 DEF NodeInv, FwdNode
      <4>2. QED
        BY <1>2, <1>3, <4>1
    <3>2. s = task.init
      BY <1>1, <2>1, <3>1, FoundFacts DEF IsSolution
    <3>3. QED
      BY <1>1, <2>1, <3>1, <3>2 DEF WayBefore
  <2>2. CASE ~node.fwd
    BY <1>1, <1>2, <2>2 DEF WayBehind
  <2>3. QED
    BY <2>1, <2>2
<1>6. QED
  BY <1>2, <1>4, <1>5

\* So it holds a plan without loops.
LEMMA SolutionsAreSimple ==
    ASSUME Found, NEW f \in Nat, NEW node, NodeInv(node, f), TakenSimple(node), IsSolution(node)
    PROVE  Loopless({task.init}, node.prefix \o node.suffix)
<1>1. PICK ops \in Seq(Operators) :
         /\ ops = node.prefix \o node.suffix
         /\ \E w : Way(w, State, Relations, ops) /\ w[0] = task.init
  BY SolutionsAreWays
<1>2. PICK t, w : t = task.init /\ Way(w, State, Relations, ops) /\ w[0] = t
  BY <1>1
<1>3. Loopless({t}, ops)
  BY <1>2, FoundFacts, WayIsSimple DEF IsTask
<1>4. QED
  BY <1>1, <1>2, <1>3

\* What makes PlanSimple inductive.
SimpleInv ==
    task.simple => /\ \A node \in queue : NodeSimple(node)
                   /\ \A ops \in plan : Loopless({task.init}, ops)

\* Like runs, ways only depend on the task.
LEMMA StableSimple ==
    ASSUME task' = task
    PROVE  /\ \A node : NodeSimple(node)' = NodeSimple(node)
           /\ \A ops : Loopless({task.init}, ops)' = Loopless({task.init}, ops)
<1>1. Relations' = Relations
  BY DEF Relations, Operators
<1>2. ASSUME NEW s, NEW ops, NEW seen
      PROVE  /\ WayBefore(s, ops, seen)' = WayBefore(s, ops, seen)
             /\ WayBehind(s, ops, seen)' = WayBehind(s, ops, seen)
  BY <1>1 DEF WayBefore, WayBehind, Way
<1>3. ASSUME NEW node PROVE NodeSimple(node)' = NodeSimple(node)
  BY <1>2 DEF NodeSimple
<1>4. ASSUME NEW ops PROVE Loopless({task.init}, ops)' = Loopless({task.init}, ops)
  BY DEF Loopless, RunPlan, ApplyOperator
<1>5. QED
  BY <1>3, <1>4

\* SimpleInv is inductive, given RegistryInv.
LEMMA SimpleInvNext ==
    /\ SearchInv /\ SearchInv' /\ AnswerOptimal' /\ RegistryInv /\ RegistryInv'
    /\ SimpleInv /\ [RegistryNext]_allVars
    => SimpleInv'
<1> SUFFICES ASSUME SearchInv, SearchInv', AnswerOptimal', RegistryInv, RegistryInv',
                    SimpleInv, [RegistryNext]_allVars, task'.simple
             PROVE  /\ \A node \in queue' : NodeSimple(node)'
                    /\ \A ops \in plan' : Loopless({task.init}, ops)'
  BY DEF SimpleInv
<1>1. task' = task
  BY RegistryKeepsTask
<1>2. Found /\ task.simple
  BY <1>1 DEF SearchInv, Found, RegistryInv
<1>3. ASSUME \A node \in queue' : NodeSimple(node),
             \A ops \in plan' : Loopless({task.init}, ops)
      PROVE  /\ \A node \in queue' : NodeSimple(node)'
             /\ \A ops \in plan' : Loopless({task.init}, ops)'
  BY <1>1, <1>3, StableSimple
<1>4. /\ \A node \in queue : NodeInv(node, Optimum) /\ NodeSimple(node)
      /\ \A ops \in plan : Loopless({task.init}, ops)
  BY <1>2 DEF SimpleInv, RegistryInv
<1>5. CASE Search
  <2>1. queue = {} /\ plan = {} /\ plan' = plan
    BY <1>5 DEF Search, RegistryInv
  <2>2. CASE status' = "SOLVED"
    <3>1. queue' = InitialNodes(sym_cuts')
      BY <1>5, <2>2 DEF Search
    <3>2. PICK cuts : cuts = sym_cuts'
      OBVIOUS
    <3>3. cuts \subseteq Cuts
      BY <3>2 DEF SearchInv, TypeOK, EngineTypeOK
    <3>4. "fw" \notin Searches => \A sol \in cuts : sol.cut \subseteq {task.init}
      BY <1>1, <3>2 DEF RegistryInv, CutInv
    <3>5. \A n \in queue' : NodeSimple(n)
      BY <1>2, <3>1, <3>2, <3>3, <3>4, InitialNodesSimple
    <3>6. QED
      BY <1>3, <2>1, <3>5
  <2>3. CASE status' # "SOLVED"
    <3>1. queue' = queue
      BY <1>5, <2>3 DEF Search, registryVars
    <3>2. QED
      BY <1>3, <2>1, <3>1
  <2>4. QED
    BY <2>2, <2>3
<1>6. CASE ReconstructNode
  <2>1. PICK top \in Top(queue) : \E states \in Picked(top) :
             LET node == Narrowed(top, states)
             IN IF IsSolution(node)
                THEN /\ plan' = {node.prefix \o node.suffix}
                     /\ queue' = {}
                     /\ registry' = "returned"
                ELSE /\ queue' = Waiting(top, states) \cup ExpandActions(node)
                     /\ UNCHANGED <<plan, registry>>
    BY <1>6 DEF ReconstructNode
  <2>2. PICK states \in Picked(top) :
             LET node == Narrowed(top, states)
             IN IF IsSolution(node)
                THEN /\ plan' = {node.prefix \o node.suffix}
                     /\ queue' = {}
                     /\ registry' = "returned"
                ELSE /\ queue' = Waiting(top, states) \cup ExpandActions(node)
                     /\ UNCHANGED <<plan, registry>>
    BY <2>1
  <2>3. PICK node : node = Narrowed(top, states)
    OBVIOUS
  <2>4. top \in queue /\ NodeInv(top, Optimum) /\ NodeSimple(top)
    BY <1>4 DEF Top
  <2>5. NodeInv(node, Optimum) /\ TakenSimple(node)
    BY FoundFacts, <1>2, <2>3, <2>4, NarrowedNode, TakenNode
  <2>6. CASE IsSolution(node)
    <3>1. plan' = {node.prefix \o node.suffix} /\ queue' = {}
      BY <2>2, <2>3, <2>6
    <3>2. Loopless({task.init}, node.prefix \o node.suffix)
      BY FoundFacts, <1>2, <2>5, <2>6, SolutionsAreSimple
    <3>3. QED
      BY <1>3, <3>1, <3>2
  <2>7. CASE ~IsSolution(node)
    <3>1. queue' = Waiting(top, states) \cup ExpandActions(node) /\ plan' = plan
      BY <2>2, <2>3, <2>7
    <3>2. \A n \in Waiting(top, states) : NodeSimple(n)
      BY FoundFacts, <1>2, <1>4, <2>4, WaitingSimple
    <3>3. \A n \in ExpandActions(node) : NodeSimple(n)
      BY FoundFacts, <1>2, <2>5, ExpandActionsSimple
    <3>4. QED
      BY <1>3, <1>4, <3>1, <3>2, <3>3
  <2>8. QED
    BY <2>6, <2>7
<1>7. CASE GiveUp
  BY <1>3, <1>4, <1>7 DEF GiveUp
<1>8. CASE UNCHANGED allVars
  BY <1>3, <1>4, <1>8 DEF allVars, registryVars
<1>9. QED
  BY <1>5, <1>6, <1>7, <1>8 DEF RegistryNext, Answered

\* With the option simple no plan visits a state twice, although its halves are
\* found in two phases and from opposite ends: what the first phase has visited
\* is not visited by the second one, and a state that waits has not been visited
\* on the way to it.
THEOREM PlansAreSimple == RegistrySpec => []PlanSimple
<1>1. RegistryInit => SimpleInv
  BY DEF RegistryInit, SimpleInv
<1>2. SimpleInv => PlanSimple
  BY DEF SimpleInv, PlanSimple, Loopless
<1>3. RegistrySpec => []AnswerOptimal
  BY RegistrySearches, AnswersAreOptimal, PTL
<1>4. RegistrySpec => []SimpleInv
  BY <1>1, <1>3, RegistryInvariant, SimpleInvNext, PTL DEF RegistrySpec
<1>5. QED
  BY <1>2, <1>4, PTL

-----------------------------------------------------------------------------
(* A plan is found *)

\* What a node is made of can be traced on: to the initial state in the first
\* phase and then, from where its operators lead to, to the goal.
Alive(node) ==
    /\ node.states # {}
    /\ node.fwd => \A s \in node.states :
          /\ Traceable("fw", node.g, s)
          /\ "bw" \in Searches =>
                \E y : RunPlan({s}, node.prefix) = {y} /\ Traceable("bw", node.h, y)
    /\ ~node.fwd => \A s \in node.states : Traceable("bw", node.h, s)

\* What these proofs assume of the search.
Rooted == /\ Found /\ PlanReconstructible
          /\ \A d \in Dir : Source(task, d) \subseteq closed[d][0]

\* A direction starts from its sources.
LEMMA StartsFromSource ==
    ASSUME Rooted, NEW d \in Searches
    PROVE  StartStates(d) = Source(task, d)
<1>1. d \in Dir
  BY SearchesAssumption
<1>2. StartStates(d) \subseteq Source(task, d)
  BY StartsAreSources DEF Rooted, Found
<1>3. CASE HasZeroCost(task)
  BY <1>3 DEF Rooted, Found, LayerInv, StartStates
<1>4. CASE ~HasZeroCost(task)
  BY <1>1, <1>2, <1>4 DEF Rooted, Found, LayerInv, StartStates
<1>5. QED
  BY <1>3, <1>4

\* An operator connects what Traceable asks for.
LEMMA StepBack ==
    ASSUME Rooted, NEW d \in Dir, NEW g \in Level, NEW s \in State, Traceable(d, g, s)
    PROVE  \/ g = 0 /\ s \in Source(task, d)
           \/ \E i \in Operators :
                 /\ task.operators[i].cost <= g
                 /\ \E r \in closed[d][g - task.operators[i].cost] :
                       /\ r \in State
                       /\ IF d = "fw" THEN <<r, s>> \in task.operators[i].rel
                                      ELSE <<s, r>> \in task.operators[i].rel
<1> SUFFICES ASSUME NEW c \in DOMAIN task.ops, c <= g,
                    NEW r \in closed[d][g - c], Edge(task, d, c, r, s)
             PROVE  \E i \in Operators :
                 /\ task.operators[i].cost <= g
                 /\ \E x \in closed[d][g - task.operators[i].cost] :
                       /\ x \in State
                       /\ IF d = "fw" THEN <<x, s>> \in task.operators[i].rel
                                      ELSE <<s, x>> \in task.operators[i].rel
  BY DEF Traceable
<1>1. PICK e : e = (IF d = "fw" THEN <<r, s>> ELSE <<s, r>>) /\ e \in task.ops[c]
  BY DEF Edge
<1>2. task.ops[c] = UNION {task.operators[i].rel :
                           i \in {j \in Operators : task.operators[j].cost = c}}
  BY DEF Rooted, Found, HasOperators, Operators
<1>3. PICK i \in Operators : task.operators[i].cost = c /\ e \in task.operators[i].rel
  BY <1>1, <1>2
<1>4. task.operators[i].rel \subseteq State \X State
  <2>1. TaskOK
    BY FoundFacts DEF Rooted
  <2>2. QED
    BY <2>1, OperatorFacts
<1>5. r \in State
  BY <1>1, <1>3, <1>4
<1>6. QED
  BY <1>1, <1>3, <1>5

\* A node that is neither a solution nor about to swap can be expanded.
LEMMA AliveIsExpanded ==
    ASSUME Rooted, NEW f \in Nat, ~task.simple, NEW node, NodeInv(node, f), Alive(node),
           ~SwapToBwdPhase(node), ~IsSolution(node)
    PROVE  ExpandActions(node) # {}
<1>1. PICK s \in node.states : TRUE
  BY DEF Alive
<1>2. /\ node.g \in Level /\ node.h \in Level /\ node.g \in Nat /\ node.h \in Nat
      /\ node.fwd \in BOOLEAN /\ s \in State
  BY LevelFacts DEF NodeInv, NodeType, StateSets
<1> DEFINE d == IF node.fwd THEN "fw" ELSE "bw"
           left == IF node.fwd THEN node.g ELSE node.h
           Steps == {i \in Operators : ClosedStep(node, i) # {}}
<1>3. d \in Searches /\ d \in Dir /\ left \in Level /\ Traceable(d, left, s)
  BY <1>1, <1>2, SearchesAssumption DEF Alive, NodeInv, FwdNode, BwdNode
<1>4. StartStates(d) = Source(task, d)
  BY <1>3, StartsFromSource
<1>5. ~ (left = 0 /\ s \in Source(task, d))
  <2> SUFFICES ASSUME left = 0, s \in Source(task, d) PROVE FALSE
    OBVIOUS
  <2>1. node.states \cap StartStates(d) # {}
    BY <1>1, <1>4
  <2>2. CASE node.fwd /\ Bidirectional
    BY <2>1, <2>2 DEF SwapToBwdPhase
  <2>3. CASE node.fwd /\ ~Bidirectional
    <3>1. "fw" \in Searches /\ "bw" \notin Searches
      BY <2>3, FoundFacts DEF NodeInv, FwdNode, Rooted
    <3>2. node.h = 0 /\ node.g = 0
      BY <2>3, <3>1 DEF NodeInv, FwdNode
    <3>3. QED
      BY <2>1, <2>3, <3>2 DEF IsSolution, F
  <2>4. CASE ~node.fwd
    <3>1. node.h = 0 /\ node.g = 0
      BY <2>4 DEF NodeInv, BwdNode
    <3>2. QED
      BY <2>1, <2>4, <3>1 DEF IsSolution, F
  <2>5. QED
    BY <1>2, <2>2, <2>3, <2>4
<1>6. PICK i \in Operators :
          /\ task.operators[i].cost <= left
          /\ \E r \in closed[d][left - task.operators[i].cost] :
                /\ r \in State
                /\ IF d = "fw" THEN <<r, s>> \in task.operators[i].rel
                               ELSE <<s, r>> \in task.operators[i].rel
  <2>1. PICK e, g : e = d /\ g = left
    OBVIOUS
  <2> HIDE DEF d, left
  <2>2. e \in Dir /\ g \in Level /\ Traceable(e, g, s)
    BY <1>3, <2>1
  <2>3. \/ g = 0 /\ s \in Source(task, e)
        \/ \E i \in Operators :
                 /\ task.operators[i].cost <= g
                 /\ \E r \in closed[e][g - task.operators[i].cost] :
                       /\ r \in State
                       /\ IF e = "fw" THEN <<r, s>> \in task.operators[i].rel
                                      ELSE <<s, r>> \in task.operators[i].rel
    BY <1>2, <2>2, StepBack
  <2>4. QED
    BY <1>5, <2>1, <2>3
<1>7. i \in Steps
  <2>1. task.operators[i].cost \in Nat
    BY FoundFacts, OperatorFacts DEF Rooted
  <2>2. PICK r \in closed[d][left - task.operators[i].cost] :
                /\ r \in State
                /\ IF d = "fw" THEN <<r, s>> \in task.operators[i].rel
                               ELSE <<s, r>> \in task.operators[i].rel
    BY <1>6
  <2>3. ~ (left - task.operators[i].cost < 0)
    BY <1>2, <1>6, <2>1
  <2>4. r \in ClosedStep(node, i)
    BY <1>1, <2>2, <2>3 DEF ClosedStep, RegressOperator, ApplyOperator
  <2>5. QED
    BY <2>4
<1>8. Steps \in SUBSET Nat
  BY FoundFacts, ElementFacts DEF Rooted, Operators, TaskOK, HasOperators
<1> HIDE DEF Steps
<1>9. PICK first : first \in Steps /\ \A j \in Steps : first <= j
  BY <1>7, <1>8, NatHasLeast
<1>10. \A j \in Operators : Unvisited(node, ClosedStep(node, j)) = ClosedStep(node, j)
  BY DEF Unvisited
<1>11. \A j \in Steps : ~ (j < first)
  BY <1>8, <1>9
<1>12. Pushed(NewNode(node, first)) \in ExpandActions(node)
  BY <1>9, <1>10, <1>11 DEF ExpandActions, Steps, Operators
<1>13. QED
  BY <1>12

\* An operator leads on to states that can be traced as well.
LEMMA AliveNewNode ==
    ASSUME Rooted, NEW f \in Nat, ~task.simple, NEW node, NodeInv(node, f), Alive(node),
           NEW i \in Operators, ClosedStep(node, i) # {}
    PROVE  Alive(NewNode(node, i))
<1>1. PICK new : new = NewNode(node, i)
  OBVIOUS
<1>2. PICK c : c = task.operators[i].cost
  OBVIOUS
<1>3. /\ new.fwd = node.fwd /\ new.states = ClosedStep(node, i) /\ new \in NodeType
      /\ node.states \in StateSets /\ node.prefix \in Seq(Operators)
      /\ c \in Nat /\ TaskOK /\ new.g \in Level /\ new.h \in Level
  <2>1. Found
    BY DEF Rooted
  <2>2. new \in NodeType /\ new.fwd = node.fwd /\ new.states = Unvisited(node, ClosedStep(node, i))
    BY <1>1, <2>1, NewNodeFields
  <2>3. TaskOK /\ c \in Nat
    BY <1>2, <2>1, OperatorFacts, FoundFacts
  <2>4. QED
    BY <2>2, <2>3 DEF Unvisited, NodeInv, NodeType, OperatorSeqs
<1>4. CASE node.fwd
  <2>1. /\ new.g = node.g - c /\ new.h = node.h
        /\ new.prefix = <<i>> \o node.prefix
    BY <1>1, <1>2, <1>4, NewNodeFields DEF Rooted
  <2>2. ASSUME NEW s \in new.states PROVE Traceable("fw", new.g, s)
    <3>1. s \in closed["fw"][new.g]
      BY <1>2, <1>3, <1>4, <2>1, <2>2 DEF ClosedStep
    <3>2. QED
      BY <1>3, <3>1 DEF Rooted, PlanReconstructible, Dir
  <2>3. ASSUME "bw" \in Searches, NEW s \in new.states
        PROVE  \E y : RunPlan({s}, new.prefix) = {y} /\ Traceable("bw", new.h, y)
    <3>1. PICK x \in node.states : <<s, x>> \in task.operators[i].rel /\ s \in State
      BY <1>3, <1>4, <2>3 DEF ClosedStep, RegressOperator
    <3>2. x \in State
      BY <1>3 DEF StateSets
    <3>3. PICK y : RunPlan({x}, node.prefix) = {y} /\ Traceable("bw", node.h, y)
      BY <1>4, <2>3, <3>1 DEF Alive
    <3>4. \A e, o \in task.operators[i].rel : e[1] = o[1] => e = o
      BY <1>3 DEF TaskOK, HasOperators, Operators
    <3>5. ApplyOperator(i, {s}) = {x}
      <4>1. ASSUME NEW z, <<s, z>> \in task.operators[i].rel PROVE z = x
        <5>1. <<s, z>> = <<s, x>>
          BY <3>1, <3>4, <4>1
        <5>2. QED
          BY <5>1
      <4>2. QED
        BY <3>1, <3>2, <4>1 DEF ApplyOperator
    <3>6. PICK S : S = {s} /\ S \in StateSets
      BY <3>1 DEF StateSets
    <3>7. RunPlan(S, <<i>> \o node.prefix) = RunPlan(ApplyOperator(i, S), node.prefix)
      BY <1>3, <3>6, ConsRun
    <3>8. QED
      BY <2>1, <3>3, <3>5, <3>6, <3>7
  <2>4. Alive(new)
    BY <1>3, <1>4, <2>2, <2>3 DEF Alive
  <2>5. QED
    BY <1>1, <2>4
<1>5. CASE ~node.fwd
  <2>1. new.h = node.h - c
    BY <1>1, <1>2, <1>5, NewNodeFields DEF Rooted
  <2>2. ASSUME NEW s \in new.states PROVE Traceable("bw", new.h, s)
    <3>1. s \in closed["bw"][new.h]
      BY <1>2, <1>3, <1>5, <2>1, <2>2 DEF ClosedStep
    <3>2. QED
      BY <1>3, <3>1 DEF Rooted, PlanReconstructible, Dir
  <2>3. Alive(new)
    BY <1>3, <1>5, <2>2 DEF Alive
  <2>4. QED
    BY <1>1, <2>3
<1>6. QED
  BY <1>4, <1>5

\* Where the first phase has led to, the second one can start; and what is
\* pushed is not about to swap.
LEMMA AlivePushed ==
    ASSUME Rooted, NEW f \in Nat, NEW new, NodeInv(new, f), Alive(new)
    PROVE  Alive(Pushed(new)) /\ ~SwapToBwdPhase(Pushed(new))
<1>1. CASE ~SwapToBwdPhase(new)
  BY <1>1 DEF Pushed
<1>2. CASE SwapToBwdPhase(new)
  <2>1. new.fwd /\ "fw" \in Searches /\ "bw" \in Searches
    BY <1>2, FoundFacts DEF SwapToBwdPhase, Rooted
  <2>2. StartStates("fw") = {task.init}
    BY <2>1, StartsFromSource DEF Source
  <2>3. task.init \in new.states
    BY <1>2, <2>2 DEF SwapToBwdPhase
  <2>4. PICK y : RunPlan({task.init}, new.prefix) = {y} /\ Traceable("bw", new.h, y)
    BY <2>1, <2>3 DEF Alive
  <2>5. PICK pushed : pushed = Pushed(new)
    OBVIOUS
  <2>6. pushed.fwd = FALSE /\ pushed.states = {y} /\ pushed.h = new.h
    BY <1>2, <2>2, <2>4, <2>5 DEF Pushed, NodeInv, NodeType
  <2>7. Alive(pushed) /\ ~SwapToBwdPhase(pushed)
    BY <2>4, <2>6 DEF Alive, SwapToBwdPhase
  <2>8. QED
    BY <2>5, <2>7
<1>3. QED
  BY <1>1, <1>2

\* expand_actions pushes such nodes only.
LEMMA AliveExpanded ==
    ASSUME Rooted, NEW f \in Nat, ~task.simple, NEW node, NodeInv(node, f), Alive(node),
           NEW n \in ExpandActions(node)
    PROVE  Alive(n) /\ ~SwapToBwdPhase(n)
<1>1. PICK i \in Operators : /\ Unvisited(node, ClosedStep(node, i)) # {}
                             /\ n = Pushed(NewNode(node, i))
  BY DEF ExpandActions, Operators
<1>2. ClosedStep(node, i) # {}
  BY <1>1 DEF Unvisited
<1>3. PICK new : new = NewNode(node, i)
  OBVIOUS
<1>4. NodeInv(new, f) /\ Alive(new)
  BY <1>2, <1>3, NewNodeInv, AliveNewNode DEF Rooted
<1>5. QED
  BY <1>1, <1>3, <1>4, AlivePushed

\* The nodes that reconstruction starts from, one of which is not about to swap.
LEMMA AliveAtFirst ==
    ASSUME Rooted, NEW cuts, cuts \subseteq Cuts, cuts # {},
           \A sol \in cuts : TraceableCut(sol)
    PROVE  /\ \A n \in InitialNodes(cuts) : Alive(n)
           /\ \E n \in InitialNodes(cuts) : ~SwapToBwdPhase(n)
<1> DEFINE Start(sol) == [g |-> sol.g, h |-> sol.h, layer |-> INT_MAX, states |-> sol.cut,
                          visited |-> {}, fwd |-> "fw" \in Searches,
                          prefix |-> <<>>, suffix |-> <<>>]
           Swapped(sol) == [Start(sol) EXCEPT !.states = StartStates("fw"),
                                              !.visited = StartStates("fw"), !.fwd = FALSE]
<1>1. InitialNodes(cuts) = {Start(sol) : sol \in cuts} \cup
                           {Swapped(sol) : sol \in {sol \in cuts : SwapToBwdPhase(Start(sol))}}
  BY DEF InitialNodes
<1>2. ASSUME NEW sol \in cuts PROVE Alive(Start(sol))
  <2>1. PICK n : n = Start(sol)
    OBVIOUS
  <2>2. /\ n.g = sol.g /\ n.h = sol.h /\ n.states = sol.cut /\ n.fwd = ("fw" \in Searches)
        /\ n.prefix = <<>>
    BY <2>1
  <2>3. ASSUME NEW s \in n.states
        PROVE  /\ RunPlan({s}, n.prefix) = {s}
               /\ Traceable("fw", n.g, s) /\ Traceable("bw", n.h, s)
    <3>1. s \in State
      BY <2>2, <2>3 DEF Cuts
    <3>2. PICK S : S = {s} /\ S \in StateSets
      BY <3>1 DEF StateSets
    <3>3. RunPlan(S, <<>>) = S
      BY <3>2, EmptyRun, FoundFacts DEF Rooted
    <3>4. QED
      BY <2>2, <2>3, <3>2, <3>3 DEF TraceableCut
  <2>4. n.states # {}
    BY <2>2 DEF TraceableCut
  <2>5. Alive(n)
    BY <2>3, <2>4 DEF Alive
  <2>6. QED
    BY <2>1, <2>5
<1>3. ASSUME NEW sol \in cuts, SwapToBwdPhase(Start(sol))
      PROVE  Alive(Swapped(sol)) /\ ~SwapToBwdPhase(Swapped(sol))
  <2>1. "fw" \in Searches /\ sol.cut \cap StartStates("fw") # {}
    BY <1>3, FoundFacts DEF SwapToBwdPhase, Rooted
  <2>2. StartStates("fw") = {task.init}
    BY <2>1, StartsFromSource DEF Source
  <2>3. Traceable("bw", sol.h, task.init)
    BY <2>1, <2>2 DEF TraceableCut
  <2>4. PICK n : n = Swapped(sol)
    OBVIOUS
  <2>5. n.h = sol.h /\ n.states = {task.init} /\ n.fwd = FALSE
    BY <2>2, <2>4
  <2>6. Alive(n) /\ ~SwapToBwdPhase(n)
    BY <2>3, <2>5 DEF Alive, SwapToBwdPhase
  <2>7. QED
    BY <2>4, <2>6
<1> HIDE DEF Start, Swapped
<1>4. PICK sol \in cuts : TRUE
  OBVIOUS
<1>5. \E n \in InitialNodes(cuts) : ~SwapToBwdPhase(n)
  BY <1>1, <1>3, <1>4
<1>6. QED
  BY <1>1, <1>2, <1>3, <1>5

\* What makes PlanFound inductive.
FoundInv ==
    /\ registry = "reconstruct" /\ ~task.simple =>
          /\ \A n \in queue : Alive(n)
          /\ \E n \in queue : ~SwapToBwdPhase(n)
    /\ PlanFound

\* The engine answers between two steps of the search.
LEMMA AnswerKeepsClosed ==
    ASSUME [Next]_vars, status' # status PROVE UNCHANGED <<closed, task>>
<1>1. [LossyNext]_vars
  BY NextIsLossy
<1>2. CASE Step
  BY <1>2 DEF Step, StepEngine
<1>3. ASSUME NEW d \in Searches,
             BucketReady(d) \/ Exhausted(d) \/ PopSome(d) \/ Prepare(d) \/ PrepareTruncated(d)
      PROVE  status' = status
  BY <1>3 DEF BucketReady, Exhausted, PopSome, Close, Prepare, PrepareTruncated, engine
<1>4. ASSUME NEW d \in Searches, Expand(d) \/ ExpandTruncated(d) \/ Finish(d)
      PROVE  status' = status
  BY <1>4 DEF Expand, ExpandTruncated, Finish, engine
<1>5. CASE Return \/ Done \/ UNCHANGED vars
  BY <1>5 DEF Return, Done, vars, engine
<1>6. QED
  BY <1>1, <1>2, <1>3, <1>4, <1>5 DEF LossyNext

\* Where a node can be traced to depends on the closed lists.
LEMMA StableAlive ==
    ASSUME UNCHANGED <<task, closed>>
    PROVE  /\ \A n : Alive(n)' = Alive(n)
           /\ \A d, g, s : Traceable(d, g, s)' = Traceable(d, g, s)
<1>1. ASSUME NEW d, NEW g, NEW s PROVE Traceable(d, g, s)' = Traceable(d, g, s)
  BY DEF Traceable
<1>2. ASSUME NEW S, NEW ops PROVE RunPlan(S, ops)' = RunPlan(S, ops)
  BY DEF RunPlan, ApplyOperator
<1>3. ASSUME NEW n PROVE Alive(n)' = Alive(n)
  BY <1>1, <1>2 DEF Alive
<1>4. QED
  BY <1>1, <1>3

\* FoundInv is inductive, given RegistryInv.
LEMMA FoundInvNext ==
    /\ SearchInv /\ SearchInv' /\ AnswerOptimal' /\ RegistryInv /\ RegistryInv'
    /\ FoundInv /\ [RegistryNext]_allVars
    => FoundInv'
<1> SUFFICES ASSUME SearchInv, SearchInv', AnswerOptimal', RegistryInv, RegistryInv',
                    FoundInv, [RegistryNext]_allVars
             PROVE  FoundInv'
  OBVIOUS
<1>1. task' = task
  BY RegistryKeepsTask
<1>2. CASE task.simple
  BY <1>1, <1>2 DEF FoundInv, PlanFound
<1>3. CASE ~task.simple
  <2>1. Rooted
    BY DEF SearchInv, Rooted, Found, RegistryInv, TraceInv, ControlInv, SourceInv
  <2>2. CASE Search
    <3>1. /\ [Next]_vars /\ status = "IN_PROGRESS" /\ registry = "idle"
          /\ (registry' = registry \/ status' = "SOLVED")
      BY <2>2 DEF Search
    <3>2. CASE status' # "SOLVED"
      BY <3>1, <3>2 DEF FoundInv, PlanFound
    <3>3. CASE status' = "SOLVED"
      <4>1. queue' = InitialNodes(sym_cuts') /\ registry' = "reconstruct"
        BY <2>2, <3>3 DEF Search
      <4>2. UNCHANGED <<closed, task>>
        BY <3>1, <3>3, AnswerKeepsClosed
      <4>3. PICK cuts : cuts = sym_cuts'
        OBVIOUS
      <4>4. cuts \subseteq Cuts /\ cuts # {}
        BY <3>3, <4>3 DEF SearchInv, TypeOK, EngineTypeOK, AnswerOptimal
      <4>5. \A sol \in cuts : TraceableCut(sol)
        <5>1. PlanReconstructible' /\ CutInv'
          BY DEF SearchInv, TraceInv, RegistryInv
        <5>2. ASSUME NEW sol \in cuts, NEW s \in sol.cut
              PROVE  Traceable("fw", sol.g, s) /\ Traceable("bw", sol.h, s)
          <6>1. Traceable("fw", sol.g, s)' /\ Traceable("bw", sol.h, s)'
            BY <4>3, <5>1, <5>2 DEF PlanReconstructible
          <6>2. QED
            BY <4>2, <6>1, StableAlive
        <5>3. QED
          BY <4>3, <5>1, <5>2 DEF TraceableCut, CutInv
      <4>6. /\ \A n \in queue' : Alive(n)
            /\ \E n \in queue' : ~SwapToBwdPhase(n)
        BY <2>1, <4>1, <4>3, <4>4, <4>5, AliveAtFirst
      <4>7. \A n \in queue' : Alive(n)'
        BY <4>2, <4>6, StableAlive
      <4>8. UNCHANGED zeroCostClosed
        BY <2>2, <4>2 DEF Search
      <4>9. \A n : SwapToBwdPhase(n)' = SwapToBwdPhase(n)
        BY <4>2, <4>8 DEF SwapToBwdPhase, StartStates
      <4>10. QED
        BY <4>1, <4>6, <4>7, <4>9 DEF FoundInv, PlanFound
    <3>4. QED
      BY <3>2, <3>3
  <2>3. ASSUME UNCHANGED <<vars, zeroCostClosed>>
        PROVE  /\ \A n : Alive(n)' = Alive(n)
               /\ \A n : SwapToBwdPhase(n)' = SwapToBwdPhase(n)
    <3>1. UNCHANGED <<task, closed>>
      BY <2>3 DEF vars, engine, search
    <3>2. \A n : SwapToBwdPhase(n)' = SwapToBwdPhase(n)
      BY <2>3, <3>1 DEF SwapToBwdPhase, StartStates
    <3>3. QED
      BY <3>1, <3>2, StableAlive
  <2>4. CASE ReconstructNode
    <3>1. /\ \A n \in queue : Alive(n) /\ NodeInv(n, Optimum)
          /\ \E n \in queue : ~SwapToBwdPhase(n)
      BY <1>3, <2>4 DEF ReconstructNode, FoundInv, RegistryInv
    <3>2. PICK top \in Top(queue) : \E states \in Picked(top) :
             LET node == Narrowed(top, states)
             IN IF IsSolution(node)
                THEN /\ plan' = {node.prefix \o node.suffix}
                     /\ queue' = {}
                     /\ registry' = "returned"
                ELSE /\ queue' = Waiting(top, states) \cup ExpandActions(node)
                     /\ UNCHANGED <<plan, registry>>
      BY <2>4 DEF ReconstructNode
    <3>3. top \in queue /\ NodeInv(top, Optimum) /\ Alive(top)
      BY <3>1 DEF Top
    <3>4. Narrowed(top, top.states) = top
      BY <1>3, <3>3 DEF Narrowed, NodeInv, NodeType
    <3>5. Waiting(top, top.states) = queue \ {top}
      <4>1. [top EXCEPT !.states = @ \ top.states].states = {}
        BY <3>3 DEF NodeInv, NodeType
      <4>2. QED
        BY <4>1 DEF Waiting
    <3>6. IF IsSolution(top)
          THEN plan' # {} /\ registry' = "returned"
          ELSE /\ queue' = (queue \ {top}) \cup ExpandActions(top)
               /\ UNCHANGED <<plan, registry>>
      BY <1>3, <3>2, <3>4, <3>5 DEF Picked
    <3>7. CASE IsSolution(top)
      BY <3>6, <3>7 DEF FoundInv, PlanFound
    <3>8. CASE ~IsSolution(top)
      <4>1. queue' = (queue \ {top}) \cup ExpandActions(top) /\ registry' = "reconstruct"
        BY <2>4, <3>6, <3>8 DEF ReconstructNode
      <4>2. \A n \in ExpandActions(top) : Alive(n) /\ ~SwapToBwdPhase(n)
        BY <1>3, <2>1, <3>3, AliveExpanded, FoundFacts DEF Rooted
      <4>3. \E n \in queue' : ~SwapToBwdPhase(n)
        <5>1. CASE SwapToBwdPhase(top)
          BY <3>1, <4>1, <5>1
        <5>2. CASE ~SwapToBwdPhase(top)
          <6>1. ExpandActions(top) # {}
            BY <1>3, <2>1, <3>3, <3>8, <5>2, AliveIsExpanded, FoundFacts DEF Rooted
          <6>2. QED
            BY <4>1, <4>2, <6>1
        <5>3. QED
          BY <5>1, <5>2
      <4>4. \A n \in queue' : Alive(n)
        BY <3>1, <4>1, <4>2
      <4>5. UNCHANGED <<vars, zeroCostClosed>>
        BY <2>4 DEF ReconstructNode
      <4>6. QED
        BY <2>3, <4>1, <4>3, <4>4, <4>5 DEF FoundInv, PlanFound
    <3>9. QED
      BY <3>7, <3>8
  <2>5. CASE GiveUp
    BY <1>3, <2>5 DEF GiveUp, FoundInv
  <2>6. CASE UNCHANGED allVars
    <3>1. UNCHANGED <<vars, zeroCostClosed>> /\ UNCHANGED <<registry, queue, plan, task>>
      BY <2>6 DEF allVars, registryVars, vars, engine, search
    <3>2. QED
      BY <2>3, <3>1 DEF FoundInv, PlanFound
  <2>7. QED
    BY <2>2, <2>4, <2>5, <2>6 DEF RegistryNext, Answered
<1>4. QED
  BY <1>2, <1>3

\* When reconstruction returns, it has a plan, unless plans are to be simple: the
\* operators that are skipped after one that makes progress are never needed, and
\* where the first phase ends the second one can begin.
THEOREM PlanIsFound == RegistrySpec => []PlanFound
<1>1. RegistryInit => FoundInv
  BY DEF RegistryInit, FoundInv, PlanFound
<1>2. FoundInv => PlanFound
  BY DEF FoundInv
<1>3. RegistrySpec => []AnswerOptimal
  BY RegistrySearches, AnswersAreOptimal, PTL
<1>4. RegistrySpec => []FoundInv
  BY <1>1, <1>3, RegistryInvariant, FoundInvNext, PTL DEF RegistrySpec
<1>5. QED
  BY <1>2, <1>4, PTL

-----------------------------------------------------------------------------
(* Types *)

\* Nodes stand for something: for states, and in the first phase the operators
\* found so far can be executed in each of them.
Executable(node) ==
    /\ node.states # {}
    /\ node.fwd => \A s \in node.states : RunPlan({s}, node.prefix) # {}

\* An operator leads from such a node to another one,
LEMMA NewNodeExecutable ==
    ASSUME Found, NEW f \in Nat, NEW node, NodeInv(node, f), Executable(node), NEW i \in Operators,
           Unvisited(node, ClosedStep(node, i)) # {}
    PROVE  Executable(NewNode(node, i))
<1>1. PICK new : new = NewNode(node, i)
  OBVIOUS
<1>2. ClosedStep(node, i) # {}
  BY DEF Unvisited
<1>3. /\ new.states = Unvisited(node, ClosedStep(node, i)) /\ new.fwd = node.fwd
      /\ node.fwd => new.prefix = <<i>> \o node.prefix
  BY <1>1, <1>2, NewNodeFields
<1>4. ASSUME node.fwd, NEW s \in new.states PROVE RunPlan({s}, new.prefix) # {}
  <2>1. s \in RegressOperator(i, node.states)
    BY <1>3, <1>4 DEF ClosedStep, Unvisited
  <2>2. PICK y \in node.states : <<s, y>> \in task.operators[i].rel /\ s \in State
    BY <2>1 DEF RegressOperator
  <2>3. node.states \in StateSets /\ node.prefix \in Seq(Operators) /\ TaskOK
    BY FoundFacts DEF NodeInv, NodeType, OperatorSeqs
  <2>4. y \in State
    BY <2>3 DEF StateSets
  <2>5. {y} \subseteq ApplyOperator(i, {s})
    BY <2>2, <2>4 DEF ApplyOperator
  <2>6. PICK S, Y, T : S = {s} /\ Y = {y} /\ T = ApplyOperator(i, S)
    OBVIOUS
  <2>7. S \in StateSets /\ Y \in StateSets /\ T \in StateSets /\ Y \subseteq T
    BY <2>2, <2>3, <2>4, <2>5, <2>6, FoundFacts, OperatorFacts
  <2>8. RunPlan(S, <<i>> \o node.prefix) = RunPlan(T, node.prefix)
    BY <2>3, <2>6, <2>7, ConsRun
  <2>9. RunPlan(Y, node.prefix) \subseteq RunPlan(T, node.prefix)
    BY <2>3, <2>7, RunMonotone
  <2>10. RunPlan(Y, node.prefix) # {}
    BY <1>4, <2>2, <2>6 DEF Executable
  <2>11. QED
    BY <1>3, <1>4, <2>6, <2>8, <2>9, <2>10
<1>5. Executable(new)
  BY <1>3, <1>4 DEF Executable
<1>6. QED
  BY <1>1, <1>5

\* ... where the first phase has led to there is a state to go on from,
LEMMA PushedExecutable ==
    ASSUME Found, NEW f \in Nat, NEW new, NodeInv(new, f), Executable(new)
    PROVE  Executable(Pushed(new))
<1>1. CASE ~SwapToBwdPhase(new)
  BY <1>1 DEF Pushed
<1>2. CASE SwapToBwdPhase(new)
  <2>1. new.fwd /\ "fw" \in Searches /\ new \in NodeType
    BY <1>2, FoundFacts DEF SwapToBwdPhase, NodeInv
  <2>2. PICK s \in new.states : s \in StartStates("fw")
    BY <1>2 DEF SwapToBwdPhase
  <2>3. PICK S, T : S = {s} /\ T = StartStates("fw")
    OBVIOUS
  <2>4. /\ TaskOK /\ S \in StateSets /\ T \in StateSets /\ S \subseteq T
        /\ new.prefix \in Seq(Operators)
    BY <2>1, <2>2, <2>3, FoundFacts DEF NodeType, StateSets, OperatorSeqs
  <2>5. RunPlan(S, new.prefix) \subseteq RunPlan(T, new.prefix)
    BY <2>4, RunMonotone
  <2>6. RunPlan(S, new.prefix) # {}
    BY <2>1, <2>2, <2>3 DEF Executable
  <2>7. PICK pushed : pushed = Pushed(new)
    OBVIOUS
  <2>8. pushed.fwd = FALSE /\ pushed.states = RunPlan(T, new.prefix)
    BY <1>2, <2>1, <2>3, <2>7 DEF Pushed, NodeType
  <2>9. Executable(pushed)
    BY <2>5, <2>6, <2>8 DEF Executable
  <2>10. QED
    BY <2>7, <2>9
<1>3. QED
  BY <1>1, <1>2

\* ... so expand_actions pushes such nodes only,
LEMMA ExpandedExecutable ==
    ASSUME Found, NEW f \in Nat, NEW node, NodeInv(node, f), Executable(node),
           NEW n \in ExpandActions(node)
    PROVE  Executable(n)
<1>1. PICK i \in Operators : /\ Unvisited(node, ClosedStep(node, i)) # {}
                             /\ n = Pushed(NewNode(node, i))
  BY DEF ExpandActions, Operators
<1>2. ClosedStep(node, i) # {}
  BY <1>1 DEF Unvisited
<1>3. PICK new : new = NewNode(node, i)
  OBVIOUS
<1>4. NodeInv(new, f) /\ Executable(new)
  BY <1>1, <1>2, <1>3, NewNodeInv, NewNodeExecutable
<1>5. QED
  BY <1>1, <1>3, <1>4, PushedExecutable

\* ... and so does reconstruct_plans, which splits states off a node,
LEMMA SplitExecutable ==
    ASSUME Found, NEW f \in Nat, NEW top, NodeInv(top, f), Executable(top),
           NEW states \in Picked(top)
    PROVE  Executable(Narrowed(top, states))
<1>1. PICK node : node = Narrowed(top, states)
  OBVIOUS
<1>2. node.states = states /\ node.fwd = top.fwd /\ node.prefix = top.prefix
  BY <1>1 DEF Narrowed, NodeInv, NodeType
<1>3. states \subseteq top.states /\ states # {}
  BY DEF Picked, Executable
<1>4. Executable(node)
  BY <1>2, <1>3 DEF Executable
<1>5. QED
  BY <1>1, <1>4

\* ... leaves the rest of it waiting,
LEMMA WaitingExecutable ==
    ASSUME NEW f, \A n \in queue : NodeInv(n, f) /\ Executable(n), NEW top \in queue, NEW states,
           NEW n \in Waiting(top, states)
    PROVE  Executable(n)
<1>1. CASE n \in queue
  BY <1>1
<1>2. CASE n = [top EXCEPT !.states = @ \ states] /\ n.states # {}
  <2>1. top \in NodeType /\ Executable(top)
    BY DEF NodeInv
  <2>2. n.states \subseteq top.states /\ n.fwd = top.fwd /\ n.prefix = top.prefix
    BY <1>2, <2>1 DEF NodeType
  <2>3. QED
    BY <1>2, <2>1, <2>2 DEF Executable
<1>3. QED
  BY <1>1, <1>2 DEF Waiting

\* ... and starts from the registered cut.
LEMMA InitialExecutable ==
    ASSUME Found, NEW cuts, cuts \subseteq Cuts, \A sol \in cuts : sol.cut # {},
           NEW n \in InitialNodes(cuts)
    PROVE  Executable(n)
<1> DEFINE Start(sol) == [g |-> sol.g, h |-> sol.h, layer |-> INT_MAX, states |-> sol.cut,
                          visited |-> {}, fwd |-> "fw" \in Searches,
                          prefix |-> <<>>, suffix |-> <<>>]
           Swapped(sol) == [Start(sol) EXCEPT !.states = StartStates("fw"),
                                              !.visited = StartStates("fw"), !.fwd = FALSE]
<1>1. PICK sol \in cuts : \/ n = Start(sol)
                          \/ n = Swapped(sol) /\ SwapToBwdPhase(Start(sol))
  BY DEF InitialNodes
<1>2. CASE n = Start(sol)
  <2>1. n.states = sol.cut /\ n.prefix = <<>>
    BY <1>2
  <2>2. ASSUME NEW s \in n.states PROVE RunPlan({s}, n.prefix) # {}
    <3>1. PICK S : S = {s}
      OBVIOUS
    <3>2. S \in StateSets /\ TaskOK
      BY <2>1, <3>1, FoundFacts DEF Cuts, StateSets
    <3>3. RunPlan(S, <<>>) = S
      BY <3>2, EmptyRun
    <3>4. QED
      BY <2>1, <3>1, <3>3
  <2>3. QED
    BY <2>1, <2>2 DEF Executable
<1>3. CASE n = Swapped(sol) /\ SwapToBwdPhase(Start(sol))
  <2>1. n.states = StartStates("fw") /\ n.fwd = FALSE /\ StartStates("fw") # {}
    BY <1>3 DEF SwapToBwdPhase
  <2>2. QED
    BY <2>1 DEF Executable
<1>4. QED
  BY <1>1, <1>2, <1>3

\* What makes RegistryTypeOK inductive.
ExecutableInv ==
    /\ registry \in {"idle", "reconstruct", "returned"}
    /\ \A node \in queue : Executable(node)
    /\ plan \subseteq OperatorSeqs

\* ExecutableInv is inductive, given RegistryInv.
LEMMA ExecutableInvNext ==
    /\ SearchInv /\ SearchInv' /\ RegistryInv /\ RegistryInv'
    /\ ExecutableInv /\ [RegistryNext]_allVars
    => ExecutableInv'
<1> SUFFICES ASSUME SearchInv, SearchInv', RegistryInv, RegistryInv', ExecutableInv,
                    [RegistryNext]_allVars
             PROVE  ExecutableInv'
  OBVIOUS
<1>1. task' = task
  BY RegistryKeepsTask
<1>2. Found
  BY DEF SearchInv, Found, RegistryInv
<1>3. ASSUME registry' \in {"idle", "reconstruct", "returned"},
             \A n \in queue' : Executable(n), plan' \subseteq OperatorSeqs
      PROVE  ExecutableInv'
  <2>1. ASSUME NEW S, NEW ops PROVE RunPlan(S, ops)' = RunPlan(S, ops)
    BY <1>1 DEF RunPlan, ApplyOperator
  <2>2. \A n : Executable(n)' = Executable(n)
    BY <2>1 DEF Executable
  <2>3. OperatorSeqs' = OperatorSeqs
    BY <1>1 DEF OperatorSeqs, Operators
  <2>4. QED
    BY <1>3, <2>2, <2>3 DEF ExecutableInv
<1>4. /\ registry \in {"idle", "reconstruct", "returned"}
      /\ \A n \in queue : NodeInv(n, Optimum) /\ Executable(n)
      /\ plan \subseteq OperatorSeqs
  BY DEF ExecutableInv, RegistryInv
<1>5. CASE Search
  <2>1. queue = {} /\ plan' = plan
    BY <1>5 DEF Search, RegistryInv
  <2>2. CASE status' = "SOLVED"
    <3>1. queue' = InitialNodes(sym_cuts') /\ registry' = "reconstruct"
      BY <1>5, <2>2 DEF Search
    <3>2. PICK cuts : cuts = sym_cuts'
      OBVIOUS
    <3>3. cuts \subseteq Cuts /\ \A sol \in cuts : sol.cut # {}
      BY <3>2 DEF SearchInv, TypeOK, EngineTypeOK, RegistryInv, CutInv
    <3>4. \A n \in queue' : Executable(n)
      BY <1>2, <3>1, <3>2, <3>3, InitialExecutable
    <3>5. QED
      BY <1>3, <1>4, <2>1, <3>1, <3>4
  <2>3. CASE status' # "SOLVED"
    <3>1. queue' = queue /\ registry' = registry
      BY <1>5, <2>3 DEF Search
    <3>2. QED
      BY <1>3, <1>4, <2>1, <3>1
  <2>4. QED
    BY <2>2, <2>3
<1>6. CASE ReconstructNode
  <2>1. PICK top \in Top(queue) : \E states \in Picked(top) :
             LET node == Narrowed(top, states)
             IN IF IsSolution(node)
                THEN /\ plan' = {node.prefix \o node.suffix}
                     /\ queue' = {}
                     /\ registry' = "returned"
                ELSE /\ queue' = Waiting(top, states) \cup ExpandActions(node)
                     /\ UNCHANGED <<plan, registry>>
    BY <1>6 DEF ReconstructNode
  <2>2. PICK states \in Picked(top) :
             LET node == Narrowed(top, states)
             IN IF IsSolution(node)
                THEN /\ plan' = {node.prefix \o node.suffix}
                     /\ queue' = {}
                     /\ registry' = "returned"
                ELSE /\ queue' = Waiting(top, states) \cup ExpandActions(node)
                     /\ UNCHANGED <<plan, registry>>
    BY <2>1
  <2>3. PICK node : node = Narrowed(top, states)
    OBVIOUS
  <2>4. top \in queue /\ NodeInv(top, Optimum) /\ Executable(top)
    BY <1>4 DEF Top
  <2>5. NodeInv(node, Optimum) /\ Executable(node)
    BY FoundFacts, <1>2, <2>3, <2>4, NarrowedNode, SplitExecutable
  <2>6. CASE IsSolution(node)
    <3>1. plan' = {node.prefix \o node.suffix} /\ queue' = {} /\ registry' = "returned"
      BY <2>2, <2>3, <2>6
    <3>2. node.prefix \in Seq(Operators) /\ node.suffix \in Seq(Operators)
      BY <2>5 DEF NodeInv, NodeType, OperatorSeqs
    <3>3. node.prefix \o node.suffix \in OperatorSeqs
      BY <3>2 DEF OperatorSeqs
    <3>4. QED
      BY <1>3, <3>1, <3>3
  <2>7. CASE ~IsSolution(node)
    <3>1. /\ queue' = Waiting(top, states) \cup ExpandActions(node)
          /\ UNCHANGED <<plan, registry>>
      BY <2>2, <2>3, <2>7
    <3>2. \A n \in Waiting(top, states) : Executable(n)
      BY <1>4, <2>4, WaitingExecutable
    <3>3. \A n \in ExpandActions(node) : Executable(n)
      BY FoundFacts, <1>2, <2>5, ExpandedExecutable
    <3>4. QED
      BY <1>3, <1>4, <3>1, <3>2, <3>3
  <2>8. QED
    BY <2>6, <2>7
<1>7. CASE GiveUp
  BY <1>3, <1>4, <1>7 DEF GiveUp
<1>8. CASE UNCHANGED allVars
  BY <1>3, <1>4, <1>8 DEF allVars, registryVars
<1>9. QED
  BY <1>5, <1>6, <1>7, <1>8 DEF RegistryNext, Answered

\* The nodes that wait in the queue of reconstruct_plans are well formed: no
\* g-value or h-value gets below zero, no layer is negative, and none of them has
\* run out of states, though states are split off it, visited ones are removed,
\* and the second phase starts wherever the operators of the first one lead to.
THEOREM RegistryTypeCorrect == RegistrySpec => []RegistryTypeOK
<1>1. RegistryInit => ExecutableInv
  BY DEF RegistryInit, ExecutableInv
<1>2. SearchInv /\ RegistryInv /\ ExecutableInv => RegistryTypeOK
  <2> SUFFICES ASSUME SearchInv, RegistryInv, ExecutableInv PROVE RegistryTypeOK
    OBVIOUS
  <2>1. TypeOK /\ Found
    BY DEF SearchInv, Found, RegistryInv
  <2>2. zeroCostClosed \in [Searches -> [Level -> Seq(SUBSET State)]]
    BY DEF RegistryInv, LayerInv, StateSets
  <2>3. OperatorSeqs \subseteq Seq(Nat)
    <3>1. PICK J : J = [cost : DOMAIN task.ops, rel : SUBSET (State \X State)]
      OBVIOUS
    <3>2. task.operators \in Seq(J)
      BY <2>1, <3>1, Zenon DEF Found, HasOperators
    <3>3. Operators \subseteq Nat
      BY <3>2, ElementFacts DEF Operators
    <3>4. PICK I : I = Operators
      OBVIOUS
    <3>5. \A ops \in Seq(I) : ops \in Seq(Nat)
      BY <3>3, <3>4, SeqMonotone
    <3>6. QED
      BY <3>4, <3>5 DEF OperatorSeqs
  <2>4. ASSUME NEW node \in queue PROVE node \in Node /\ node.states # {}
    <3>1. node \in NodeType /\ node.states # {}
      BY DEF RegistryInv, NodeInv, ExecutableInv, Executable
    <3>2. QED
      BY <2>3, <3>1 DEF NodeType, Node, StateSets
  <2>5. QED
    BY <2>1, <2>2, <2>3, <2>4 DEF ExecutableInv, RegistryTypeOK
<1>3. RegistrySpec => []ExecutableInv
  BY <1>1, RegistryInvariant, ExecutableInvNext, PTL DEF RegistrySpec
<1>4. QED
  BY <1>2, <1>3, RegistryInvariant, PTL

-----------------------------------------------------------------------------
(* Sequences of operators *)

\* w lists the states that the operators lead through, l what it costs to get there.
Route(p, w, l) ==
    /\ p \in OperatorSeqs
    /\ w \in [0 .. Len(p) -> State] /\ l \in [0 .. Len(p) -> Nat]
    /\ l[0] = 0 /\ l[Len(p)] = PlanCost(p)
    /\ \A k \in 1 .. Len(p) : /\ <<w[k - 1], w[k]>> \in task.operators[p[k]].rel
                              /\ l[k] = l[k - 1] + task.operators[p[k]].cost

\* No operators lead from a state to itself.
LEMMA EmptyRoute ==
    ASSUME TaskOK, NEW x \in State
    PROVE  \E w, l : Route(<<>>, w, l) /\ Len(<<>>) = 0 /\ PlanCost(<<>>) = 0 /\ w[0] = x
<1>1. <<>> \in OperatorSeqs /\ PlanCost(<<>>) = 0 /\ Len(<<>>) = 0
  <2>1. {} \in StateSets
    BY DEF StateSets
  <2>2. QED
    BY <2>1, EmptyRun DEF OperatorSeqs
<1>2. PICK w, l : w = [k \in 0 .. 0 |-> x] /\ l = [k \in 0 .. 0 |-> 0]
  OBVIOUS
<1>3. w \in [0 .. 0 -> State] /\ l \in [0 .. 0 -> Nat] /\ w[0] = x /\ l[0] = 0
  BY <1>2
<1>4. Route(<<>>, w, l)
  BY <1>1, <1>3 DEF Route
<1>5. QED
  BY <1>1, <1>3, <1>4

\* One operator more.
LEMMA RouteAppended ==
    ASSUME TaskOK, NEW p, NEW w, NEW l, Route(p, w, l), NEW n, n = Len(p),
           NEW y \in State, NEW i \in Operators, <<w[n], y>> \in task.operators[i].rel
    PROVE  \E q, v, m : /\ Route(q, v, m) /\ Len(q) = n + 1
                        /\ PlanCost(q) = PlanCost(p) + task.operators[i].cost
                        /\ v[n + 1] = y /\ \A k \in 0 .. n : v[k] = w[k]
<1>1. /\ n \in Nat /\ p \in Seq(Operators)
      /\ w \in [0 .. n -> State] /\ l \in [0 .. n -> Nat] /\ l[0] = 0 /\ l[n] = PlanCost(p)
  BY ElementFacts DEF Route, OperatorSeqs
<1>2. PICK q : q = Append(p, i)
  OBVIOUS
<1>3. /\ q \in OperatorSeqs /\ Len(q) = n + 1
      /\ q[n + 1] = i /\ \A k \in 1 .. n : q[k] = p[k]
  BY <1>1, <1>2 DEF OperatorSeqs
<1>4. PICK c : c = task.operators[i].cost /\ c \in Nat
  BY OperatorFacts
<1>5. PlanCost(q) = PlanCost(p) + c
  <2>1. {} \in StateSets
    BY DEF StateSets
  <2>2. QED
    BY <1>1, <1>2, <1>4, <2>1, AppendRun
<1>6. PICK v, m : /\ v = [k \in 0 .. n + 1 |-> IF k = n + 1 THEN y ELSE w[k]]
                  /\ m = [k \in 0 .. n + 1 |-> IF k = n + 1 THEN l[n] + c ELSE l[k]]
  OBVIOUS
<1>7. /\ n + 1 \in 0 .. n + 1 /\ 0 \in 0 .. n /\ n \in 0 .. n /\ l[n] + c \in Nat
      /\ \A k \in 0 .. n : k \in 0 .. n + 1 /\ k # n + 1
      /\ \A k \in 0 .. n + 1 : k = n + 1 \/ k \in 0 .. n
  BY <1>1, <1>4
<1>8. v \in [0 .. n + 1 -> State] /\ v[n + 1] = y /\ \A k \in 0 .. n : v[k] = w[k]
  BY <1>1, <1>6, <1>7
<1>9. m \in [0 .. n + 1 -> Nat] /\ m[n + 1] = l[n] + c /\ \A k \in 0 .. n : m[k] = l[k]
  BY <1>1, <1>6, <1>7
<1>10. ASSUME NEW k \in 1 .. n + 1
       PROVE  /\ <<v[k - 1], v[k]>> \in task.operators[q[k]].rel
              /\ m[k] = m[k - 1] + task.operators[q[k]].cost
  <2>1. CASE k = n + 1
    <3>1. k - 1 = n
      BY <1>1, <2>1
    <3>2. v[k - 1] = w[n] /\ v[k] = y /\ m[k] = l[n] + c /\ m[k - 1] = l[n] /\ q[k] = i
      BY <1>3, <1>7, <1>8, <1>9, <2>1, <3>1
    <3>3. QED
      BY <1>4, <3>2
  <2>2. CASE k \in 1 .. n
    <3>1. k - 1 \in 0 .. n /\ k \in 0 .. n
      BY <1>1, <2>2
    <3>2. v[k - 1] = w[k - 1] /\ v[k] = w[k] /\ m[k - 1] = l[k - 1] /\ m[k] = l[k] /\ q[k] = p[k]
      BY <1>3, <1>8, <1>9, <2>2, <3>1
    <3>3. QED
      BY <2>2, <3>2 DEF Route
  <2>3. QED
    BY <1>1, <2>1, <2>2
<1>11. m[0] = 0 /\ m[n + 1] = PlanCost(q)
  BY <1>1, <1>5, <1>7, <1>9
<1>12. Route(q, v, m)
  BY <1>3, <1>8, <1>9, <1>10, <1>11 DEF Route
<1>13. QED
  BY <1>3, <1>4, <1>5, <1>8, <1>12

\* One operator before the others.
LEMMA RoutePrepended ==
    ASSUME TaskOK, NEW p, NEW w, NEW l, Route(p, w, l), NEW n, n = Len(p),
           NEW y \in State, NEW i \in Operators, <<y, w[0]>> \in task.operators[i].rel
    PROVE  \E q, v, m : /\ Route(q, v, m) /\ Len(q) = n + 1
                        /\ PlanCost(q) = PlanCost(p) + task.operators[i].cost
                        /\ v[0] = y /\ \A k \in 0 .. n : v[k + 1] = w[k]
<1>1. /\ n \in Nat /\ p \in Seq(Operators)
      /\ w \in [0 .. n -> State] /\ l \in [0 .. n -> Nat] /\ l[0] = 0 /\ l[n] = PlanCost(p)
  BY ElementFacts DEF Route, OperatorSeqs
<1>2. PICK q : q = <<i>> \o p
  OBVIOUS
<1>3. /\ q \in OperatorSeqs /\ Len(q) = n + 1
      /\ q[1] = i /\ \A k \in 1 .. n : q[k + 1] = p[k]
  BY <1>1, <1>2 DEF OperatorSeqs
<1>4. PICK c : c = task.operators[i].cost /\ c \in Nat
  BY OperatorFacts
<1>5. PlanCost(q) = PlanCost(p) + c
  <2>1. {} \in StateSets
    BY DEF StateSets
  <2>2. QED
    BY <1>1, <1>2, <1>4, <2>1, ConsRun
<1>6. PICK v, m : /\ v = [k \in 0 .. n + 1 |-> IF k = 0 THEN y ELSE w[k - 1]]
                  /\ m = [k \in 0 .. n + 1 |-> IF k = 0 THEN 0 ELSE l[k - 1] + c]
  OBVIOUS
<1>7. /\ 0 \in 0 .. n + 1 /\ 0 \in 0 .. n /\ n \in 0 .. n
      /\ \A k \in 0 .. n : k + 1 \in 0 .. n + 1 /\ k + 1 # 0 /\ (k + 1) - 1 = k
      /\ \A k \in 0 .. n + 1 : k = 0 \/ k - 1 \in 0 .. n
      /\ \A k \in 0 .. n : l[k] \in Nat /\ l[k] + c \in Nat
  BY <1>1, <1>4
<1>8. v \in [0 .. n + 1 -> State] /\ v[0] = y /\ \A k \in 0 .. n : v[k + 1] = w[k]
  BY <1>1, <1>6, <1>7
<1>9. m \in [0 .. n + 1 -> Nat] /\ m[0] = 0 /\ \A k \in 0 .. n : m[k + 1] = l[k] + c
  BY <1>1, <1>6, <1>7
<1>10. ASSUME NEW k \in 1 .. n + 1
       PROVE  /\ <<v[k - 1], v[k]>> \in task.operators[q[k]].rel
              /\ m[k] = m[k - 1] + task.operators[q[k]].cost
  <2>1. PICK j : j = k - 1 /\ j \in 0 .. n /\ k = j + 1
    BY <1>1
  <2>2. CASE j = 0
    <3>1. v[j] = y /\ v[j + 1] = w[0] /\ m[j + 1] = l[0] + c /\ m[j] = 0 /\ q[j + 1] = i
      BY <1>3, <1>7, <1>8, <1>9, <2>2
    <3>2. QED
      BY <1>1, <1>4, <2>1, <3>1
  <2>3. CASE j # 0
    <3>1. j \in 1 .. n /\ j - 1 \in 0 .. n /\ (j - 1) + 1 = j
      BY <1>1, <2>1, <2>3
    <3>2. v[j] = w[j - 1] /\ v[j + 1] = w[j] /\ m[j + 1] = l[j] + c /\ m[j] = l[j - 1] + c
          /\ q[j + 1] = p[j]
      BY <1>3, <1>8, <1>9, <2>1, <3>1, Zenon
    <3>3. <<w[j - 1], w[j]>> \in task.operators[p[j]].rel
          /\ l[j] = l[j - 1] + task.operators[p[j]].cost
      BY <3>1 DEF Route
    <3>4. p[j] \in Operators /\ task.operators[p[j]].cost \in Nat
      BY <1>1, <3>1, ElementFacts, OperatorFacts
    <3>5. m[j + 1] = m[j] + task.operators[p[j]].cost
      <4>1. l[j - 1] \in Nat
        BY <1>7, <3>1
      <4>2. PICK a, d : a = l[j - 1] /\ d = task.operators[p[j]].cost
        OBVIOUS
      <4>3. m[j + 1] = (a + d) + c /\ m[j] = a + c
        BY <3>2, <3>3, <4>2, Zenon
      <4>4. a \in Nat /\ d \in Nat /\ c \in Nat
        BY <1>4, <3>4, <4>1, <4>2, Zenon
      <4>5. m[j + 1] = m[j] + d
        BY <4>3, <4>4
      <4>6. QED
        BY <4>2, <4>5, Zenon
    <3>6. <<v[j], v[j + 1]>> \in task.operators[q[j + 1]].rel
          /\ m[j + 1] = m[j] + task.operators[q[j + 1]].cost
      BY <3>2, <3>3, <3>5
    <3>7. QED
      BY <2>1, <3>6
  <2>4. QED
    BY <2>2, <2>3
<1>11. m[n + 1] = PlanCost(q)
  BY <1>1, <1>5, <1>7, <1>9
<1>12. Route(q, v, m)
  BY <1>3, <1>8, <1>9, <1>10, <1>11 DEF Route
<1>13. QED
  BY <1>3, <1>4, <1>5, <1>8, <1>12

\* What leads from one state to the next is an operator.
LEMMA EdgeIsOperator ==
    ASSUME TaskOK, NEW c \in DOMAIN task.ops, NEW x, NEW y, Edge(task, "fw", c, x, y)
    PROVE  /\ x \in State /\ y \in State
           /\ \E i \in Operators : task.operators[i].cost = c /\ <<x, y>> \in task.operators[i].rel
<1>1. <<x, y>> \in task.ops[c]
  BY DEF Edge
<1>2. task.ops[c] = UNION {task.operators[i].rel :
                           i \in {j \in DOMAIN task.operators : task.operators[j].cost = c}}
  BY DEF TaskOK, HasOperators
<1>3. PICK i \in Operators : task.operators[i].cost = c /\ <<x, y>> \in task.operators[i].rel
  BY <1>1, <1>2 DEF Operators
<1>4. QED
  BY <1>3, OperatorFacts
=============================================================================
