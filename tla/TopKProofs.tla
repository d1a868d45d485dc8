------------------------------ MODULE TopKProofs ------------------------------
(***************************************************************************)
(* What TopKSearch reports are plans, within the quality asked for; none   *)
(* is left out, and they come in the order of their costs.                 *)
(***************************************************************************)
EXTENDS TopKSearch, SolutionRegistryProofs, SequenceTheorems

-----------------------------------------------------------------------------
(* A sequence of cuts is reported *)

\* The fields of the engine that new_solution changes.
Fields == [cuts : SUBSET Cuts, lower : Level, upper : Level]

Now == [cuts |-> sym_cuts, lower |-> lower_bound, upper |-> upper_bound]

\* No two of the cuts have the same levels.
Apart(sols) == \A a, b \in sols : a.g = b.g /\ a.h = b.h => a = b

\* Then they are finitely many, as levels are.
LEMMA ApartIsFinite ==
    ASSUME NEW sols \in SUBSET Cuts, Apart(sols)
    PROVE  IsFiniteSet(sols)
<1> DEFINE levels == [sol \in sols |-> <<sol.g, sol.h>>]
<1>1. \A sol \in sols : sol.g \in Level /\ sol.h \in Level
  BY DEF Cuts
<1>2. levels \in [sols -> Level \X Level]
  BY <1>1
<1>3. \A a, b \in sols : levels[a] = levels[b] => a = b
  BY DEF Apart
<1>4. levels \in Injection(sols, Level \X Level)
  <2> HIDE DEF levels
  <2>1. QED
    BY <1>2, <1>3 DEF Injection, IsInjective
<1>5. IsFiniteSet(Level)
  BY FS_Interval, IntMaxAssumption DEF Level
<1>6. IsFiniteSet(Level \X Level)
  BY <1>5, FS_Product
<1> HIDE DEF levels
<1>7. QED
  BY <1>4, <1>6, FS_Injection

\* A list of all of them.
Listing(list, sols) == list \in Seq(sols) /\ \A s \in sols : \E m \in 1 .. Len(list) : list[m] = s

\* SetToSeqs yields such lists.
LEMMA ListingFacts ==
    ASSUME NEW sols, IsFiniteSet(sols), NEW list \in SetToSeqs(sols)
    PROVE  Listing(list, sols)
<1> DEFINE n == Cardinality(sols)
<1>1. n \in Nat
  BY FS_CardinalityType
<1> HIDE DEF n
<1>2. /\ list \in [1 .. n -> sols]
      /\ \A i, j \in 1 .. n : i # j => list[i] # list[j]
  BY DEF SetToSeqs, n
<1>3. list \in Seq(sols) /\ Len(list) = n
  BY <1>1, <1>2
<1>4. list \in Injection(1 .. n, sols)
  BY <1>2 DEF Injection, IsInjective
<1>5. IsFiniteSet(1 .. n) /\ Cardinality(1 .. n) = n
  BY <1>1, FS_Interval
<1>6. list \in Surjection(1 .. n, sols)
  BY <1>4, <1>5, FS_Injection DEF n
<1>7. QED
  BY <1>3, <1>6 DEF Surjection, Listing

\* The engine after the cuts of the list, one after the other.
Telling(sols, I) == [sol \in sols |-> [e \in I |-> NewSolution(e, sol)]]

\* I is kept by new_solution.
KeptBy(I, sols) == Now \in I /\ \A e \in I : \A sol \in sols : NewSolution(e, sol) \in I

\* What Reported says, in terms of such a list.
LEMMA ReportedChain ==
    ASSUME NEW sols, IsFiniteSet(sols), NEW I, KeptBy(I, sols),
           NEW d, NEW e \in Reported(d, sols)
    PROVE  \E list, f : /\ Listing(list, sols)
                        /\ Chain(f, I, Telling(sols, I), Now, list)
                        /\ e = f[Len(list)]
<1>1. PICK list \in SetToSeqs(sols) :
         e = (CHOOSE a : a = [n \in 0 .. Len(list) |->
                 IF n = 0 THEN Now ELSE NewSolution(a[n - 1], list[n])])[Len(list)]
  BY DEF Reported, Now
<1> DEFINE Eqn(a) == a = [n \in 0 .. Len(list) |->
                            IF n = 0 THEN Now ELSE NewSolution(a[n - 1], list[n])]
           after == CHOOSE a : Eqn(a)
<1>2. Listing(list, sols) /\ list \in Seq(sols)
  BY ListingFacts DEF Listing
<1>3. Telling(sols, I) \in [sols -> [I -> I]] /\ Now \in I
  BY DEF Telling, KeptBy
<1>4. PICK f : Chain(f, I, Telling(sols, I), Now, list)
  BY <1>2, <1>3, ChainExists
<1>5. \A n \in 1 .. Len(list) : /\ n - 1 \in 0 .. Len(list) /\ f[n - 1] \in I /\ list[n] \in sols
                                /\ f[n] = NewSolution(f[n - 1], list[n])
  <2> SUFFICES ASSUME NEW n \in 1 .. Len(list)
               PROVE  /\ n - 1 \in 0 .. Len(list) /\ f[n - 1] \in I /\ list[n] \in sols
                      /\ f[n] = NewSolution(f[n - 1], list[n])
    OBVIOUS
  <2>1. n - 1 \in 0 .. Len(list) /\ list[n] \in sols
    BY <1>2
  <2>2. f[n - 1] \in I /\ f[n] = Telling(sols, I)[list[n]][f[n - 1]]
    BY <1>4, <2>1 DEF Chain
  <2>3. QED
    BY <2>1, <2>2 DEF Telling
<1>6. f = [n \in 0 .. Len(list) |-> f[n]] /\ f[0] = Now
  BY <1>4 DEF Chain
<1>7. \A n \in 0 .. Len(list) : f[n] = IF n = 0 THEN Now ELSE NewSolution(f[n - 1], list[n])
  <2>1. \A n \in 0 .. Len(list) : n # 0 => n \in 1 .. Len(list)
    BY <1>2
  <2>2. QED
    BY <1>5, <1>6, <2>1
<1>8. Eqn(f)
  BY <1>6, <1>7
<1>9. e = after[Len(list)]
  BY <1>1
<1>10. Eqn(after)
  BY <1>8
<1> HIDE DEF after
<1>11. \A n \in 0 .. Len(list) :
          after[n] = IF n = 0 THEN Now ELSE NewSolution(after[n - 1], list[n])
  BY <1>10
<1>12. after[0] = Now
  BY <1>2, <1>11, ElementFacts
<1>13. \A n \in 1 .. Len(list) :
          after[n - 1] \in I => after[n] = Telling(sols, I)[list[n]][after[n - 1]]
  <2> SUFFICES ASSUME NEW n \in 1 .. Len(list), after[n - 1] \in I
               PROVE  after[n] = Telling(sols, I)[list[n]][after[n - 1]]
    OBVIOUS
  <2>1. after[n] = NewSolution(after[n - 1], list[n])
    BY <1>11
  <2>2. QED
    BY <1>5, <2>1 DEF Telling
<1>14. Follows(after, I, Telling(sols, I), Now, list)
  BY <1>12, <1>13 DEF Follows
<1>15. after[Len(list)] = f[Len(list)]
  BY <1>2, <1>3, <1>4, <1>14, ChainUnique
<1>16. QED
  BY <1>2, <1>4, <1>9, <1>15

\* What new_solution keeps holds when all cuts have been reported.
LEMMA ReportedStays ==
    ASSUME NEW sols, IsFiniteSet(sols), NEW I, KeptBy(I, sols),
           NEW d, NEW e \in Reported(d, sols)
    PROVE  e \in I
<1>1. PICK list, f : /\ Listing(list, sols)
                     /\ Chain(f, I, Telling(sols, I), Now, list)
                     /\ e = f[Len(list)]
  BY ReportedChain
<1>2. Len(list) \in 0 .. Len(list)
  BY <1>1 DEF Listing
<1>3. QED
  BY <1>1, <1>2 DEF Chain

\* C holds of a cut when it has been reported, and remains.
HoldsOnceTold(C, I, sols) ==
    /\ \A e \in I : \A sol \in sols : <<sol, NewSolution(e, sol)>> \in C
    /\ \A e \in I : \A sol, s \in sols : <<s, e>> \in C => <<s, NewSolution(e, sol)>> \in C

\* Then it holds of all in the end.
LEMMA ReportedAll ==
    ASSUME NEW sols, IsFiniteSet(sols), NEW I, KeptBy(I, sols),
           NEW C, HoldsOnceTold(C, I, sols),
           NEW d, NEW e \in Reported(d, sols), NEW s \in sols
    PROVE  <<s, e>> \in C
<1>1. PICK list, f : /\ Listing(list, sols)
                     /\ Chain(f, I, Telling(sols, I), Now, list)
                     /\ e = f[Len(list)]
  BY ReportedChain
<1> DEFINE l == Len(list)
<1>2. /\ l \in Nat /\ \A n \in 1 .. l : list[n] \in sols
      /\ \E m \in 1 .. l : list[m] = s
  BY <1>1 DEF Listing
<1>3. PICK m \in 1 .. l : list[m] = s
  BY <1>2
<1>4. \A n \in 1 .. l : f[n - 1] \in I /\ f[n] = NewSolution(f[n - 1], list[n])
  <2> SUFFICES ASSUME NEW n \in 1 .. l
               PROVE  f[n - 1] \in I /\ f[n] = NewSolution(f[n - 1], list[n])
    OBVIOUS
  <2>1. n - 1 \in 0 .. l /\ list[n] \in sols
    BY <1>2
  <2>2. f[n - 1] \in I /\ f[n] = Telling(sols, I)[list[n]][f[n - 1]]
    BY <1>1, <2>1 DEF Chain
  <2>3. QED
    BY <2>1, <2>2 DEF Telling
<1> DEFINE Bad == {n \in m .. l : <<s, f[n]>> \notin C}
           b == Least(Bad)
<1> HIDE DEF l
<1>5. ASSUME Bad # {} PROVE FALSE
  <2>1. Bad \subseteq Nat
    BY <1>2, <1>3
  <2> HIDE DEF Bad
  <2>2. b \in Bad /\ \A y \in Bad : b <= y
    BY <1>5, <2>1, NatHasLeast
  <2> HIDE DEF b
  <2>3. b \in m .. l /\ <<s, f[b]>> \notin C
    BY <2>2 DEF Bad
  <2>4. b \in 1 .. l
    BY <1>2, <1>3, <2>3
  <2>5. f[b - 1] \in I /\ f[b] = NewSolution(f[b - 1], list[b]) /\ list[b] \in sols
    BY <1>2, <1>4, <2>4
  <2>6. CASE b = m
    BY <1>3, <2>3, <2>5, <2>6 DEF HoldsOnceTold
  <2>7. CASE b # m
    <3>1. b - 1 \in m .. l /\ ~ (b <= b - 1)
      BY <1>2, <1>3, <2>3, <2>7
    <3>2. <<s, f[b - 1]>> \in C
      BY <2>2, <3>1 DEF Bad
    <3>3. QED
      BY <2>3, <2>5, <3>2 DEF HoldsOnceTold
  <2>8. QED
    BY <2>6, <2>7
<1>6. l \in m .. l
  BY <1>2, <1>3
<1>7. QED
  BY <1>1, <1>5, <1>6 DEF l

-----------------------------------------------------------------------------
(* What new_solution makes of the engine *)

\* A cut that can be a solution; with one direction, it consists of states that
\* the other one would start from.
GoodCut(sol) ==
    /\ sol.cut # {}
    /\ Optimum <= Cost(sol)
    /\ "fw" \notin Searches => sol.g = 0 /\ sol.cut \subseteq {task.init}
    /\ "bw" \notin Searches => sol.h = 0 /\ sol.cut \subseteq task.goal

GoodCuts(sols) == sols \subseteq Cuts /\ Apart(sols) /\ \A sol \in sols : GoodCut(sol)

\* What the proofs about new_solution assume of the engine.
Base ==
    /\ TypeOK
    /\ task \in Tasks
    /\ plan \subseteq OperatorSeqs
    /\ \A p \in plan : Optimum <= PlanCost(p)
    /\ GoodCuts(sym_cuts)

\* The costs of a cut.
LEMMA CutFacts ==
    ASSUME NEW sol \in Cuts
    PROVE  /\ sol.g \in Level /\ sol.h \in Level /\ sol.g \in Nat /\ sol.h \in Nat
           /\ Cost(sol) \in Nat
           /\ sol.cut \subseteq State
<1>1. sol.g \in Level /\ sol.h \in Level /\ sol.cut \subseteq State
  BY DEF Cuts
<1>2. sol.g \in Nat /\ sol.h \in Nat
  BY <1>1, LevelFacts
<1>3. QED
  BY <1>1, <1>2 DEF Cost

\* Min is Least.
LEMMA MinFacts ==
    ASSUME NEW S \in SUBSET Nat, S # {}
    PROVE  Min(S) \in S /\ \A y \in S : Min(S) <= y
<1>1. Least(S) \in S /\ \A y \in S : Least(S) <= y
  BY NatHasLeast
<1>2. QED
  BY <1>1 DEF Min

\* The options of the task.
LEMMA OptionFacts ==
    ASSUME Base
    PROVE  /\ IsTask(task) /\ TaskOK /\ HasEngine(task) /\ HasSelector(task)
           /\ Optimum \in Nat /\ Optimum <= INT_MAX /\ INT_MAX \in Nat
           /\ task.engine \in {"symk", "symq"}
           /\ task.quality.of \in Nat /\ task.quality.by \in Nat
           /\ task.quality.by = 0 \/ task.quality.of >= task.quality.by
           /\ ~task.alternating
           /\ lower_bound \in Nat /\ lower_bound <= INT_MAX
           /\ upper_bound \in Nat /\ upper_bound <= INT_MAX
<1>1. HasEngine(task) /\ HasSelector(task) /\ HasOperators(task)
  BY EngineAssumption, SelectorAssumption, OperatorsAssumption DEF Base
<1>2. EngineTypeOK
  BY DEF Base, TypeOK
<1>3. task.quality.of \in Nat /\ task.quality.by \in Nat
  BY <1>1 DEF HasEngine
<1>4. QED
  BY <1>1, <1>2, <1>3, EngineFacts, LevelFacts DEF HasEngine, TaskOK

\* The cost that the quality is measured by.
LEMMA CheapestFoundFacts ==
    ASSUME Base, NEW cuts \in SUBSET Cuts, \A sol \in cuts : Optimum <= Cost(sol)
    PROVE  /\ CheapestFound(cuts) \in Nat /\ Optimum <= CheapestFound(cuts)
<1> DEFINE S == {Cost(sol) : sol \in cuts} \cup {PlanCost(p) : p \in plan} \cup {INT_MAX}
<1>1. \A sol \in cuts : Cost(sol) \in Nat
  BY CutFacts
<1>2. \A p \in plan : PlanCost(p) \in Nat
  <2>1. {} \in StateSets
    BY DEF StateSets
  <2>2. \A p \in plan : p \in Seq(Operators)
    BY DEF Base, OperatorSeqs
  <2>3. QED
    BY <2>1, <2>2, OptionFacts, RunTypes
<1>3. S \in SUBSET Nat /\ S # {}
  BY <1>1, <1>2, OptionFacts
<1>4. \A x \in S : Optimum <= x
  BY OptionFacts DEF Base
<1> HIDE DEF S
<1>5. Min(S) \in S
  BY <1>3, MinFacts
<1>6. CheapestFound(cuts) = Min(S)
  BY DEF CheapestFound, S
<1>7. QED
  BY <1>3, <1>4, <1>5, <1>6

\* A quotient, and what it bounds.
LEMMA QuotientFacts ==
    ASSUME NEW a \in Nat, NEW b \in Nat, b # 0
    PROVE  /\ a \div b \in Nat /\ (a \div b) * b <= a /\ a < (a \div b + 1) * b
OBVIOUS

\* A product grows with its factor.
LEMMA ProductsAreMonotone ==
    ASSUME NEW a \in Nat, NEW b \in Nat, NEW c \in Nat, a <= b
    PROVE  a * c <= b * c /\ a * c \in Nat /\ b * c \in Nat
OBVIOUS

\* A larger cost allows for more.
LEMMA QualityBoundFacts ==
    ASSUME Base, task.quality.by # 0, NEW x \in Nat, NEW y \in Nat, x <= y
    PROVE  /\ QualityBound(x) \in Nat /\ QualityBound(y) \in Nat
           /\ QualityBound(x) <= QualityBound(y)
<1>1. PICK a, b, m, n : /\ a = task.quality.of /\ b = task.quality.by
                        /\ m = x * a /\ n = y * a
  OBVIOUS
<1>2. a \in Nat /\ b \in Nat /\ b # 0
  BY <1>1, OptionFacts
<1>3. m \in Nat /\ n \in Nat /\ m <= n
  BY <1>1, <1>2, ProductsAreMonotone
<1>4. PICK q, r : q = m \div b /\ r = n \div b
  OBVIOUS
<1>5. /\ q \in Nat /\ q * b <= m /\ m < (q + 1) * b
      /\ r \in Nat /\ r * b <= n /\ n < (r + 1) * b
  BY <1>2, <1>3, <1>4, QuotientFacts
<1>6. q <= r
  <2>1. ASSUME r + 1 <= q PROVE FALSE
    <3>1. (r + 1) * b <= q * b
      BY <1>2, <1>5, <2>1, ProductsAreMonotone
    <3>2. (r + 1) * b \in Nat /\ q * b \in Nat
      BY <1>2, <1>5
    <3>3. QED
      BY <1>3, <1>5, <3>1, <3>2
  <2>2. QED
    BY <1>5, <2>1
<1>7. QED
  BY <1>1, <1>4, <1>5, <1>6 DEF QualityBound

\* The states of a cut are registered with its levels; those of a cut have been
\* registered with its levels.
RegisteredIn(c, cuts) == \E b \in cuts : b.g = c.g /\ b.h = c.h /\ c.cut \subseteq b.cut

MadeOf(b, cuts) == \A s \in b.cut : \E c \in cuts : c.g = b.g /\ c.h = b.h /\ s \in c.cut

\* register_solution unites the cut with the one that has its levels.
LEMMA MergedFacts ==
    ASSUME NEW cuts, GoodCuts(cuts), NEW sol \in Cuts, GoodCut(sol)
    PROVE  /\ GoodCuts(Merged(cuts, sol))
           /\ RegisteredIn(sol, Merged(cuts, sol))
           /\ \A c \in cuts : RegisteredIn(c, Merged(cuts, sol))
           /\ \A b \in Merged(cuts, sol) : MadeOf(b, cuts \cup {sol})
<1>1. PICK same : same = {c \in cuts : c.g = sol.g /\ c.h = sol.h}
  OBVIOUS
<1>2. PICK all : all = UNION {c.cut : c \in same \cup {sol}}
  OBVIOUS
<1>3. PICK new : new = [sol EXCEPT !.cut = all]
  OBVIOUS
<1>4. Merged(cuts, sol) = (cuts \ same) \cup {new}
  BY <1>1, <1>2, <1>3 DEF Merged
<1>5. /\ cuts \subseteq Cuts
      /\ \A a, b \in cuts : a.g = b.g /\ a.h = b.h => a = b
      /\ \A c \in cuts : GoodCut(c)
  BY DEF GoodCuts, Apart
<1>6. \A c \in same \cup {sol} : /\ c.g = sol.g /\ c.h = sol.h /\ c.cut \subseteq State
                                 /\ GoodCut(c)
  <2>1. \A c \in same \cup {sol} : c \in Cuts /\ c.g = sol.g /\ c.h = sol.h
    BY <1>1, <1>5
  <2>2. QED
    BY <1>1, <1>5, <2>1, CutFacts
<1>7. all \subseteq State /\ sol.cut \subseteq all
  BY <1>2, <1>6
<1>8. new.g = sol.g /\ new.h = sol.h /\ new.cut = all /\ new \in Cuts
  BY <1>3, <1>7 DEF Cuts
<1>9. GoodCut(new)
  BY <1>2, <1>6, <1>7, <1>8 DEF GoodCut, Cost
<1>10. \A a \in cuts \ same : ~ (a.g = new.g /\ a.h = new.h)
  BY <1>1, <1>8
<1>11. Apart(Merged(cuts, sol))
  BY <1>4, <1>5, <1>10 DEF Apart
<1>12. GoodCuts(Merged(cuts, sol))
  BY <1>4, <1>5, <1>8, <1>9, <1>11 DEF GoodCuts
<1>13. RegisteredIn(sol, Merged(cuts, sol))
  BY <1>4, <1>7, <1>8 DEF RegisteredIn
<1>14. ASSUME NEW c \in cuts PROVE RegisteredIn(c, Merged(cuts, sol))
  <2>1. CASE c \in same
    BY <1>2, <1>4, <1>6, <1>8, <2>1 DEF RegisteredIn
  <2>2. CASE c \notin same
    BY <1>4, <2>2 DEF RegisteredIn
  <2>3. QED
    BY <2>1, <2>2
<1>15. ASSUME NEW b \in Merged(cuts, sol) PROVE MadeOf(b, cuts \cup {sol})
  <2>1. CASE b = new
    <3>1. ASSUME NEW s \in all
          PROVE  \E c \in cuts \cup {sol} : c.g = new.g /\ c.h = new.h /\ s \in c.cut
      <4>1. PICK c \in same \cup {sol} : s \in c.cut
        BY <1>2
      <4>2. QED
        BY <1>1, <1>6, <1>8, <4>1
    <3>2. QED
      BY <1>8, <2>1, <3>1 DEF MadeOf
  <2>2. CASE b \in cuts
    BY <2>2 DEF MadeOf
  <2>3. QED
    BY <1>4, <2>1, <2>2
<1>16. QED
  BY <1>12, <1>13, <1>14, <1>15

\* No cut that is reported now is of use: there are plans enough, or what it
\* stands for costs more than the quality admits.
Over == FoundEnoughPlans(plan) \/ BeyondQuality(lower_bound, Optimum)

\* The upper bound has been lowered to what the quality admits.
Graded(upper) ==
    /\ task.engine = "symq" /\ task.quality.by # 0
    /\ QualityBound(Optimum) <= upper

\* What new_solution keeps of the engine, while the cuts sols are reported.
Kept(sols) ==
    {e \in Fields :
        /\ GoodCuts(e.cuts)
        /\ \A c \in sym_cuts : RegisteredIn(c, e.cuts)
        /\ \A b \in e.cuts : MadeOf(b, sym_cuts \cup sols)
        /\ e.lower = lower_bound \/ (Over /\ e.lower = INT_MAX)
        /\ e.upper <= upper_bound
        /\ e.upper = upper_bound \/ Graded(e.upper)}

\* What is beyond the quality of a plan is beyond that of a cheapest one.
LEMMA BeyondTheOptimum ==
    ASSUME Base, NEW cost, NEW cheapest \in Nat, Optimum <= cheapest,
           BeyondQuality(cost, cheapest), cost \in Nat
    PROVE  BeyondQuality(cost, Optimum)
<1>1. PICK a, b, m, n, x : /\ a = task.quality.of /\ b = task.quality.by
                           /\ m = Optimum * a /\ n = cheapest * a /\ x = cost * b
  OBVIOUS
<1>2. a \in Nat /\ b \in Nat /\ Optimum \in Nat
  BY <1>1, OptionFacts
<1>3. m <= n /\ m \in Nat /\ n \in Nat
  BY <1>1, <1>2, ProductsAreMonotone
<1>4. x \in Nat
  BY <1>1, <1>2, ProductsAreMonotone
<1>5. task.engine = "symq" /\ x > n
  BY <1>1 DEF BeyondQuality
<1>6. x > m
  BY <1>3, <1>4, <1>5
<1>7. QED
  BY <1>1, <1>5, <1>6 DEF BeyondQuality

\* What is registered stays registered when more is.
LEMMA RegisteredIsTransitive ==
    ASSUME NEW c, NEW cuts, NEW more, RegisteredIn(c, cuts),
           \A b \in cuts : RegisteredIn(b, more)
    PROVE  RegisteredIn(c, more)
BY DEF RegisteredIn

\* The cut is registered, or the search is told to end.
Noticed(sol, e) == e.lower = INT_MAX \/ RegisteredIn(sol, e.cuts)

\* new_solution takes notice of a cut.
LEMMA NewSolutionKept ==
    ASSUME Base, NEW sols, GoodCuts(sols), NEW e \in Kept(sols), NEW sol \in sols
    PROVE  /\ NewSolution(e, sol) \in Kept(sols)
           /\ Noticed(sol, NewSolution(e, sol))
           /\ \A c \in sols : Noticed(c, e) => Noticed(c, NewSolution(e, sol))
<1> DEFINE new == NewSolution(e, sol)
<1>1. /\ e \in Fields /\ e.cuts \subseteq Cuts /\ e.lower \in Level /\ e.upper \in Level
      /\ GoodCuts(e.cuts) /\ \A c \in e.cuts : Optimum <= Cost(c)
  BY DEF Kept, Fields, GoodCuts, GoodCut
<1>2. sol \in Cuts /\ GoodCut(sol)
  BY DEF GoodCuts
<1>3. CheapestFound(e.cuts) \in Nat /\ Optimum <= CheapestFound(e.cuts)
  BY <1>1, CheapestFoundFacts
<1>4. INT_MAX \in Level /\ \A k \in Level : k \in Nat /\ k <= INT_MAX
  BY LevelFacts
<1>5. CASE FoundEnoughPlans(plan) \/ BeyondQuality(e.lower, CheapestFound(e.cuts))
  <2>1. new = [e EXCEPT !.lower = INT_MAX]
    BY <1>5 DEF NewSolution
  <2>2. new \in Fields /\ new.cuts = e.cuts /\ new.upper = e.upper /\ new.lower = INT_MAX
    BY <1>1, <1>4, <2>1 DEF Fields
  <2>3. Over
    <3>1. CASE FoundEnoughPlans(plan) \/ e.lower # lower_bound
      BY <3>1 DEF Kept, Over
    <3>2. CASE BeyondQuality(lower_bound, CheapestFound(e.cuts))
      BY <1>3, <3>2, BeyondTheOptimum, OptionFacts DEF Over
    <3>3. QED
      BY <1>5, <3>1, <3>2
  <2> HIDE DEF new
  <2>4. new \in Kept(sols)
    BY <2>2, <2>3 DEF Kept
  <2>5. QED
    BY <2>2, <2>4 DEF new, Noticed
<1>6. CASE ~ (FoundEnoughPlans(plan) \/ BeyondQuality(e.lower, CheapestFound(e.cuts)))
  <2>1. PICK cuts : cuts = Merged(e.cuts, sol)
    OBVIOUS
  <2>2. PICK upper : upper = IF task.engine = "symq" /\ task.quality.by # 0
                             THEN LesserOf(e.upper, QualityBound(CheapestFound(cuts)))
                             ELSE e.upper
    OBVIOUS
  <2>3. new = [e EXCEPT !.cuts = cuts, !.upper = upper]
    BY <1>1, <1>6, <2>1, <2>2 DEF NewSolution, Fields
  <2>4. /\ GoodCuts(cuts) /\ cuts \subseteq Cuts
        /\ RegisteredIn(sol, cuts)
        /\ \A c \in e.cuts : RegisteredIn(c, cuts)
        /\ \A b \in cuts : MadeOf(b, e.cuts \cup {sol})
    BY <1>1, <1>2, <2>1, MergedFacts DEF GoodCuts
  <2>5. CheapestFound(cuts) \in Nat /\ Optimum <= CheapestFound(cuts)
    BY <2>4, CheapestFoundFacts DEF GoodCuts, GoodCut
  <2>6. upper \in Level /\ upper <= e.upper /\ (upper = e.upper \/ Graded(upper))
    <3>1. CASE task.engine = "symq" /\ task.quality.by # 0
      <4>1. PICK q, r : q = QualityBound(Optimum) /\ r = QualityBound(CheapestFound(cuts))
        OBVIOUS
      <4>2. q \in Nat /\ r \in Nat /\ q <= r
        BY <2>5, <3>1, <4>1, QualityBoundFacts, OptionFacts
      <4>3. upper = e.upper \/ (upper = r /\ r <= e.upper)
        BY <1>1, <1>4, <2>2, <3>1, <4>1, <4>2 DEF LesserOf
      <4>4. QED
        BY <1>1, <1>4, <3>1, <4>1, <4>2, <4>3 DEF Graded, Level
    <3>2. CASE ~ (task.engine = "symq" /\ task.quality.by # 0)
      BY <1>1, <1>4, <2>2, <3>2
    <3>3. QED
      BY <3>1, <3>2
  <2>7. new \in Fields /\ new.cuts = cuts /\ new.upper = upper /\ new.lower = e.lower
    BY <1>1, <2>3, <2>4, <2>6 DEF Fields
  <2> HIDE DEF new
  <2>8. \A c \in sym_cuts : RegisteredIn(c, cuts)
    BY <2>4, RegisteredIsTransitive DEF Kept
  <2>9. ASSUME NEW b \in cuts PROVE MadeOf(b, sym_cuts \cup sols)
    <3>1. ASSUME NEW s \in b.cut
          PROVE  \E c \in sym_cuts \cup sols : c.g = b.g /\ c.h = b.h /\ s \in c.cut
      <4>1. PICK a \in e.cuts \cup {sol} : a.g = b.g /\ a.h = b.h /\ s \in a.cut
        BY <2>4 DEF MadeOf
      <4>2. CASE a = sol
        BY <4>1, <4>2
      <4>3. CASE a \in e.cuts
        BY <4>1, <4>3 DEF Kept, MadeOf
      <4>4. QED
        BY <4>2, <4>3
    <3>2. QED
      BY <3>1 DEF MadeOf
  <2>10. upper <= upper_bound /\ (upper = upper_bound \/ Graded(upper))
    <3>1. e.upper <= upper_bound /\ (e.upper = upper_bound \/ Graded(e.upper))
      BY DEF Kept
    <3>2. upper \in Nat /\ e.upper \in Nat /\ upper_bound \in Nat
      BY <1>1, <1>4, <2>6, OptionFacts
    <3>3. QED
      BY <2>6, <3>1, <3>2
  <2>11. new \in Kept(sols)
    BY <2>4, <2>7, <2>8, <2>9, <2>10 DEF Kept
  <2>12. \A c \in sols : RegisteredIn(c, e.cuts) => RegisteredIn(c, new.cuts)
    BY <2>4, <2>7, RegisteredIsTransitive
  <2>13. QED
    BY <2>4, <2>7, <2>11, <2>12 DEF new, Noticed
<1>7. QED
  BY <1>5, <1>6

\* What is left of the engine when a direction has reported its cuts.
LEMMA ReportedFacts ==
    ASSUME Base, NEW sols, GoodCuts(sols), NEW d, NEW e \in Reported(d, sols)
    PROVE  e \in Kept(sols) /\ \A sol \in sols : Noticed(sol, e)
<1>1. IsFiniteSet(sols)
  BY ApartIsFinite DEF GoodCuts
<1>2. PICK I : I = Kept(sols)
  OBVIOUS
<1>3. KeptBy(I, sols)
  <2>1. Now \in Fields
    BY DEF Now, Fields, Base, TypeOK, EngineTypeOK
  <2>2. /\ GoodCuts(Now.cuts) /\ Now.cuts = sym_cuts
        /\ Now.lower = lower_bound /\ Now.upper = upper_bound
    BY DEF Now, Base
  <2>3. \A c \in sym_cuts : RegisteredIn(c, sym_cuts)
    BY DEF RegisteredIn
  <2>4. \A b \in sym_cuts : MadeOf(b, sym_cuts \cup sols)
    BY DEF MadeOf
  <2>5. Now.upper <= upper_bound
    BY <2>2, OptionFacts
  <2>6. Now \in I
    BY <1>2, <2>1, <2>2, <2>3, <2>4, <2>5 DEF Kept
  <2>7. QED
    BY <1>2, <2>6, NewSolutionKept DEF KeptBy
<1>4. e \in Kept(sols)
  BY <1>1, <1>2, <1>3, ReportedStays
<1>5. \A sol \in sols : Noticed(sol, e)
  <2>1. PICK C : C = {p \in sols \X I : Noticed(p[1], p[2])}
    OBVIOUS
  <2>2. HoldsOnceTold(C, I, sols)
    <3>1. ASSUME NEW b \in I, NEW sol \in sols PROVE <<sol, NewSolution(b, sol)>> \in C
      BY <1>2, <2>1, NewSolutionKept
    <3>2. ASSUME NEW b \in I, NEW sol \in sols, NEW s \in sols, <<s, b>> \in C
          PROVE  <<s, NewSolution(b, sol)>> \in C
      BY <1>2, <2>1, <3>2, NewSolutionKept
    <3>3. QED
      BY <3>1, <3>2 DEF HoldsOnceTold
  <2>3. \A sol \in sols : <<sol, e>> \in C
    BY <1>1, <1>3, <2>2, ReportedAll
  <2>4. QED
    BY <2>1, <2>3
<1>6. QED
  BY <1>4, <1>5
-----------------------------------------------------------------------------
(* The cuts that are reported *)

\* The cuts of states reached at cost g lie on its level.
LEMMA AllCutsFacts ==
    ASSUME NEW d \in Dir, NEW g \in Level, NEW states \in SUBSET State,
           NEW sol \in AllCuts(d, g, states)
    PROVE  /\ sol \in Cuts /\ sol.cut # {}
           /\ d = "fw" => sol.g = g /\ sol.cut = states \cap closed["bw"][sol.h]
           /\ d = "bw" => sol.h = g /\ sol.cut = states \cap closed["fw"][sol.g]
           /\ Cost(sol) >= min_g
<1>1. PICK h \in Level :
         /\ sol = [g |-> IF d = "fw" THEN g ELSE h, h |-> IF d = "fw" THEN h ELSE g,
                   cut |-> states \cap closed[Opposite(d)][h]]
         /\ sol.cut # {} /\ Cost(sol) >= min_g
  BY DEF AllCuts
<1>2. CASE d = "fw"
  BY <1>1, <1>2 DEF Cuts, Opposite
<1>3. CASE d = "bw"
  BY <1>1, <1>3 DEF Cuts, Opposite
<1>4. QED
  BY <1>2, <1>3 DEF Dir

\* A cut joins levels that are not too cheap.
LEMMA JoinedIsGood ==
    ASSUME TypeOK, LevelInv, SeedInv, NEW d \in Searches, NEW g \in Level,
           NEW states \in SUBSET State, \A s \in states : task.dist[d][s] <= g,
           NEW sol \in AllCuts(d, g, states)
    PROVE  GoodCut(sol)
<1>1. d \in Dir /\ Opposite(d) \in Dir /\ IsTask(task)
  BY SearchesAssumption, OppositeFacts DEF TypeOK, EngineTypeOK
<1>2. /\ sol \in Cuts /\ sol.cut # {}
      /\ d = "fw" => sol.g = g /\ sol.cut = states \cap closed["bw"][sol.h]
      /\ d = "bw" => sol.h = g /\ sol.cut = states \cap closed["fw"][sol.g]
  BY <1>1, AllCutsFacts
<1>3. /\ sol.g \in Level /\ sol.h \in Level /\ sol.g \in Nat /\ sol.h \in Nat
  BY <1>2, CutFacts
<1>4. PICK s \in State : s \in sol.cut
  BY <1>2, CutFacts
<1>5. /\ OptimalCost(task) \in Nat
      /\ \A e \in Dir : /\ task.dist[e][s] \in Nat
                        /\ CostThrough(task, s) = task.dist[e][s] + task.dist[Opposite(e)][s]
  BY <1>1, DistanceFacts
<1>6. Optimum <= task.dist["fw"][s] + task.dist["bw"][s]
  BY <1>1, OptimumIsLeast DEF Optimum, CostThrough
<1>7. "fw" \in Dir /\ "bw" \in Dir /\ Opposite("fw") = "bw" /\ Opposite("bw") = "fw"
  BY DEF Dir, Opposite
<1>8. task.dist["fw"][s] <= sol.g /\ task.dist["bw"][s] <= sol.h
  <2>1. CASE d = "fw"
    BY <1>2, <1>3, <1>4, <1>7, <2>1 DEF LevelInv
  <2>2. CASE d = "bw"
    BY <1>2, <1>3, <1>4, <1>7, <2>2 DEF LevelInv
  <2>3. QED
    BY <1>1, <2>1, <2>2 DEF Dir
<1>9. Optimum <= Cost(sol)
  BY <1>3, <1>5, <1>6, <1>7, <1>8 DEF Cost, Optimum
<1>10. ASSUME "fw" \notin Searches PROVE sol.g = 0 /\ sol.cut \subseteq {task.init}
  <2>1. d = "bw" /\ "fw" \in Dir \ Searches
    BY <1>1, <1>7, <1>10 DEF Dir
  <2>2. \A x \in sol.cut : sol.g = 0 /\ x \in Source(task, "fw")
    BY <1>2, <1>3, <2>1 DEF SeedInv
  <2>3. QED
    BY <1>4, <2>2 DEF Source
<1>11. ASSUME "bw" \notin Searches PROVE sol.h = 0 /\ sol.cut \subseteq task.goal
  <2>1. d = "fw" /\ "bw" \in Dir \ Searches
    BY <1>1, <1>7, <1>11 DEF Dir
  <2>2. \A x \in sol.cut : sol.h = 0 /\ x \in Source(task, "bw")
    BY <1>2, <1>3, <2>1 DEF SeedInv
  <2>3. QED
    BY <1>4, <2>2 DEF Source
<1>12. QED
  BY <1>2, <1>9, <1>10, <1>11 DEF GoodCut

\* So popping a bucket reports good cuts.
LEMMA AllCutsAreGood ==
    ASSUME TypeOK, LevelInv, SeedInv, NEW d \in Searches, NEW g \in Level,
           NEW states \in SUBSET State, \A s \in states : task.dist[d][s] <= g
    PROVE  GoodCuts(AllCuts(d, g, states))
<1>1. d \in Dir
  BY SearchesAssumption
<1>2. AllCuts(d, g, states) \subseteq Cuts
  BY <1>1, AllCutsFacts
<1>3. \A sol \in AllCuts(d, g, states) : GoodCut(sol)
  BY JoinedIsGood
<1>4. Apart(AllCuts(d, g, states))
  <2> SUFFICES ASSUME NEW a \in AllCuts(d, g, states), NEW b \in AllCuts(d, g, states),
                      a.g = b.g, a.h = b.h
               PROVE  a = b
    BY DEF Apart
  <2>1. a \in Cuts /\ b \in Cuts
    BY <1>2
  <2>2. /\ d = "fw" => /\ a.cut = states \cap closed["bw"][a.h]
                       /\ b.cut = states \cap closed["bw"][b.h]
        /\ d = "bw" => /\ a.cut = states \cap closed["fw"][a.g]
                       /\ b.cut = states \cap closed["fw"][b.g]
    BY <1>1, AllCutsFacts
  <2>3. a.cut = b.cut
    BY <1>1, <2>2 DEF Dir
  <2>4. QED
    BY <2>1, <2>3 DEF Cuts
<1>5. QED
  BY <1>2, <1>3, <1>4 DEF GoodCuts

\* All cuts of the successors.
AllImageCuts(d) ==
    UNION {AllCuts(d, frontier[d].g + c, Image(task, d, c, frontier[d].states)) :
           c \in CostsOf(frontier[d].phase)}

\* What a cost of an operator leads to from the frontier.
LEMMA SuccessorFacts ==
    ASSUME TypeOK, LevelInv, NEW d \in Searches,
           frontier[d].states \subseteq closed[d][frontier[d].g],
           \A c \in CostsOf(frontier[d].phase) : frontier[d].g + c < INT_MAX,
           NEW c \in CostsOf(frontier[d].phase)
    PROVE  /\ c \in DOMAIN task.ops /\ c \in Nat
           /\ frontier[d].g \in Level /\ frontier[d].g \in Nat /\ frontier[d].g + c \in Level
           /\ Image(task, d, c, frontier[d].states) \in SUBSET State
           /\ \A s \in Image(task, d, c, frontier[d].states) :
                 task.dist[d][s] <= frontier[d].g + c
<1>1. d \in Dir /\ IsTask(task)
  BY SearchesAssumption DEF TypeOK, EngineTypeOK
<1>2. frontier[d].g \in Level /\ frontier[d].g \in Nat /\ frontier[d].states \subseteq State
  BY LevelFacts DEF TypeOK, Frontier
<1>3. c \in DOMAIN task.ops /\ c \in Nat
  BY <1>1, MinTransitionCostFacts DEF CostsOf
<1>4. frontier[d].g + c \in Level
  BY <1>2, <1>3, LevelFacts DEF Level
<1>5. ASSUME NEW s \in Image(task, d, c, frontier[d].states)
      PROVE  task.dist[d][s] <= frontier[d].g + c
  <2>1. PICK x \in frontier[d].states : Edge(task, d, c, x, s) /\ s \in State
    BY DEF Image
  <2>2. x \in State /\ x \in closed[d][frontier[d].g]
    BY <1>2, <2>1
  <2>3. task.dist[d][x] <= frontier[d].g
    BY <1>1, <1>2, <2>2 DEF LevelInv
  <2>4. task.dist[d][s] <= task.dist[d][x] + c
    BY <1>1, <1>3, <2>1, <2>2 DEF IsTask, IsDistance
  <2>5. task.dist[d][x] \in Nat /\ task.dist[d][s] \in Nat
    BY <1>1, <2>1, <2>2, DistanceFacts
  <2>6. QED
    BY <1>2, <1>3, <2>3, <2>4, <2>5
<1>6. QED
  BY <1>2, <1>3, <1>4, <1>5, ImageType

\* So an image reports good cuts.
LEMMA ImageCutsAreGood ==
    ASSUME TypeOK, LevelInv, SeedInv, NEW d \in Searches,
           frontier[d].states \subseteq closed[d][frontier[d].g],
           \A c \in CostsOf(frontier[d].phase) : frontier[d].g + c < INT_MAX
    PROVE  GoodCuts(AllImageCuts(d))
<1> DEFINE S(c) == Image(task, d, c, frontier[d].states)
           C(c) == AllCuts(d, frontier[d].g + c, S(c))
<1>1. d \in Dir
  BY SearchesAssumption
<1>2. ASSUME NEW c \in CostsOf(frontier[d].phase) PROVE GoodCuts(C(c))
  BY SuccessorFacts, AllCutsAreGood
<1>3. \A sol \in AllImageCuts(d) : \E c \in CostsOf(frontier[d].phase) : sol \in C(c)
  BY DEF AllImageCuts
<1>4. AllImageCuts(d) \subseteq Cuts /\ \A sol \in AllImageCuts(d) : GoodCut(sol)
  BY <1>2, <1>3 DEF GoodCuts
<1>5. Apart(AllImageCuts(d))
  <2> SUFFICES ASSUME NEW a \in AllImageCuts(d), NEW b \in AllImageCuts(d),
                      a.g = b.g, a.h = b.h
               PROVE  a = b
    BY DEF Apart
  <2>1. PICK m \in CostsOf(frontier[d].phase) : a \in C(m)
    BY <1>3
  <2>2. PICK n \in CostsOf(frontier[d].phase) : b \in C(n)
    BY <1>3
  <2>3. /\ m \in Nat /\ frontier[d].g + m \in Level /\ S(m) \in SUBSET State
        /\ n \in Nat /\ frontier[d].g + n \in Level /\ S(n) \in SUBSET State
        /\ frontier[d].g \in Nat
    BY SuccessorFacts
  <2>4. /\ d = "fw" => a.g = frontier[d].g + m
        /\ d = "bw" => a.h = frontier[d].g + m
    <3> HIDE DEF S
    <3>1. QED
      BY <1>1, <2>1, <2>3, AllCutsFacts
  <2>5. /\ d = "fw" => b.g = frontier[d].g + n
        /\ d = "bw" => b.h = frontier[d].g + n
    <3> HIDE DEF S
    <3>1. QED
      BY <1>1, <2>2, <2>3, AllCutsFacts
  <2>6. m = n
    BY <1>1, <2>3, <2>4, <2>5 DEF Dir
  <2> HIDE DEF S, C
  <2>7. Apart(C(m)) /\ b \in C(m)
    BY <1>2, <2>2, <2>6 DEF GoodCuts
  <2>8. QED
    BY <2>1, <2>7 DEF Apart
<1>6. QED
  BY <1>4, <1>5 DEF GoodCuts

\* The empty plan is a good cut.
LEMMA EmptyPlanIsGood ==
    ASSUME TypeOK
    PROVE  GoodCuts(EmptyPlan)
<1>1. EngineTypeOK /\ IsTask(task)
  BY DEF TypeOK, EngineTypeOK
<1>2. EmptyPlan \subseteq Cuts
  BY <1>1, EmptyPlanType
<1>3. \A sol \in EmptyPlan : Optimum <= Cost(sol)
  BY <1>1, EmptyPlanIsSound
<1>4. \A sol \in EmptyPlan : /\ sol.cut = {task.init} /\ sol.g = 0 /\ sol.h = 0
                             /\ task.init \in task.goal
  BY DEF EmptyPlan
<1>5. \A a, b \in EmptyPlan : a = b
  BY DEF EmptyPlan
<1>6. QED
  BY <1>2, <1>3, <1>4, <1>5 DEF GoodCuts, GoodCut, Apart
-----------------------------------------------------------------------------
(* Simple plans *)

\* The states on the path of a plan are those on its way, each of them once.
LEMMA WayIsCounted ==
    ASSUME TaskOK, task.init \in State, NEW ops \in Seq(Operators),
           NEW w, Way(w, State, Relations, ops), w[0] = task.init
    PROVE  IsSimple(ops)
<1>1. PICK s \in State : s = task.init
  OBVIOUS
<1> DEFINE S == {s}
<1>2. S \in StateSets
  BY DEF StateSets
<1> HIDE DEF S
<1>3. S = {s} /\ s = task.init
  BY <1>1 DEF S
<1>4. PICK f : Chain(f, StateSets, Applying, S, ops)
  BY <1>2, RunPlanChain
<1>5. Singles(f, w, ops)
  BY <1>3, <1>4, WayIsRun
<1>6. Len(ops) \in Nat /\ \A n \in 0 .. Len(ops) : RunPlan(S, SubSeq(ops, 1, n)) = {w[n]}
  BY <1>2, <1>4, <1>5, PartOfRun DEF Singles
<1>7. StatesOnPath(ops) = UNION {{w[n]} : n \in 0 .. Len(ops)}
  BY <1>3, <1>6 DEF StatesOnPath
<1>8. PICK n, P : n = Len(ops) + 1 /\ P = StatesOnPath(ops)
  OBVIOUS
<1> DEFINE e == [k \in 1 .. n |-> w[k - 1]]
<1>9. n \in Nat /\ \A k \in 1 .. n : k - 1 \in 0 .. Len(ops)
  BY <1>6, <1>8
<1>10. \A k, m \in 1 .. n : e[k] = e[m] => k = m
  <2> SUFFICES ASSUME NEW k \in 1 .. n, NEW m \in 1 .. n, e[k] = e[m] PROVE k = m
    OBVIOUS
  <2>1. k - 1 = m - 1
    BY <1>9 DEF Way
  <2>2. QED
    BY <1>9, <2>1
<1>11. ASSUME NEW x \in P PROVE \E k \in 1 .. n : e[k] = x
  <2>1. PICK m \in 0 .. Len(ops) : x = w[m]
    BY <1>7, <1>8, <1>11
  <2>2. m + 1 \in 1 .. n /\ (m + 1) - 1 = m
    BY <1>6, <1>8
  <2>3. QED
    BY <2>1, <2>2
<1>12. e \in [1 .. n -> P]
  BY <1>7, <1>8, <1>9
<1> HIDE DEF e
<1>13. ExistsBijection(1 .. n, P)
  <2>1. e \in Injection(1 .. n, P)
    BY <1>10, <1>12 DEF Injection, IsInjective
  <2>2. e \in Surjection(1 .. n, P)
    BY <1>11, <1>12 DEF Surjection
  <2>3. QED
    BY <2>1, <2>2 DEF ExistsBijection, Bijection
<1>14. Cardinality(P) = n
  BY <1>9, <1>13, FS_CountingElements
<1>15. QED
  BY <1>8, <1>14 DEF IsSimple

-----------------------------------------------------------------------------
(* The engine *)

\* The lists of the searches, and the cuts that are registered.
EngineInv ==
    /\ task \in Tasks
    /\ TypeOK /\ LevelInv /\ SeedInv /\ LayerInv
    /\ GoodCuts(sym_cuts)
    /\ \A d \in Searches : /\ frontier[d].states \subseteq closed[d][frontier[d].g]
                           /\ lastStepCost[d] => Keys(open[d]) = {}
    /\ last_g_cost \in [Searches -> Level]
    /\ limit \in Level

\* What a plan that is accepted must be.
IsPlan(p) ==
    /\ p \in OperatorSeqs
    /\ RunPlan({task.init}, p) \cap task.goal # {}
    /\ Optimum <= PlanCost(p)
    /\ task.simple => IsSimple(p)

\* What a node that waits must be.
Promised(node, f) ==
    /\ NodeInv(node, f)
    /\ Executable(node)
    /\ task.simple => NodeSimple(node)

\* The plans, and the nodes they are made of.
PlansInv ==
    /\ registry \in {"idle", "construct", "reconstruct"}
    /\ registry # "reconstruct" => queue = {}
    /\ \E f \in Nat : Optimum <= f /\ \A n \in queue : Promised(n, f)
    /\ rejected \subseteq OperatorSeqs
    /\ \A p \in plan : IsPlan(p)

\* Together they are what the lemmas above ask for.
LEMMA WhatHolds ==
    ASSUME EngineInv, PlansInv
    PROVE  /\ Base /\ Found /\ IsTask(task) /\ EngineTypeOK
           /\ sym_cuts \subseteq Cuts
           /\ \A sol \in sym_cuts : GoodCut(sol)
           /\ \A d \in Searches : d \in Dir /\ Opposite(d) \in Dir
<1>1. TypeOK /\ task \in Tasks /\ LevelInv /\ SeedInv /\ LayerInv /\ GoodCuts(sym_cuts)
  BY DEF EngineInv
<1>2. Base
  BY <1>1 DEF PlansInv, IsPlan, Base
<1>3. CutInv
  BY <1>1 DEF GoodCuts, GoodCut, CutInv
<1>4. Found
  BY <1>1, <1>3, OperatorsAssumption DEF Found
<1>5. QED
  BY <1>1, <1>2, <1>4, SearchesAssumption, OppositeFacts DEF TypeOK, EngineTypeOK, GoodCuts

\* They only depend on the task.
LEMMA StableCuts ==
    ASSUME task' = task
    PROVE  /\ \A sol : GoodCut(sol)' = GoodCut(sol)
           /\ Optimum' = Optimum
BY DEF GoodCut, Cost, Optimum, OptimalCost

\* The same of plans and nodes.
LEMMA StablePlans ==
    ASSUME task' = task
    PROVE  /\ \A p : IsPlan(p)' = IsPlan(p)
           /\ \A node, f : Promised(node, f)' = Promised(node, f)
           /\ Optimum' = Optimum /\ OperatorSeqs' = OperatorSeqs
<1>1. /\ \A ops : RunPlan({task.init}, ops)' = RunPlan({task.init}, ops)
      /\ \A ops : PlanCost(ops)' = PlanCost(ops)
      /\ \A node, f : NodeInv(node, f)' = NodeInv(node, f)
  BY Stable
<1>2. /\ \A node : NodeSimple(node)' = NodeSimple(node)
      /\ \A ops : IsSimple(ops)' = IsSimple(ops)
  BY StableSimple DEF IsSimple, StatesOnPath, RunPlan, ApplyOperator
<1>3. OperatorSeqs' = OperatorSeqs /\ Optimum' = Optimum
  BY DEF OperatorSeqs, Operators, Optimum, OptimalCost
<1>4. \A p : IsPlan(p)' = IsPlan(p)
  BY <1>1, <1>2, <1>3 DEF IsPlan
<1>5. \A node : Executable(node)' = Executable(node)
  BY DEF Executable, RunPlan, ApplyOperator
<1>6. \A node, f : Promised(node, f)' = Promised(node, f)
  BY <1>1, <1>2, <1>5 DEF Promised
<1>7. QED
  BY <1>3, <1>4, <1>6

\* A step that leaves the lists alone only has to keep the registry good.
LEMMA EngineFrame ==
    ASSUME EngineInv, TypeOK',
           UNCHANGED <<task, open, closed, lastStepCost, zeroCostClosed>>,
           GoodCuts(sym_cuts'),
           \A d \in Searches : /\ frontier'[d].g = frontier[d].g
                               /\ frontier'[d].states \subseteq frontier[d].states,
           last_g_cost' = last_g_cost, limit' \in Level
    PROVE  EngineInv'
<1>1. task' \in Tasks /\ last_g_cost' \in [Searches -> Level] /\ limit' \in Level
  BY DEF EngineInv
<1>2. LevelInv' /\ SeedInv' /\ LayerInv'
  BY DEF EngineInv, LevelInv, SeedInv, LayerInv, StateSets
<1>3. GoodCuts(sym_cuts)'
  BY StableCuts DEF GoodCuts, Apart
<1>4. ASSUME NEW d \in Searches
      PROVE  /\ frontier'[d].states \subseteq closed'[d][frontier'[d].g]
             /\ lastStepCost'[d] => Keys(open'[d]) = {}
  BY DEF EngineInv
<1>5. QED
  BY <1>1, <1>2, <1>3, <1>4 DEF EngineInv

\* So does a step that reports no cut and leaves the registry alone.
LEMMA PlansFrame ==
    ASSUME PlansInv, UNCHANGED <<task, registryVars, rejected>>
    PROVE  PlansInv'
<1>1. UNCHANGED <<registry, queue, plan, rejected>>
  BY DEF registryVars
<1>2. PICK f \in Nat : Optimum <= f /\ \A n \in queue : Promised(n, f)
  BY DEF PlansInv
<1>3. \A n \in queue' : Promised(n, f)'
  BY <1>1, <1>2, StablePlans
<1>4. Optimum' <= f
  BY <1>2, StablePlans
<1>5. \A p \in plan' : IsPlan(p)'
  BY <1>1, StablePlans DEF PlansInv
<1>6. rejected' \subseteq OperatorSeqs'
  BY <1>1, StablePlans DEF PlansInv
<1>7. QED
  BY <1>1, <1>3, <1>4, <1>5, <1>6 DEF PlansInv

\* What is inherited is a step of a lossy engine, and Return is one.
LEMMA InheritedStep ==
    ASSUME EngineInv, PlansInv, UNCHANGED <<registryVars, rejected, limit>>,
           \/ \E d \in Searches : Inherited(d)
           \/ Return /\ UNCHANGED <<zeroCostClosed, last_g_cost>>
    PROVE  EngineInv' /\ PlansInv'
<1>1. [LossyNext]_vars
  BY DEF LossyNext, Inherited
<1>2. TypeOK /\ TypeOK' /\ task' = task
  BY <1>1, LossyType, LossyKeepsTask DEF EngineInv
<1>3. UNCHANGED <<task, open, closed, lastStepCost, zeroCostClosed, sym_cuts, last_g_cost>>
  BY DEF Inherited, BucketReady, Prepare, PrepareTruncated, ExpandTruncated, Finish, Return,
         search, engine
<1>4. \A d \in Searches : /\ frontier'[d].g = frontier[d].g
                          /\ frontier'[d].states \subseteq frontier[d].states
  <2>1. CASE UNCHANGED frontier
    BY <2>1
  <2>2. CASE \E d \in Searches : \/ Prepare(d) /\ frontier[d].phase = "filter"
                                 \/ PrepareTruncated(d)
    <3>1. PICK d \in Searches : \/ Prepare(d) /\ frontier[d].phase = "filter"
                                \/ PrepareTruncated(d)
      BY <2>2
    <3>2. Filtered(d)
      BY <1>2, <3>1, FilteredFacts
    <3>3. QED
      BY <3>2 DEF Filtered
  <2>3. QED
    BY <2>1, <2>2 DEF Inherited, BucketReady, Prepare, ExpandTruncated, Finish, Return, search
<1>5. GoodCuts(sym_cuts') /\ limit' \in Level
  BY <1>3 DEF EngineInv
<1>6. EngineInv'
  BY <1>2, <1>3, <1>4, <1>5, EngineFrame
<1>7. QED
  BY <1>2, <1>6, PlansFrame
-----------------------------------------------------------------------------
(* The steps of the engine *)

\* What a report leaves behind has the types of the engine.
LEMMA ReportType ==
    ASSUME EngineInv, PlansInv, NEW sols, GoodCuts(sols), NEW d, NEW e \in Reported(d, sols)
    PROVE  /\ GoodCuts(e.cuts) /\ e.cuts \subseteq Cuts
           /\ e.lower \in Level /\ e.upper \in Level
           /\ e.lower \in Nat /\ e.upper \in Nat /\ e.lower <= INT_MAX
<1>1. e \in Kept(sols)
  BY WhatHolds, ReportedFacts
<1>2. e \in Fields /\ GoodCuts(e.cuts)
  BY <1>1 DEF Kept
<1>3. QED
  BY <1>2, LevelFacts DEF Fields

\* The driver begins a step.
LEMMA StartStepInv == EngineInv /\ PlansInv /\ StartStep => EngineInv' /\ PlansInv'
<1> SUFFICES ASSUME EngineInv, PlansInv, StartStep PROVE EngineInv' /\ PlansInv'
  OBVIOUS
<1>1. PICK e \in Reported("fw", EmptyPlan) :
          /\ sym_cuts' = e.cuts
          /\ lower_bound' = e.lower
          /\ upper_bound' = e.upper
          /\ limit' = IF e.lower >= e.upper THEN Remaining(e.upper)
                      ELSE IF lower_bound_increased THEN Settled(e.lower) ELSE 0
  BY DEF StartStep
<1>2. /\ lower_bound_increased' = FALSE /\ registry' = "construct" /\ registry = "idle"
      /\ UNCHANGED <<task, status, min_g, search, control, zeroCostClosed, queue, plan,
                     rejected, last_g_cost>>
  BY DEF StartStep
<1>3. TypeOK /\ EngineTypeOK
  BY DEF EngineInv, TypeOK
<1>4. /\ GoodCuts(e.cuts) /\ e.cuts \subseteq Cuts /\ e.lower \in Level /\ e.upper \in Level
  BY <1>3, EmptyPlanIsGood, ReportType
<1>5. UNCHANGED <<frontier, open, closed, lastStepCost, pc, dir, increases, failed>>
  BY <1>2 DEF search, control
<1>6. TypeOK'
  <2>1. EngineTypeOK'
    BY <1>1, <1>2, <1>3, <1>4, <1>5 DEF EngineTypeOK
  <2>2. QED
    BY <1>3, <1>5, <2>1 DEF TypeOK
<1>7. limit' \in Level
  BY <1>1, <1>4, LevelFacts DEF Remaining, Settled
<1>8. EngineInv'
  BY <1>1, <1>2, <1>4, <1>5, <1>6, <1>7, EngineFrame
<1>9. PICK f \in Nat : Optimum <= f /\ \A n \in queue : Promised(n, f)
  BY DEF PlansInv
<1>10. \A n \in queue' : Promised(n, f)'
  BY <1>2, <1>9, StablePlans
<1>11. /\ Optimum' <= f /\ (\A p \in plan' : IsPlan(p)') /\ rejected' \subseteq OperatorSeqs'
       /\ queue' = {}
  BY <1>2, <1>9, StablePlans DEF PlansInv
<1>12. QED
  BY <1>2, <1>8, <1>10, <1>11 DEF PlansInv

\* A direction proves that it is of no further use.
LEMMA NoMorePlansInv ==
    ASSUME EngineInv, PlansInv, NEW d \in Searches, NoMorePlans(d),
           UNCHANGED <<registryVars, rejected, limit>>
    PROVE  EngineInv' /\ PlansInv'
<1>1. TypeOK /\ EngineTypeOK
  BY DEF EngineInv, TypeOK
<1>2. /\ UNCHANGED <<task, search, dir, increases, failed, status, upper_bound, min_g,
                     sym_cuts, zeroCostClosed, last_g_cost>>
      /\ SetLowerBound(INT_MAX)
      /\ pc' \in {"drain", "return", "step"}
  BY DEF NoMorePlans, ReturnPoint
<1>3. UNCHANGED <<frontier, open, closed, lastStepCost>>
  BY <1>2 DEF search
<1>4. lower_bound' \in Level /\ lower_bound_increased' \in BOOLEAN
  BY <1>1, <1>2, SetLowerBoundType, LevelFacts DEF EngineTypeOK
<1>5. TypeOK'
  <2>1. EngineTypeOK'
    BY <1>1, <1>2, <1>3, <1>4 DEF EngineTypeOK
  <2>2. QED
    BY <1>1, <1>2, <1>3, <2>1 DEF TypeOK
<1>6. GoodCuts(sym_cuts') /\ limit' \in Level
  BY <1>2 DEF EngineInv
<1>7. EngineInv'
  BY <1>2, <1>3, <1>5, <1>6, EngineFrame
<1>8. QED
  BY <1>2, <1>7, PlansFrame

\* What an image does to the engine.
LEMMA ExpandedTo ==
    ASSUME EngineInv, PlansInv, NEW d \in Searches, ExpandFrontier(d)
    PROVE  \E e \in Reported(d, AllImageCuts(d)) :
              /\ sym_cuts' = e.cuts /\ lower_bound' = e.lower /\ upper_bound' = e.upper
              /\ GoodCuts(AllImageCuts(d))
<1>1. \A c \in CostsOf(frontier[d].phase) : frontier[d].g + c < INT_MAX
  BY DEF ExpandFrontier
<1>2. GoodCuts(AllImageCuts(d))
  BY <1>1, ImageCutsAreGood DEF EngineInv
<1>3. QED
  BY <1>2 DEF ExpandFrontier, AllImageCuts

\* Its successors lie on levels that are not too cheap.
LEMMA ExpandFrontierInv ==
    ASSUME EngineInv, PlansInv, NEW d \in Searches, ExpandFrontier(d),
           UNCHANGED <<registryVars, rejected, limit>>
    PROVE  EngineInv' /\ PlansInv'
<1> DEFINE Succ(c) == Image(task, d, c, frontier[d].states)
           costs == CostsOf(frontier[d].phase)
<1>1. TypeOK /\ EngineTypeOK /\ LevelInv /\ d \in Dir /\ IsTask(task)
  BY SearchesAssumption DEF EngineInv, TypeOK, EngineTypeOK
<1>2. PICK e \in Reported(d, AllImageCuts(d)) :
              /\ sym_cuts' = e.cuts /\ lower_bound' = e.lower /\ upper_bound' = e.upper
              /\ GoodCuts(AllImageCuts(d))
  BY ExpandedTo
<1>3. GoodCuts(e.cuts) /\ e.cuts \subseteq Cuts /\ e.lower \in Level /\ e.upper \in Level
  BY <1>2, ReportType
<1>4. /\ \A c \in costs : frontier[d].g + c < INT_MAX
      /\ open' = [open EXCEPT ![d] = [g \in Level |->
             open[d][g] \cup UNION {Succ(c) : c \in {k \in costs : frontier[d].g + k = g}}]]
      /\ frontier' = [frontier EXCEPT ![d] =
             IF frontier[d].phase = "zero"
             THEN [frontier[d] EXCEPT !.phase = "cost"]
             ELSE [frontier[d] EXCEPT !.phase = "empty", !.states = {}]]
      /\ lastStepCost' = [lastStepCost EXCEPT ![d] = FALSE]
      /\ failed' = [failed EXCEPT ![d] = FALSE]
      /\ pc' = "drain"
      /\ UNCHANGED <<task, status, lower_bound_increased, min_g, closed, dir, increases,
                     zeroCostClosed, last_g_cost>>
  BY DEF ExpandFrontier
<1>5. \A c \in costs : /\ Succ(c) \subseteq State
                       /\ \A s \in Succ(c) : task.dist[d][s] <= frontier[d].g + c
  BY <1>1, <1>4, SuccessorFacts DEF EngineInv
<1> HIDE DEF Succ, costs
<1>6. open' \in [Searches -> Levels]
  <2>1. [g \in Level |->
            open[d][g] \cup UNION {Succ(c) : c \in {k \in costs : frontier[d].g + k = g}}]
        \in Levels
    BY <1>1, <1>5 DEF TypeOK, Levels
  <2>2. QED
    BY <1>1, <1>4, <2>1 DEF TypeOK
<1>7. frontier' \in [Searches -> Frontier]
  <2>1. frontier[d] \in Frontier
    BY <1>1 DEF TypeOK
  <2>2. /\ [frontier[d] EXCEPT !.phase = "cost"] \in Frontier
        /\ [frontier[d] EXCEPT !.phase = "empty", !.states = {}] \in Frontier
    BY <2>1 DEF Frontier, Phases
  <2>3. QED
    BY <1>1, <1>4, <2>2 DEF TypeOK
<1>8. TypeOK'
  <2>1. EngineTypeOK'
    BY <1>1, <1>2, <1>3, <1>4 DEF EngineTypeOK
  <2>2. lastStepCost' \in [Searches -> BOOLEAN] /\ failed' \in [Searches -> BOOLEAN]
    BY <1>1, <1>4 DEF TypeOK
  <2>3. QED
    BY <1>1, <1>4, <1>6, <1>7, <2>1, <2>2 DEF TypeOK
<1>9. LevelInv'
  <2>1. ASSUME NEW b \in Searches, NEW g \in Level, NEW s \in open'[b][g]
        PROVE  task.dist[b][s] <= g
    <3>1. CASE b # d \/ s \in open[d][g]
      BY <1>1, <1>4, <3>1 DEF LevelInv, TypeOK
    <3>2. CASE b = d /\ s \notin open[d][g]
      <4>1. PICK c \in costs : frontier[d].g + c = g /\ s \in Succ(c)
        BY <1>1, <1>4, <3>2 DEF TypeOK
      <4>2. QED
        BY <1>5, <3>2, <4>1
    <3>3. QED
      BY <3>1, <3>2
  <2>2. QED
    BY <1>1, <1>4, <2>1 DEF LevelInv
<1>10. SeedInv' /\ LayerInv'
  BY <1>4 DEF EngineInv, SeedInv, LayerInv, StateSets
<1>11. GoodCuts(sym_cuts)'
  BY <1>2, <1>3, <1>4, StableCuts DEF GoodCuts, Apart
<1>12. ASSUME NEW b \in Searches
       PROVE  /\ frontier'[b].states \subseteq closed'[b][frontier'[b].g]
              /\ lastStepCost'[b] => Keys(open'[b]) = {}
  <2>1. CASE b # d
    BY <1>1, <1>4, <2>1 DEF EngineInv, TypeOK
  <2>2. CASE b = d
    <3>1. ~lastStepCost'[d]
      BY <1>1, <1>4 DEF TypeOK
    <3>2. frontier[d] \in Frontier
      BY <1>1 DEF TypeOK
    <3>3. /\ frontier'[d].g = frontier[d].g
          /\ frontier'[d].states \subseteq frontier[d].states
      BY <1>1, <1>4, <3>2 DEF TypeOK, Frontier
    <3>4. QED
      BY <1>4, <2>2, <3>1, <3>3 DEF EngineInv
  <2>3. QED
    BY <2>1, <2>2
<1>13. EngineInv'
  BY <1>4, <1>8, <1>9, <1>10, <1>11, <1>12 DEF EngineInv
<1>14. QED
  BY <1>4, <1>13, PlansFrame
\* What popping a bucket does to the engine: e is what the report leaves, new
\* what the filter leaves of the bucket.
PoppedTo(d, e, new) ==
    LET g == MinG(open[d])
        rest == [open[d] EXCEPT ![g] = {}]
        fr == [g |-> g, states |-> new, phase |-> IF new = {} THEN "empty" ELSE "filter"]
    IN /\ e \in Reported(d, AllCuts(d, g, open[d][g]))
       /\ new \in FilterSameCost(d, g, open[d][g])
       /\ sym_cuts' = e.cuts
       /\ upper_bound' = e.upper
       /\ lower_bound' = GreaterOf(e.lower, GetF(fr, rest))
       /\ lower_bound_increased' = (lower_bound_increased \/ GetF(fr, rest) > e.lower)
       /\ frontier' = [frontier EXCEPT ![d] = fr]
       /\ closed' = IF lastStepCost[d] /\ g = 0 THEN closed
                    ELSE [closed EXCEPT ![d][g] = @ \cup new]
       /\ SetMinG(GetG(fr, rest))
       /\ open' = [open EXCEPT ![d] = rest]
       /\ last_g_cost' = [last_g_cost EXCEPT ![d] = g]

\* PopBucket does so.
LEMMA PopBucketFacts ==
    ASSUME NEW d \in Searches, PopBucket(d)
    PROVE  /\ PopReady(d) /\ ~ProvableNoMorePlans(d)
           /\ \E e, new : PoppedTo(d, e, new)
           /\ pc' \in {"drain", "return", "step", "prepare"}
           /\ IF HasZeroCost(task) /\ closed' # closed
              THEN RecordLayers(d) ELSE UNCHANGED zeroCostClosed
           /\ UNCHANGED <<task, status, lastStepCost, dir, increases, failed>>
<1>1. /\ PopReady(d) /\ ~ProvableNoMorePlans(d)
      /\ pc' \in {"drain", "return", "step", "prepare"}
      /\ IF HasZeroCost(task) /\ closed' # closed
         THEN RecordLayers(d) ELSE UNCHANGED zeroCostClosed
      /\ UNCHANGED <<task, status, lastStepCost, dir, increases, failed>>
  BY DEF PopBucket, ReturnPoint
<1>2. \E e, new : PoppedTo(d, e, new)
  BY DEF PopBucket, PoppedTo
<1>3. QED
  BY <1>1, <1>2

\* A bucket of open states, none of which is listed too cheaply, is moved to the
\* closed list; what is not moved is closed already.
LEMMA PoppedFacts ==
    ASSUME EngineInv, PlansInv, NEW d \in Searches, PopReady(d), NEW e, NEW new,
           PoppedTo(d, e, new)
    PROVE  /\ MinG(open[d]) \in Keys(open[d]) /\ MinG(open[d]) \in Level
           /\ \A k \in Keys(open[d]) : MinG(open[d]) <= k
           /\ GoodCuts(AllCuts(d, MinG(open[d]), open[d][MinG(open[d])]))
           /\ GoodCuts(e.cuts) /\ e.cuts \subseteq Cuts
           /\ e.lower \in Level /\ e.upper \in Level
           /\ new \subseteq open[d][MinG(open[d])] \ closed[d][MinG(open[d])]
           /\ new \subseteq State
           /\ closed' = [closed EXCEPT ![d][MinG(open[d])] = @ \cup new]
           /\ closed' \in [Dir -> Levels]
           /\ open' \in [Searches -> Levels]
           /\ frontier' \in [Searches -> Frontier]
           /\ \A k \in Level : open'[d][k] = IF k = MinG(open[d]) THEN {} ELSE open[d][k]
           /\ \A b \in Searches \ {d} : open'[b] = open[b] /\ frontier'[b] = frontier[b]
           /\ frontier'[d].g = MinG(open[d]) /\ frontier'[d].states = new
           /\ frontier'[d].phase = IF new = {} THEN "empty" ELSE "filter"
           /\ ~lastStepCost[d]
           /\ lower_bound' = GreaterOf(e.lower, GetF(frontier'[d], open'[d]))
           /\ GetF(frontier'[d], open'[d]) \in Int /\ GetF(frontier'[d], open'[d]) <= INT_MAX
           /\ min_g' = GreaterOf(min_g, GetG(frontier'[d], open'[d]))
           /\ GetG(frontier'[d], open'[d]) \in Level
           /\ sym_cuts' = e.cuts /\ upper_bound' = e.upper
           /\ lower_bound_increased' \in BOOLEAN
           /\ last_g_cost' = [last_g_cost EXCEPT ![d] = MinG(open[d])]
<1>1. TypeOK /\ EngineTypeOK /\ LevelInv /\ SeedInv /\ d \in Dir /\ IsTask(task)
  BY SearchesAssumption DEF EngineInv, TypeOK, EngineTypeOK
<1>2. PICK g, rest, fr :
         /\ g = MinG(open[d])
         /\ rest = [open[d] EXCEPT ![g] = {}]
         /\ fr = [g |-> g, states |-> new, phase |-> IF new = {} THEN "empty" ELSE "filter"]
  OBVIOUS
<1>3. /\ e \in Reported(d, AllCuts(d, g, open[d][g]))
      /\ new \in FilterSameCost(d, g, open[d][g])
      /\ sym_cuts' = e.cuts
      /\ upper_bound' = e.upper
      /\ lower_bound' = GreaterOf(e.lower, GetF(fr, rest))
      /\ lower_bound_increased' = (lower_bound_increased \/ GetF(fr, rest) > e.lower)
      /\ frontier' = [frontier EXCEPT ![d] = fr]
      /\ closed' = IF lastStepCost[d] /\ g = 0 THEN closed
                   ELSE [closed EXCEPT ![d][g] = @ \cup new]
      /\ SetMinG(GetG(fr, rest))
      /\ open' = [open EXCEPT ![d] = rest]
      /\ last_g_cost' = [last_g_cost EXCEPT ![d] = g]
  BY <1>2 DEF PoppedTo
<1>4. open[d] \in Levels /\ Keys(open[d]) # {}
  BY <1>1 DEF TypeOK, PopReady
<1>5. g \in Keys(open[d]) /\ g \in Level /\ \A k \in Keys(open[d]) : g <= k
  BY <1>2, <1>4, MinGFacts
<1>6. ~lastStepCost[d]
  BY <1>4 DEF EngineInv
<1>7. open[d][g] \in SUBSET State /\ \A s \in open[d][g] : task.dist[d][s] <= g
  BY <1>1, <1>4, <1>5 DEF Levels, LevelInv
<1>8. GoodCuts(AllCuts(d, g, open[d][g]))
  BY <1>1, <1>5, <1>7, AllCutsAreGood
<1>9. GoodCuts(e.cuts) /\ e.cuts \subseteq Cuts /\ e.lower \in Level /\ e.upper \in Level
  BY <1>3, <1>8, ReportType
<1>10. new \subseteq open[d][g] \ closed[d][g] /\ new \subseteq State
  BY <1>3, <1>7 DEF FilterSameCost, FilteredInPart
<1>11. closed' = [closed EXCEPT ![d][g] = @ \cup new]
  BY <1>3, <1>6
<1>12. closed' \in [Dir -> Levels]
  BY <1>1, <1>5, <1>10, <1>11 DEF EngineTypeOK, Levels
<1>13. rest \in Levels /\ open' \in [Searches -> Levels] /\ open'[d] = rest
  BY <1>1, <1>2, <1>3, <1>4 DEF TypeOK, Levels
<1>14. fr \in Frontier /\ frontier' \in [Searches -> Frontier] /\ frontier'[d] = fr
  BY <1>1, <1>2, <1>3, <1>5, <1>10 DEF TypeOK, Frontier, Phases
<1>15. GetG(fr, rest) \in Level /\ GetF(fr, rest) \in Int /\ GetF(fr, rest) <= INT_MAX
  BY <1>1, <1>13, <1>14, GetFFacts
<1>16. \A k \in Level : open'[d][k] = IF k = g THEN {} ELSE open[d][k]
  BY <1>2, <1>4, <1>13 DEF Levels
<1>17. \A b \in Searches \ {d} : open'[b] = open[b] /\ frontier'[b] = frontier[b]
  BY <1>1, <1>3 DEF TypeOK
<1>18. lower_bound_increased' \in BOOLEAN
  BY <1>1, <1>3 DEF EngineTypeOK
<1>19. /\ frontier'[d].g = g /\ frontier'[d].states = new
       /\ frontier'[d].phase = IF new = {} THEN "empty" ELSE "filter"
  BY <1>2, <1>14
<1>20. min_g' = GreaterOf(min_g, GetG(fr, rest))
  BY <1>3 DEF SetMinG
<1>21. QED
  BY <1>2, <1>3, <1>5, <1>6, <1>8, <1>9, <1>10, <1>11, <1>12, <1>13, <1>14, <1>15, <1>16, <1>17,
     <1>18, <1>19, <1>20

\* So no level gets too cheap.
LEMMA PopBucketInv ==
    ASSUME EngineInv, PlansInv, NEW d \in Searches, PopBucket(d),
           UNCHANGED <<registryVars, rejected, limit>>
    PROVE  EngineInv' /\ PlansInv'
<1>1. TypeOK /\ EngineTypeOK /\ LevelInv /\ SeedInv /\ LayerInv /\ d \in Dir
  BY SearchesAssumption DEF EngineInv, TypeOK
<1>2. /\ PopReady(d)
      /\ \E e, new : PoppedTo(d, e, new)
      /\ pc' \in {"drain", "return", "step", "prepare"}
      /\ IF HasZeroCost(task) /\ closed' # closed
         THEN RecordLayers(d) ELSE UNCHANGED zeroCostClosed
      /\ UNCHANGED <<task, status, lastStepCost, dir, increases, failed>>
  BY PopBucketFacts
<1>3. PICK e, new : PoppedTo(d, e, new)
  BY <1>2
<1>4. PICK g : g = MinG(open[d])
  OBVIOUS
<1>5. /\ g \in Level
      /\ GoodCuts(e.cuts) /\ e.cuts \subseteq Cuts /\ e.lower \in Level /\ e.upper \in Level
      /\ new \subseteq open[d][g] \ closed[d][g] /\ new \subseteq State
      /\ closed' = [closed EXCEPT ![d][g] = @ \cup new] /\ closed' \in [Dir -> Levels]
      /\ open' \in [Searches -> Levels] /\ frontier' \in [Searches -> Frontier]
      /\ \A k \in Level : open'[d][k] = IF k = g THEN {} ELSE open[d][k]
      /\ \A b \in Searches \ {d} : open'[b] = open[b] /\ frontier'[b] = frontier[b]
      /\ frontier'[d].g = g /\ frontier'[d].states = new
      /\ ~lastStepCost[d]
      /\ sym_cuts' = e.cuts /\ upper_bound' = e.upper /\ lower_bound_increased' \in BOOLEAN
      /\ last_g_cost' = [last_g_cost EXCEPT ![d] = g]
  BY <1>2, <1>3, <1>4, PoppedFacts
<1>6. PICK x, y : /\ x = GetF(frontier'[d], open'[d]) /\ y = GetG(frontier'[d], open'[d])
  OBVIOUS
<1>7. /\ lower_bound' = GreaterOf(e.lower, x) /\ x \in Int /\ x <= INT_MAX
      /\ min_g' = GreaterOf(min_g, y) /\ y \in Level
  BY <1>2, <1>3, <1>6, PoppedFacts
<1>8. lower_bound' \in Level /\ min_g' \in Level
  BY <1>1, <1>5, <1>7 DEF GreaterOf, Level, EngineTypeOK
<1>9. TypeOK'
  <2>1. EngineTypeOK'
    BY <1>1, <1>2, <1>5, <1>8 DEF EngineTypeOK
  <2>2. QED
    BY <1>1, <1>2, <1>5, <2>1 DEF TypeOK
<1>10. \A b \in Dir : \A k \in Level : \A s \in closed'[b][k] :
           s \in closed[b][k] \/ (b = d /\ k = g /\ s \in open[d][g])
  BY <1>1, <1>5 DEF EngineTypeOK, Levels
<1>11. LevelInv'
  <2>1. ASSUME NEW b \in Dir, NEW k \in Level, NEW s \in closed'[b][k]
        PROVE  task.dist[b][s] <= k
    BY <1>1, <1>5, <1>10 DEF LevelInv
  <2>2. ASSUME NEW b \in Searches, NEW k \in Level, NEW s \in open'[b][k]
        PROVE  task.dist[b][s] <= k
    <3>1. s \in open[b][k]
      BY <1>5
    <3>2. QED
      BY <1>1, <3>1 DEF LevelInv
  <2>3. QED
    BY <1>2, <2>1, <2>2 DEF LevelInv
<1>12. SeedInv'
  BY <1>1, <1>2, <1>10 DEF SeedInv, Source
<1>13. LayerInv'
  <2>1. CASE HasZeroCost(task) /\ closed' # closed
    <3>1. RecordLayers(d)
      BY <1>2, <2>1
    <3>2. /\ zeroCostClosed' \in [Searches -> [Level -> Seq(StateSets)]]
          /\ \A b \in Searches : zeroCostClosed[b][0] # <<>> =>
                /\ zeroCostClosed'[b][0] # <<>>
                /\ Head(zeroCostClosed'[b][0]) = Head(zeroCostClosed[b][0])
      BY <1>1, <1>9, <3>1, RecordLayersFacts
    <3>3. \A b \in Searches : /\ zeroCostClosed'[b][0] # <<>>
                              /\ Head(zeroCostClosed'[b][0]) = Source(task, b)
      BY <1>1, <2>1, <3>2 DEF LayerInv
    <3>4. QED
      BY <1>2, <2>1, <3>2, <3>3 DEF LayerInv, StateSets
  <2>2. CASE ~ (HasZeroCost(task) /\ closed' # closed)
    BY <1>1, <1>2, <2>2 DEF LayerInv, StateSets
  <2>3. QED
    BY <2>1, <2>2
<1>14. GoodCuts(sym_cuts)'
  BY <1>2, <1>5, StableCuts DEF GoodCuts, Apart
<1>15. ASSUME NEW b \in Searches
       PROVE  /\ frontier'[b].states \subseteq closed'[b][frontier'[b].g]
              /\ lastStepCost'[b] => Keys(open'[b]) = {}
  <2>1. CASE b # d
    <3>1. closed'[b] = closed[b]
      BY <1>1, <1>5, <2>1, SearchesAssumption DEF EngineTypeOK
    <3>2. QED
      BY <1>2, <1>5, <2>1, <3>1 DEF EngineInv
  <2>2. CASE b = d
    <3>1. new \subseteq closed'[d][g]
      BY <1>1, <1>5 DEF EngineTypeOK, Levels
    <3>2. QED
      BY <1>2, <1>5, <2>2, <3>1
  <2>3. QED
    BY <2>1, <2>2
<1>16. last_g_cost' \in [Searches -> Level] /\ limit' \in Level
  BY <1>5 DEF EngineInv
<1>17. EngineInv'
  BY <1>2, <1>9, <1>11, <1>12, <1>13, <1>14, <1>15, <1>16 DEF EngineInv
<1>18. QED
  BY <1>2, <1>17, PlansFrame

\* The end of the driver's step only erases cuts.
LEMMA EndStepInv == EngineInv /\ PlansInv /\ EndStep => EngineInv' /\ PlansInv'
<1> SUFFICES ASSUME EngineInv, PlansInv, EndStep PROVE EngineInv' /\ PlansInv'
  OBVIOUS
<1>1. /\ sym_cuts' = sym_cuts \ Due
      /\ status' \in {"SOLVED", "FAILED", "IN_PROGRESS"}
      /\ pc' \in {"bucket", "step"}
      /\ SelectDirection \/ UNCHANGED <<dir, increases, failed>>
      /\ registry' = "idle" /\ registry = "construct"
      /\ UNCHANGED <<task, lower_bound, upper_bound, lower_bound_increased, min_g, search,
                     zeroCostClosed, queue, plan, rejected, last_g_cost, limit>>
  BY DEF EndStep
<1>2. UNCHANGED <<frontier, open, closed, lastStepCost>>
  BY <1>1 DEF search
<1>3. TypeOK /\ EngineTypeOK
  BY DEF EngineInv, TypeOK
<1>4. dir' \in Dir /\ increases' \in Nat /\ failed' \in [Searches -> BOOLEAN]
  <2>1. CASE SelectDirection
    BY <1>3, <2>1, SelectDirectionType
  <2>2. CASE UNCHANGED <<dir, increases, failed>>
    BY <1>3, <2>2 DEF TypeOK
  <2>3. QED
    BY <1>1, <2>1, <2>2
<1>5. TypeOK'
  <2>1. EngineTypeOK'
    BY <1>1, <1>2, <1>3 DEF EngineTypeOK
  <2>2. QED
    BY <1>1, <1>2, <1>3, <1>4, <2>1 DEF TypeOK
<1>6. GoodCuts(sym_cuts') /\ limit' \in Level
  BY <1>1 DEF EngineInv, GoodCuts, Apart
<1>7. EngineInv'
  BY <1>1, <1>2, <1>5, <1>6, EngineFrame
<1>8. PICK f \in Nat : Optimum <= f /\ \A n \in queue : Promised(n, f)
  BY DEF PlansInv
<1>9. /\ Optimum' <= f /\ (\A n \in queue' : Promised(n, f)')
      /\ (\A p \in plan' : IsPlan(p)') /\ rejected' \subseteq OperatorSeqs'
      /\ queue' = {}
  BY <1>1, <1>8, StablePlans DEF PlansInv
<1>10. QED
  BY <1>1, <1>7, <1>9 DEF PlansInv
\* A reconstruction starts from the cuts of one cost.
LEMMA ConstructNextInv == EngineInv /\ PlansInv /\ ConstructNext => EngineInv' /\ PlansInv'
<1> SUFFICES ASSUME EngineInv, PlansInv, ConstructNext PROVE EngineInv' /\ PlansInv'
  OBVIOUS
<1>1. PICK f, cuts : /\ f = Min({Cost(sol) : sol \in Due})
                     /\ cuts = {sol \in Due : Cost(sol) = f}
  OBVIOUS
<1>2. /\ queue' = InitialNodes(cuts) /\ sym_cuts' = sym_cuts \ cuts /\ Due # {}
      /\ registry' = "reconstruct"
      /\ UNCHANGED <<task, status, lower_bound, upper_bound, lower_bound_increased, min_g,
                     search, control, zeroCostClosed, plan, rejected, last_g_cost, limit>>
  BY <1>1 DEF ConstructNext
<1>3. /\ Found /\ TypeOK /\ EngineTypeOK /\ sym_cuts \subseteq Cuts
      /\ \A sol \in sym_cuts : GoodCut(sol)
  BY WhatHolds DEF EngineInv
<1>4. /\ cuts \subseteq Cuts /\ Due \subseteq Cuts
      /\ \A sol \in cuts : GoodCut(sol) /\ Cost(sol) = f
  BY <1>1, <1>3 DEF Due
<1>5. f \in Nat /\ Optimum <= f
  <2>1. PICK costs : costs = {Cost(sol) : sol \in Due}
    OBVIOUS
  <2>2. costs \in SUBSET Nat /\ costs # {}
    BY <1>2, <1>4, <2>1, CutFacts
  <2>3. f \in costs
    BY <1>1, <2>1, <2>2, MinFacts
  <2>4. PICK sol \in Due : Cost(sol) = f
    BY <2>1, <2>3
  <2>5. GoodCut(sol)
    BY <1>1, <1>4, <2>4
  <2>6. QED
    BY <2>2, <2>3, <2>4, <2>5 DEF GoodCut
<1>6. ASSUME NEW n \in queue' PROVE Promised(n, f)
  <2>1. n \in InitialNodes(cuts)
    BY <1>2
  <2>2. \A sol \in cuts :
           /\ sol.cut # {} /\ Cost(sol) = f
           /\ "fw" \notin Searches => sol.g = 0 /\ sol.cut \subseteq {task.init}
           /\ "bw" \notin Searches => sol.h = 0 /\ sol.cut \subseteq task.goal
    BY <1>4 DEF GoodCut
  <2>3. NodeInv(n, f)
    BY <1>3, <1>4, <1>5, <2>1, <2>2, InitialNodesInv
  <2>4. Executable(n)
    BY <1>3, <1>4, <2>1, <2>2, InitialExecutable
  <2>5. NodeSimple(n)
    BY <1>3, <1>4, <2>1, <2>2, InitialNodesSimple
  <2>6. QED
    BY <2>3, <2>4, <2>5 DEF Promised
<1>7. UNCHANGED <<frontier, open, closed, lastStepCost, pc, dir, increases, failed>>
  BY <1>2 DEF search, control
<1>8. TypeOK'
  <2>1. sym_cuts' \subseteq Cuts
    BY <1>2, <1>3
  <2>2. EngineTypeOK'
    BY <1>2, <1>3, <1>7, <2>1 DEF EngineTypeOK
  <2>3. QED
    BY <1>3, <1>7, <2>2 DEF TypeOK
<1>9. GoodCuts(sym_cuts') /\ limit' \in Level
  BY <1>2 DEF EngineInv, GoodCuts, Apart
<1>10. EngineInv'
  BY <1>2, <1>7, <1>8, <1>9, EngineFrame
<1>11. /\ Optimum' <= f /\ (\A n \in queue' : Promised(n, f)')
       /\ (\A p \in plan' : IsPlan(p)') /\ rejected' \subseteq OperatorSeqs'
  BY <1>2, <1>5, <1>6, StablePlans DEF PlansInv
<1>12. PlansInv'
  BY <1>2, <1>5, <1>11 DEF PlansInv
<1>13. QED
  BY <1>10, <1>12

\* The nodes that expand_actions pushes when all plans are wanted.
LEMMA ExpandedPromised ==
    ASSUME Found, NEW f \in Nat, NEW node, NodeInv(node, f), Executable(node),
           task.simple => TakenSimple(node),
           NEW n \in ExpandAllActions(node)
    PROVE  Promised(n, f)
<1>1. PICK i \in Operators : /\ Unvisited(node, ClosedStep(node, i)) # {}
                             /\ n = NewNode(node, i) \/ n = Pushed(NewNode(node, i))
  BY DEF ExpandAllActions, Operators
<1>2. ClosedStep(node, i) # {}
  BY <1>1 DEF Unvisited
<1>3. PICK new : new = NewNode(node, i)
  OBVIOUS
<1>4. NodeInv(new, f) /\ Executable(new)
  BY <1>1, <1>2, <1>3, NewNodeInv, NewNodeExecutable
<1>5. task.simple => NodeSimple(new)
  BY <1>2, <1>3, NewNodeSimple
<1>6. NodeInv(Pushed(new), f) /\ Executable(Pushed(new))
  BY <1>4, PushedInv, PushedExecutable
<1>7. task.simple => NodeSimple(Pushed(new))
  BY <1>4, <1>5, PushedSimple
<1>8. QED
  BY <1>1, <1>3, <1>4, <1>5, <1>6, <1>7 DEF Promised

\* One iteration of reconstruct_plans, on a node that is split off the queue.
Reconstructs(top, states) ==
    LET node == Narrowed(top, states)
        found == node.prefix \o node.suffix
        goOn == Waiting(top, states) \cup ExpandAllActions(node)
    IN IF IsSolution(node)
       THEN /\ AddPlan(found)
            /\ queue' = IF ReconstructSolutions(plan', PlanCost(found)) THEN goOn ELSE {}
       ELSE /\ queue' = goOn
            /\ UNCHANGED <<plan, rejected>>

\* The nodes that wait, and the plans they become, keep their promise.
LEMMA ReconstructPlanInv == EngineInv /\ PlansInv /\ ReconstructPlan => EngineInv' /\ PlansInv'
<1> SUFFICES ASSUME EngineInv, PlansInv, ReconstructPlan PROVE EngineInv' /\ PlansInv'
  OBVIOUS
<1>1. /\ \E top \in {node \in Top(queue) : PlanLength(node) <= MaxPlanLength} :
            \E states \in Picked(top) : Reconstructs(top, states)
      /\ registry' = IF queue' = {} THEN "construct" ELSE "reconstruct"
      /\ UNCHANGED <<vars, zeroCostClosed, last_g_cost, limit>>
  BY DEF ReconstructPlan, Reconstructs
<1>2. PICK top \in Top(queue) : \E states \in Picked(top) : Reconstructs(top, states)
  BY <1>1
<1>3. PICK states \in Picked(top) : Reconstructs(top, states)
  BY <1>2
<1>4. PICK node, found, goOn :
         /\ node = Narrowed(top, states)
         /\ found = node.prefix \o node.suffix
         /\ goOn = Waiting(top, states) \cup ExpandAllActions(node)
  OBVIOUS
<1>5. IF IsSolution(node)
      THEN /\ AddPlan(found)
           /\ queue' = IF ReconstructSolutions(plan', PlanCost(found)) THEN goOn ELSE {}
      ELSE /\ queue' = goOn
           /\ UNCHANGED <<plan, rejected>>
  BY <1>3, <1>4 DEF Reconstructs
<1>6. UNCHANGED <<task, search, sym_cuts, frontier, open, closed, lastStepCost>>
  BY <1>1 DEF vars, engine, search
<1>7. TypeOK'
  BY <1>1, LossyType DEF EngineInv
<1>8. EngineInv'
  BY <1>1, <1>6, <1>7, EngineFrame DEF EngineInv
<1>9. PICK f \in Nat : Optimum <= f /\ \A n \in queue : Promised(n, f)
  BY DEF PlansInv
<1>10. Found /\ top \in queue
  BY WhatHolds DEF Top
<1>11. /\ \A n \in queue : NodeInv(n, f) /\ Executable(n)
       /\ task.simple => \A n \in queue : NodeSimple(n)
  BY <1>9 DEF Promised
<1>12. NodeInv(node, f) /\ Executable(node) /\ (task.simple => TakenSimple(node))
  BY <1>4, <1>10, <1>11, NarrowedNode, SplitExecutable, TakenNode
<1>13. ASSUME NEW n \in goOn PROVE Promised(n, f)
  <2>1. CASE n \in Waiting(top, states)
    <3>1. NodeInv(n, f) /\ Executable(n)
      BY <1>10, <1>11, <2>1, WaitingNodes, WaitingExecutable
    <3>2. task.simple => NodeSimple(n)
      BY <1>10, <1>11, <2>1, WaitingSimple
    <3>3. QED
      BY <3>1, <3>2 DEF Promised
  <2>2. CASE n \in ExpandAllActions(node)
    BY <1>10, <1>12, <2>2, ExpandedPromised
  <2>3. QED
    BY <1>4, <2>1, <2>2
<1>14. ASSUME IsSolution(node) PROVE IsPlan(found)
  <2>1. RunPlan({task.init}, found) \cap task.goal # {} /\ PlanCost(found) = f
    BY <1>4, <1>10, <1>12, <1>14, SolutionsAreValid
  <2>2. task.simple => IsSimple(found)
    <3> SUFFICES ASSUME task.simple PROVE IsSimple(found)
      OBVIOUS
    <3>1. PICK ops \in Seq(Operators) :
             ops = found /\ \E w : Way(w, State, Relations, ops) /\ w[0] = task.init
      BY <1>4, <1>10, <1>12, <1>14, SolutionsAreWays
    <3>2. TaskOK /\ task.init \in State
      BY <1>10, FoundFacts DEF IsTask
    <3>3. QED
      BY <3>1, <3>2, WayIsCounted
  <2>3. node.prefix \in Seq(Operators) /\ node.suffix \in Seq(Operators)
    BY <1>12 DEF NodeInv, NodeType, OperatorSeqs
  <2>4. found \in OperatorSeqs
    BY <1>4, <2>3 DEF OperatorSeqs
  <2>5. QED
    BY <1>9, <2>1, <2>2, <2>4 DEF IsPlan
<1>15. /\ plan' = plan \/ (IsSolution(node) /\ plan' = plan \cup {found})
       /\ rejected' = rejected \/ (IsSolution(node) /\ rejected' = rejected \cup {found})
       /\ queue' \subseteq goOn
  BY <1>5 DEF AddPlan
<1>16. \A n \in queue' : Promised(n, f)'
  BY <1>6, <1>13, <1>15, StablePlans
<1>17. \A p \in plan' : IsPlan(p)'
  BY <1>6, <1>14, <1>15, StablePlans DEF PlansInv
<1>18. rejected' \subseteq OperatorSeqs' /\ Optimum' <= f
  <2>1. IsSolution(node) => found \in OperatorSeqs
    BY <1>14 DEF IsPlan
  <2>2. QED
    BY <1>6, <1>9, <1>15, <2>1, StablePlans DEF PlansInv
<1>19. registry' \in {"construct", "reconstruct"} /\ (registry' # "reconstruct" => queue' = {})
  BY <1>1
<1>20. PlansInv'
  BY <1>16, <1>17, <1>18, <1>19 DEF PlansInv
<1>21. QED
  BY <1>8, <1>20

\* Before the first step only the sources are closed, and nothing is registered.
LEMMA TopKInitInv == TopKInit => EngineInv /\ PlansInv
<1> SUFFICES ASSUME TopKInit PROVE EngineInv /\ PlansInv
  OBVIOUS
<1>1. RegistryInit /\ Init
  BY DEF TopKInit, RegistryInit
<1>2. TypeOK /\ TraceInv /\ LevelInv /\ SeedInv /\ LayerInv
  BY <1>1, InitType, TraceInvInit, LevelInvInit, SeedCutInit, LayerInvInit
<1>3. task \in Tasks /\ sym_cuts = {} /\ last_g_cost \in [Searches -> Level] /\ limit \in Level
  BY <1>1, LevelFacts DEF TopKInit, Init
<1>4. GoodCuts(sym_cuts)
  BY <1>3 DEF GoodCuts, Apart
<1>5. EngineInv
  BY <1>2, <1>3, <1>4 DEF EngineInv, TraceInv
<1>6. queue = {} /\ plan = {} /\ rejected = {} /\ registry = "idle"
  BY <1>1 DEF TopKInit, RegistryInit
<1>7. Optimum \in Nat
  BY <1>2, EngineFacts DEF TypeOK
<1>8. PlansInv
  BY <1>6, <1>7 DEF PlansInv
<1>9. QED
  BY <1>5, <1>8

\* The invariant is inductive.
LEMMA TopKInvNext == EngineInv /\ PlansInv /\ [TopKNext]_topkVars => EngineInv' /\ PlansInv'
<1> SUFFICES ASSUME EngineInv, PlansInv, [TopKNext]_topkVars PROVE EngineInv' /\ PlansInv'
  OBVIOUS
<1>1. CASE StartStep
  BY <1>1, StartStepInv
<1>2. CASE ConstructNext
  BY <1>2, ConstructNextInv
<1>3. CASE ReconstructPlan
  BY <1>3, ReconstructPlanInv
<1>4. CASE EndStep
  BY <1>4, EndStepInv
<1>5. CASE SearchStep
  <2>1. UNCHANGED <<registryVars, rejected, limit>>
    BY <1>5 DEF SearchStep
  <2>2. CASE \E d \in Searches : NoMorePlans(d)
    BY <2>1, <2>2, NoMorePlansInv
  <2>3. CASE \E d \in Searches : PopBucket(d)
    BY <2>1, <2>3, PopBucketInv
  <2>4. CASE \E d \in Searches : ExpandFrontier(d)
    BY <2>1, <2>4, ExpandFrontierInv
  <2>5. CASE \/ \E d \in Searches : Inherited(d)
             \/ Return /\ UNCHANGED <<zeroCostClosed, last_g_cost>>
    BY <2>1, <2>5, InheritedStep
  <2>6. QED
    BY <1>5, <2>2, <2>3, <2>4, <2>5 DEF SearchStep
<1>6. CASE UNCHANGED topkVars
  <2>1. UNCHANGED <<vars, zeroCostClosed, registryVars, rejected, last_g_cost, limit>>
    BY <1>6 DEF topkVars, allVars
  <2>2. UNCHANGED <<task, sym_cuts, frontier, open, closed, lastStepCost>>
    BY <2>1 DEF vars, engine, search
  <2>3. TypeOK'
    BY <2>1, LossyType DEF EngineInv
  <2>4. EngineInv'
    BY <2>1, <2>2, <2>3, EngineFrame DEF EngineInv
  <2>5. QED
    BY <2>1, <2>2, <2>4, PlansFrame
<1>7. QED
  BY <1>1, <1>2, <1>3, <1>4, <1>5, <1>6 DEF TopKNext, TopKDone

\* So it is an invariant.
LEMMA TopKInvariant == TopKSpec => [](EngineInv /\ PlansInv)
BY TopKInitInv, TopKInvNext, PTL DEF TopKSpec

\* The engines symk and symq keep the types of what they inherit, through all
\* the cuts they register, the bounds that these lower, and the nodes that wait
\* in the queue of reconstruct_plans, where the first phase goes on beside the
\* second one.
THEOREM TopKTypeCorrect == TopKSpec => []TopKTypeOK
<1>1. EngineInv /\ PlansInv => TopKTypeOK
  <2> SUFFICES ASSUME EngineInv, PlansInv PROVE TopKTypeOK
    OBVIOUS
  <2>1. TypeOK /\ Found
    BY WhatHolds DEF EngineInv
  <2>2. OperatorSeqs \subseteq Seq(Nat)
    <3>1. PICK J : J = [cost : DOMAIN task.ops, rel : SUBSET (State \X State)]
      OBVIOUS
    <3>2. task.operators \in Seq(J)
      BY <2>1, <3>1, Zenon DEF Found, HasOperators
    <3>3. Operators \subseteq Nat
      BY <3>2, ElementFacts DEF Operators
    <3>4. PICK I : I = Operators
      OBVIOUS
    <3>5. \A ops \in Seq(I) : ops \in Seq(Nat)
      BY <3>3, <3>4, SeqMonotone
    <3>6. QED
      BY <3>4, <3>5 DEF OperatorSeqs
  <2>3. ASSUME NEW node \in queue PROVE node \in Node /\ node.states # {}
    <3>1. node \in NodeType /\ node.states # {}
      BY DEF PlansInv, Promised, NodeInv, Executable
    <3>2. QED
      BY <2>2, <3>1 DEF NodeType, Node, StateSets
  <2>4. plan \cup rejected \subseteq Seq(Nat)
    BY <2>2 DEF PlansInv, IsPlan
  <2>5. QED
    BY <2>1, <2>3, <2>4 DEF EngineInv, PlansInv, TopKTypeOK
<1>2. QED
  BY <1>1, TopKInvariant, PTL

\* Every plan that symk or symq reports leads from the initial state to the
\* goal and visits no state twice if plans are to be simple: all cuts of one
\* cost are taken apart at once, their forward phase goes on beside the backward
\* one, and the closed lists hold a state at many costs.
THEOREM ReportedPlansAreValid == TopKSpec => []ReportedArePlans
<1>1. EngineInv /\ PlansInv => ReportedArePlans
  BY DEF PlansInv, IsPlan, ReportedArePlans
<1>2. QED
  BY <1>1, TopKInvariant, PTL

-----------------------------------------------------------------------------
(* The course of a plan *)

\* The plans that the engine is to find, whether the certificate has them or not.
Wanted(p) ==
    /\ p \in OperatorSeqs
    /\ RunPlan({task.init}, p) \cap task.goal # {}
    /\ task.simple => IsSimple(p)

\* w lists the states that the plan goes through, l what it costs to get there.
Course(p, w, l) ==
    /\ p \in OperatorSeqs
    /\ w \in [0 .. Len(p) -> State] /\ l \in [0 .. Len(p) -> Nat]
    /\ w[0] = task.init /\ l[0] = 0
    /\ w[Len(p)] \in task.goal /\ l[Len(p)] = PlanCost(p)
    /\ \A k \in 1 .. Len(p) : /\ <<w[k - 1], w[k]>> \in task.operators[p[k]].rel
                              /\ l[k] = l[k - 1] + task.operators[p[k]].cost
    /\ task.simple => \A i, j \in 0 .. Len(p) : w[i] = w[j] => i = j

\* Each state of a run follows the one before it by its operator.
Path(w, s, ops) ==
    /\ w \in [0 .. Len(ops) -> State]
    /\ w[0] = s
    /\ \A k \in 1 .. Len(ops) : <<w[k - 1], w[k]>> \in task.operators[ops[k]].rel

\* From one state, operators lead to one state, or nowhere.
LEMMA RunsAreSingle ==
    ASSUME TaskOK, NEW s \in State, NEW S, S = {s}, NEW ops \in Seq(Operators),
           NEW f, Chain(f, StateSets, Applying, S, ops), f[Len(ops)] # {}
    PROVE  \E w : Path(w, s, ops) /\ Singles(f, w, ops)
<1>1. /\ Len(ops) \in Nat
      /\ \A n \in 1 .. Len(ops) : ops[n] \in Operators /\ n - 1 \in 0 .. Len(ops)
      /\ \A n \in 0 .. Len(ops) : f[n] \in StateSets
  BY ElementFacts DEF Chain
<1>2. \A n \in 1 .. Len(ops) : f[n] = ApplyOperator(ops[n], f[n - 1])
  <2> SUFFICES ASSUME NEW n \in 1 .. Len(ops) PROVE f[n] = ApplyOperator(ops[n], f[n - 1])
    OBVIOUS
  <2>1. f[n] = Applying[ops[n]][f[n - 1]]
    BY DEF Chain
  <2>2. ops[n] \in Operators /\ f[n - 1] \in StateSets
    BY <1>1
  <2>3. QED
    BY <2>1, <2>2 DEF Applying
<1>3. \A n \in 0 .. Len(ops) : f[n] # {}
  <2> DEFINE N == Len(ops)
             Bad == {k \in 0 .. N : f[N - k] = {}}
             b == Least(Bad)
  <2>1. N \in Nat /\ f[N] # {}
    BY <1>1
  <2>2. ASSUME Bad # {} PROVE FALSE
    <3>1. Bad \in SUBSET Nat
      BY <2>1
    <3> HIDE DEF Bad
    <3>2. b \in Bad /\ \A y \in Bad : b <= y
      BY <2>2, <3>1, NatHasLeast
    <3> HIDE DEF b
    <3>3. b \in 0 .. N /\ f[N - b] = {}
      BY <3>2 DEF Bad
    <3> HIDE DEF N
    <3>4. b # 0
      BY <2>1, <3>3
    <3>5. b - 1 \in 0 .. N /\ ~ (b <= b - 1)
      BY <2>1, <3>3, <3>4
    <3>6. f[N - (b - 1)] # {}
      BY <3>2, <3>5 DEF Bad
    <3>7. PICK n : n = N - (b - 1)
      OBVIOUS
    <3>8. n \in 1 .. N /\ n - 1 = N - b
      BY <2>1, <3>3, <3>4, <3>7
    <3>9. f[n] = ApplyOperator(ops[n], {})
      BY <1>2, <3>3, <3>8 DEF N
    <3>10. QED
      BY <3>6, <3>7, <3>9 DEF ApplyOperator
  <2>3. ASSUME NEW n \in 0 .. N PROVE f[n] # {}
    <3>1. N - n \in 0 .. N /\ N - (N - n) = n
      BY <2>1
    <3>2. QED
      BY <2>2, <3>1
  <2>4. QED
    BY <2>3
<1>4. \A n \in 0 .. Len(ops) : \A x, y \in f[n] : x = y
  <2> DEFINE N == Len(ops)
             Bad == {n \in 0 .. N : ~ \A x, y \in f[n] : x = y}
             b == Least(Bad)
  <2>1. N \in Nat /\ f[0] = S
    BY <1>1 DEF Chain
  <2>2. ASSUME Bad # {} PROVE FALSE
    <3>1. Bad \in SUBSET Nat
      BY <2>1
    <3> HIDE DEF Bad
    <3>2. b \in Bad /\ \A y \in Bad : b <= y
      BY <2>2, <3>1, NatHasLeast
    <3> HIDE DEF b
    <3>3. b \in 0 .. N /\ ~ \A x, y \in f[b] : x = y
      BY <3>2 DEF Bad
    <3>4. b # 0
      BY <2>1, <3>3
    <3>5. b - 1 \in 0 .. N /\ ~ (b <= b - 1) /\ b \in 1 .. N
      BY <2>1, <3>3, <3>4
    <3>6. \A x, y \in f[b - 1] : x = y
      BY <3>2, <3>5 DEF Bad
    <3>7. f[b] = ApplyOperator(ops[b], f[b - 1]) /\ ops[b] \in Operators
      BY <1>1, <1>2, <3>5
    <3>8. \A e, g \in task.operators[ops[b]].rel : e[1] = g[1] => e = g
      BY <3>7 DEF TaskOK, HasOperators, Operators
    <3>9. ASSUME NEW x \in f[b], NEW y \in f[b] PROVE x = y
      <4>1. PICK u \in f[b - 1] : <<u, x>> \in task.operators[ops[b]].rel
        BY <3>7 DEF ApplyOperator
      <4>2. PICK v \in f[b - 1] : <<v, y>> \in task.operators[ops[b]].rel
        BY <3>7 DEF ApplyOperator
      <4>3. u = v
        BY <3>6
      <4>4. <<u, x>> = <<v, y>>
        BY <3>8, <4>1, <4>2, <4>3
      <4>5. QED
        BY <4>4
    <3>10. QED
      BY <3>3, <3>9
  <2>3. QED
    BY <2>2
<1> DEFINE w == [n \in 0 .. Len(ops) |-> CHOOSE x \in f[n] : TRUE]
<1>5. \A n \in 0 .. Len(ops) : w[n] \in f[n] /\ f[n] = {w[n]} /\ w[n] \in State
  BY <1>1, <1>3, <1>4 DEF StateSets
<1>6. w \in [0 .. Len(ops) -> State]
  BY <1>5
<1> HIDE DEF w
<1>7. Singles(f, w, ops)
  BY <1>5 DEF Singles
<1>8. w[0] = s
  <2>1. f[0] = S /\ 0 \in 0 .. Len(ops)
    BY <1>1 DEF Chain
  <2>2. QED
    BY <1>5, <2>1
<1>9. \A k \in 1 .. Len(ops) : <<w[k - 1], w[k]>> \in task.operators[ops[k]].rel
  <2> SUFFICES ASSUME NEW k \in 1 .. Len(ops)
               PROVE  <<w[k - 1], w[k]>> \in task.operators[ops[k]].rel
    OBVIOUS
  <2>1. k \in 0 .. Len(ops) /\ k - 1 \in 0 .. Len(ops)
    BY <1>1
  <2>2. w[k] \in f[k] /\ f[k - 1] = {w[k - 1]}
    BY <1>5, <2>1
  <2>3. QED
    BY <1>2, <2>2 DEF ApplyOperator
<1>10. QED
  BY <1>6, <1>7, <1>8, <1>9 DEF Path

\* As many states as a way has places are visited once each.
LEMMA CountedOnce ==
    ASSUME NEW N \in Nat, NEW w, NEW P, P = {w[k] : k \in 0 .. N}, Cardinality(P) = N + 1,
           NEW i \in 0 .. N, NEW j \in 0 .. N, w[i] = w[j]
    PROVE  i = j
<1> DEFINE e == [k \in 1 .. N + 1 |-> w[k - 1]]
<1>1. \A k \in 1 .. N + 1 : k - 1 \in 0 .. N
  OBVIOUS
<1>2. e \in [1 .. N + 1 -> P]
  BY <1>1
<1>3. ASSUME NEW x \in P PROVE \E k \in 1 .. N + 1 : e[k] = x
  <2>1. PICK m \in 0 .. N : x = w[m]
    OBVIOUS
  <2>2. m + 1 \in 1 .. N + 1 /\ (m + 1) - 1 = m
    OBVIOUS
  <2>3. QED
    BY <2>1, <2>2
<1>4. i + 1 \in 1 .. N + 1 /\ j + 1 \in 1 .. N + 1 /\ (i + 1) - 1 = i /\ (j + 1) - 1 = j
  OBVIOUS
<1>5. e[i + 1] = e[j + 1]
  BY <1>4
<1> HIDE DEF e
<1>6. e \in Surjection(1 .. N + 1, P)
  BY <1>2, <1>3 DEF Surjection
<1>7. IsFiniteSet(1 .. N + 1) /\ Cardinality(1 .. N + 1) = Cardinality(P)
  <2>1. 1 \in Int /\ N + 1 \in Int /\ ~ (1 > N + 1) /\ (N + 1) - 1 + 1 = N + 1
    OBVIOUS
  <2>2. IsFiniteSet(1 .. N + 1) /\ Cardinality(1 .. N + 1) = (N + 1) - 1 + 1
    BY <2>1, FS_Interval
  <2>3. QED
    BY <2>1, <2>2
<1>8. e \in Injection(1 .. N + 1, P)
  BY <1>6, <1>7, FS_SurjSameCardinalityImpliesInj
<1>9. i + 1 = j + 1
  BY <1>4, <1>5, <1>8 DEF Injection, IsInjective
<1>10. QED
  BY <1>9

\* Every plan has a course.
LEMMA CourseExists ==
    ASSUME Found, NEW p, Wanted(p)
    PROVE  \E w, l : Course(p, w, l)
<1>1. TaskOK /\ task.init \in State /\ p \in Seq(Operators) /\ task.goal \subseteq State
  BY FoundFacts DEF Wanted, OperatorSeqs, IsTask
<1>2. PICK s \in State : s = task.init
  BY <1>1
<1> DEFINE S == {s}
<1>3. S \in StateSets
  BY DEF StateSets
<1> HIDE DEF S
<1>4. S = {s} /\ s = task.init
  BY <1>2 DEF S
<1>5. PICK f : Chain(f, StateSets, Applying, S, p)
  BY <1>1, <1>3, RunPlanChain
<1>6. RunPlan(S, p) = f[Len(p)] /\ f[Len(p)] \cap task.goal # {}
  BY <1>1, <1>3, <1>4, <1>5, RunPlanChain DEF Wanted
<1>7. PICK w : Path(w, s, p) /\ Singles(f, w, p)
  <2>1. f[Len(p)] # {}
    BY <1>6
  <2>2. QED
    BY <1>1, <1>4, <1>5, <2>1, RunsAreSingle
<1>8. PICK l : Chain(l, Nat, Adding, 0, p)
  BY <1>1, PlanCostChain
<1>9. /\ Len(p) \in Nat
      /\ \A n \in 1 .. Len(p) : p[n] \in Operators /\ n - 1 \in 0 .. Len(p)
  BY <1>1, ElementFacts
<1>10. l \in [0 .. Len(p) -> Nat] /\ l[0] = 0 /\ l[Len(p)] = PlanCost(p)
  BY <1>1, <1>8, PlanCostChain DEF Chain
<1>11. \A n \in 1 .. Len(p) : l[n] = l[n - 1] + task.operators[p[n]].cost
  <2> SUFFICES ASSUME NEW n \in 1 .. Len(p)
               PROVE  l[n] = l[n - 1] + task.operators[p[n]].cost
    OBVIOUS
  <2>1. l[n] = Adding[p[n]][l[n - 1]]
    BY <1>8 DEF Chain
  <2>2. p[n] \in Operators /\ l[n - 1] \in Nat
    BY <1>9, <1>10
  <2>3. QED
    BY <2>1, <2>2 DEF Adding
<1>12. w[Len(p)] \in task.goal
  <2>1. Len(p) \in 0 .. Len(p)
    BY <1>9
  <2>2. f[Len(p)] = {w[Len(p)]}
    BY <1>7, <2>1 DEF Singles
  <2>3. QED
    BY <1>6, <2>2
<1>13. ASSUME task.simple, NEW i \in 0 .. Len(p), NEW j \in 0 .. Len(p), w[i] = w[j]
       PROVE  i = j
  <2>1. \A n \in 0 .. Len(p) : RunPlan(S, SubSeq(p, 1, n)) = {w[n]}
    BY <1>1, <1>3, <1>5, <1>7, PartOfRun DEF Singles
  <2>2. StatesOnPath(p) = UNION {{w[n]} : n \in 0 .. Len(p)}
    BY <1>4, <2>1 DEF StatesOnPath
  <2>3. PICK P : P = {w[n] : n \in 0 .. Len(p)}
    OBVIOUS
  <2>4. StatesOnPath(p) = P
    BY <2>2, <2>3
  <2>5. Cardinality(P) = Len(p) + 1
    BY <1>13, <2>4 DEF Wanted, IsSimple
  <2>6. QED
    BY <1>9, <1>13, <2>3, <2>5, CountedOnce
<1>14. Course(p, w, l)
  BY <1>1, <1>4, <1>7, <1>10, <1>11, <1>12, <1>13 DEF Course, Path, OperatorSeqs
<1>15. QED
  BY <1>14

\* A walk of direction d, from a source of it to one of the other direction,
\* along states that are on plans which cost no more than any int.
Walk(d, v, l, n) ==
    /\ v \in [0 .. n -> State] /\ l \in [0 .. n -> Nat]
    /\ v[0] \in Source(task, d) /\ l[0] = 0
    /\ v[n] \in Source(task, Opposite(d))
    /\ \A k \in 1 .. n : \E c \in DOMAIN task.ops :
          /\ c \in Nat /\ Edge(task, d, c, v[k - 1], v[k]) /\ l[k] = l[k - 1] + c

\* The costs on a walk grow, and are no smaller than the distances.
LEMMA WalkFacts ==
    ASSUME IsTask(task), NEW d \in Dir, NEW n \in Nat, NEW v, NEW l, Walk(d, v, l, n),
           NEW i \in 0 .. n, NEW j \in 0 .. n, i <= j
    PROVE  /\ l[i] \in Nat /\ l[j] \in Nat /\ l[i] <= l[j]
           /\ task.dist[d][v[i]] <= l[i]
           /\ task.dist[Opposite(d)][v[i]] + l[i] <= l[n]
<1>1. Opposite(d) \in Dir
  BY OppositeFacts
<1>2. \A b \in Dir : \A s \in State :
          task.dist[b][s] \in Nat /\ (s \in Source(task, b) => task.dist[b][s] = 0)
  BY DistanceFacts
<1>3. \A k \in 0 .. n : v[k] \in State /\ l[k] \in Nat
  BY DEF Walk
<1>4. ASSUME NEW k \in 1 .. n
      PROVE  /\ k - 1 \in 0 .. n /\ k \in 0 .. n
             /\ l[k - 1] <= l[k]
             /\ task.dist[d][v[k]] <= task.dist[d][v[k - 1]] + (l[k] - l[k - 1])
             /\ task.dist[Opposite(d)][v[k - 1]]
                   <= task.dist[Opposite(d)][v[k]] + (l[k] - l[k - 1])
  <2>1. PICK c \in DOMAIN task.ops :
                c \in Nat /\ Edge(task, d, c, v[k - 1], v[k]) /\ l[k] = l[k - 1] + c
    BY DEF Walk
  <2>2. k - 1 \in 0 .. n /\ k \in 0 .. n
    OBVIOUS
  <2>3. v[k - 1] \in State /\ v[k] \in State /\ l[k - 1] \in Nat /\ l[k] \in Nat
    BY <1>3, <2>2
  <2>4. Edge(task, Opposite(d), c, v[k], v[k - 1])
    BY <2>1, OppositeFacts
  <2>5. \A b \in Dir : \A x, y \in State :
            Edge(task, b, c, x, y) => task.dist[b][y] <= task.dist[b][x] + c
    BY DEF IsTask, IsDistance
  <2>6. task.dist[d][v[k]] <= task.dist[d][v[k - 1]] + c
    BY <2>1, <2>3, <2>5
  <2>7. task.dist[Opposite(d)][v[k - 1]] <= task.dist[Opposite(d)][v[k]] + c
    BY <1>1, <2>3, <2>4, <2>5
  <2>8. l[k] - l[k - 1] = c /\ l[k - 1] <= l[k]
    BY <2>1, <2>3
  <2>9. QED
    BY <2>2, <2>6, <2>7, <2>8
<1>5. ASSUME NEW b \in 0 .. n, l[i] > l[b], i <= b PROVE FALSE
  <2> DEFINE Bad == {k \in i .. n : l[i] > l[k]}
             a == Least(Bad)
  <2>1. Bad \in SUBSET Nat /\ Bad # {}
    BY <1>5
  <2> HIDE DEF Bad
  <2>2. a \in Bad /\ \A y \in Bad : a <= y
    BY <2>1, NatHasLeast
  <2> HIDE DEF a
  <2>3. a \in i .. n /\ l[i] > l[a] /\ l[i] \in Nat
    BY <1>3, <2>2 DEF Bad
  <2>4. a # i
    BY <2>3
  <2>5. a \in 1 .. n /\ a - 1 \in i .. n /\ ~ (a <= a - 1)
    BY <2>3, <2>4
  <2>6. ~ (l[i] > l[a - 1])
    BY <2>2, <2>5 DEF Bad
  <2>7. l[a - 1] <= l[a] /\ l[a - 1] \in Nat /\ l[a] \in Nat
    BY <1>3, <1>4, <2>5
  <2>8. QED
    BY <2>3, <2>6, <2>7
<1>6. ASSUME NEW b \in 0 .. n, task.dist[d][v[b]] > l[b] PROVE FALSE
  <2> DEFINE Bad == {k \in 0 .. n : task.dist[d][v[k]] > l[k]}
             a == Least(Bad)
  <2>1. Bad \in SUBSET Nat /\ Bad # {}
    BY <1>6
  <2> HIDE DEF Bad
  <2>2. a \in Bad /\ \A y \in Bad : a <= y
    BY <2>1, NatHasLeast
  <2> HIDE DEF a
  <2>3. a \in 0 .. n /\ task.dist[d][v[a]] > l[a]
    BY <2>2 DEF Bad
  <2>4. a # 0
    <3>1. 0 \in 0 .. n /\ v[0] \in Source(task, d) /\ l[0] = 0
      BY DEF Walk
    <3>2. task.dist[d][v[0]] = 0
      BY <1>2, <1>3, <3>1
    <3>3. QED
      BY <2>3, <3>1, <3>2
  <2>5. a \in 1 .. n /\ a - 1 \in 0 .. n /\ ~ (a <= a - 1)
    BY <2>3, <2>4
  <2>6. ~ (task.dist[d][v[a - 1]] > l[a - 1])
    BY <2>2, <2>5 DEF Bad
  <2>7. task.dist[d][v[a]] <= task.dist[d][v[a - 1]] + (l[a] - l[a - 1])
    BY <1>4, <2>5
  <2>8. /\ l[a - 1] \in Nat /\ l[a] \in Nat
        /\ task.dist[d][v[a]] \in Nat /\ task.dist[d][v[a - 1]] \in Nat
    BY <1>2, <1>3, <2>3, <2>5
  <2>9. QED
    BY <2>3, <2>6, <2>7, <2>8
<1>7. ASSUME NEW b \in 0 .. n, task.dist[Opposite(d)][v[b]] + l[b] > l[n] PROVE FALSE
  <2> DEFINE Bad == {k \in 0 .. n : task.dist[Opposite(d)][v[n - k]] + l[n - k] > l[n]}
             a == Least(Bad)
  <2>1. Bad \in SUBSET Nat /\ Bad # {}
    <3>1. n - b \in 0 .. n /\ n - (n - b) = b
      OBVIOUS
    <3>2. n - b \in Bad
      BY <1>7, <3>1
    <3>3. QED
      BY <3>2
  <2> HIDE DEF Bad
  <2>2. a \in Bad /\ \A y \in Bad : a <= y
    BY <2>1, NatHasLeast
  <2> HIDE DEF a
  <2>3. a \in 0 .. n /\ task.dist[Opposite(d)][v[n - a]] + l[n - a] > l[n]
    BY <2>2 DEF Bad
  <2>4. a # 0
    <3>1. n \in 0 .. n /\ v[n] \in Source(task, Opposite(d)) /\ n - 0 = n
      BY DEF Walk
    <3>2. task.dist[Opposite(d)][v[n]] = 0 /\ l[n] \in Nat
      BY <1>1, <1>2, <1>3, <3>1
    <3>3. QED
      BY <2>3, <3>1, <3>2
  <2>5. a - 1 \in 0 .. n /\ ~ (a <= a - 1)
    BY <2>3, <2>4
  <2>6. PICK q \in 1 .. n : q = n - (a - 1)
    BY <2>3, <2>4
  <2>7. ~ (task.dist[Opposite(d)][v[q]] + l[q] > l[n]) /\ q - 1 = n - a
    BY <2>2, <2>3, <2>5, <2>6 DEF Bad
  <2>8. /\ task.dist[Opposite(d)][v[q - 1]] <= task.dist[Opposite(d)][v[q]] + (l[q] - l[q - 1])
        /\ q - 1 \in 0 .. n /\ q \in 0 .. n
    BY <1>4, <2>6
  <2>9. /\ l[q - 1] \in Nat /\ l[q] \in Nat /\ l[n] \in Nat
        /\ task.dist[Opposite(d)][v[q]] \in Nat /\ task.dist[Opposite(d)][v[q - 1]] \in Nat
    BY <1>1, <1>2, <1>3, <2>8
  <2>10. task.dist[Opposite(d)][v[q - 1]] + l[q - 1] > l[n]
    BY <2>3, <2>7
  <2>11. QED
    BY <2>7, <2>8, <2>9, <2>10
<1>8. /\ l[i] \in Nat /\ l[j] \in Nat /\ l[n] \in Nat /\ n \in 0 .. n
      /\ task.dist[d][v[i]] \in Nat /\ task.dist[Opposite(d)][v[i]] \in Nat
  BY <1>1, <1>2, <1>3
<1>9. ~ (l[i] > l[j])
  BY <1>5
<1>10. ~ (task.dist[d][v[i]] > l[i])
  BY <1>6
<1>11. ~ (task.dist[Opposite(d)][v[i]] + l[i] > l[n])
  BY <1>7
<1>12. QED
  BY <1>8, <1>9, <1>10, <1>11

\* A course the other way round: its states, and what is left to pay.
Reversed(w, n) == [k \in 0 .. n |-> w[n - k]]
Left(l, n) == [k \in 0 .. n |-> l[n] - l[n - k]]

\* A course is a walk of either direction.
LEMMA CourseIsWalk ==
    ASSUME TaskOK, NEW p, NEW w, NEW l, Course(p, w, l)
    PROVE  /\ Len(p) \in Nat
           /\ Walk("fw", w, l, Len(p))
           /\ Walk("bw", Reversed(w, Len(p)), Left(l, Len(p)), Len(p))
<1>1. Len(p) \in Nat /\ \A k \in 1 .. Len(p) : p[k] \in Operators
  BY ElementFacts DEF Course, OperatorSeqs
<1>2. PICK n \in Nat : n = Len(p)
  BY <1>1
<1>3. /\ w \in [0 .. n -> State] /\ l \in [0 .. n -> Nat]
      /\ w[0] = task.init /\ l[0] = 0 /\ w[n] \in task.goal
      /\ Source(task, "fw") = {task.init} /\ Source(task, "bw") = task.goal
      /\ Opposite("fw") = "bw" /\ Opposite("bw") = "fw"
  BY <1>2 DEF Course, Source, Opposite
<1>4. ASSUME NEW k \in 1 .. n
      PROVE  \E c \in DOMAIN task.ops :
                /\ c \in Nat /\ l[k] = l[k - 1] + c
                /\ Edge(task, "fw", c, w[k - 1], w[k]) /\ Edge(task, "bw", c, w[k], w[k - 1])
  <2>1. PICK i \in Operators : i = p[k]
    BY <1>1, <1>2
  <2>2. PICK c \in DOMAIN task.ops : c = task.operators[i].cost /\ c \in Nat
    BY OperatorFacts
  <2>3. <<w[k - 1], w[k]>> \in task.operators[i].rel /\ l[k] = l[k - 1] + c
    BY <1>2, <2>1, <2>2 DEF Course
  <2>4. task.ops[c] = UNION {task.operators[j].rel :
                             j \in {m \in DOMAIN task.operators : task.operators[m].cost = c}}
    BY <2>2 DEF TaskOK, HasOperators
  <2>5. <<w[k - 1], w[k]>> \in task.ops[c]
    BY <2>2, <2>3, <2>4 DEF Operators
  <2>6. QED
    BY <2>2, <2>3, <2>5 DEF Edge
<1>5. Walk("fw", w, l, n)
  <2>1. \A k \in 1 .. n : \E c \in DOMAIN task.ops :
            c \in Nat /\ Edge(task, "fw", c, w[k - 1], w[k]) /\ l[k] = l[k - 1] + c
    BY <1>4
  <2>2. w[0] \in Source(task, "fw") /\ w[n] \in Source(task, Opposite("fw"))
    BY <1>3
  <2>3. QED
    BY <1>3, <2>1, <2>2, Zenon DEF Walk
<1>6. IsTask(task) /\ "fw" \in Dir
  BY DEF TaskOK, Dir
<1> DEFINE v == Reversed(w, n)
           r == Left(l, n)
<1>7. \A k \in 0 .. n : n - k \in 0 .. n /\ v[k] = w[n - k] /\ r[k] = l[n] - l[n - k]
  BY DEF Reversed, Left
<1>8. \A k \in 0 .. n : l[k] \in Nat /\ l[n] \in Nat /\ l[k] <= l[n]
  <2> SUFFICES ASSUME NEW k \in 0 .. n PROVE l[k] \in Nat /\ l[n] \in Nat /\ l[k] <= l[n]
    OBVIOUS
  <2>1. n \in 0 .. n /\ k <= n
    OBVIOUS
  <2>2. QED
    BY <1>5, <1>6, <2>1, WalkFacts
<1>9. v \in [0 .. n -> State] /\ r \in [0 .. n -> Nat]
  <2>1. \A k \in 0 .. n : w[n - k] \in State /\ l[n] - l[n - k] \in Nat
    BY <1>3, <1>7, <1>8, SMTT(30)
  <2>2. QED
    BY <2>1 DEF Reversed, Left
<1>10. v[0] \in Source(task, "bw") /\ r[0] = 0 /\ v[n] \in Source(task, "fw")
  <2>1. 0 \in 0 .. n /\ n \in 0 .. n /\ n - 0 = n /\ n - n = 0
    OBVIOUS
  <2>2. l[n] \in Nat
    BY <1>8, <2>1
  <2>3. v[0] = w[n] /\ v[n] = w[0] /\ r[0] = l[n] - l[n]
    BY <1>7, <2>1
  <2> HIDE DEF v, r
  <2>4. v[0] \in Source(task, "bw") /\ v[n] \in Source(task, "fw")
    BY <1>3, <2>3
  <2>5. r[0] = 0
    BY <2>2, <2>3
  <2>6. QED
    BY <2>4, <2>5
<1>11. ASSUME NEW k \in 1 .. n
       PROVE  \E c \in DOMAIN task.ops :
                 c \in Nat /\ Edge(task, "bw", c, v[k - 1], v[k]) /\ r[k] = r[k - 1] + c
  <2>1. k \in 0 .. n /\ k - 1 \in 0 .. n
    OBVIOUS
  <2>2. PICK m \in 1 .. n : m = n - k + 1
    OBVIOUS
  <2>3. PICK c \in DOMAIN task.ops :
            c \in Nat /\ l[m] = l[m - 1] + c /\ Edge(task, "bw", c, w[m], w[m - 1])
    BY <1>4
  <2>4. m - 1 = n - k /\ m = n - (k - 1) /\ m \in 0 .. n /\ m - 1 \in 0 .. n
    BY <2>2
  <2>5. v[k] = w[m - 1] /\ v[k - 1] = w[m] /\ r[k] = l[n] - l[m - 1] /\ r[k - 1] = l[n] - l[m]
    BY <1>7, <2>1, <2>4
  <2>6. l[n] \in Nat /\ l[m] \in Nat /\ l[m - 1] \in Nat
    BY <1>8, <2>4
  <2>7. QED
    BY <2>3, <2>5, <2>6
<1> HIDE DEF v, r
<1>12. Walk("bw", v, r, n)
  BY <1>3, <1>9, <1>10, <1>11 DEF Walk
<1>13. QED
  BY <1>1, <1>2, <1>5, <1>12 DEF v, r

-----------------------------------------------------------------------------
(* What the searches keep *)

\* A state on a plan whose cost fits an int.
Useful(s) == s \in State /\ CostThrough(task, s) < INT_MAX

\* All useful successors of a state that has been expanded are listed.
Lossless(d) ==
    \A g \in Level : \A c \in DOMAIN task.ops : \A s \in closed[d][g] : \A y :
        /\ Useful(s) /\ Useful(y) /\ Edge(task, d, c, s, y)
        /\ Expanded(d, g, s, c)
        /\ g + c \in Level
        => y \in closed[d][g + c] \cup open[d][g + c]

\* The frontier is the cheapest bucket; only zero-cost operators add to its level.
Leading(d) ==
    frontier[d].phase # "empty" =>
        \A k \in Keys(open[d]) : frontier[d].g <= k /\ (frontier[d].g = k => HasZeroCost(task))

\* Where the engine may be with the lists as they are.
Placed(d) ==
    /\ frontier[d].phase = "empty" => frontier[d].states = {}
    /\ dir = d /\ pc = "prepare" => frontier[d].phase # "empty"
    /\ dir = d /\ pc = "expand" => frontier[d].phase \in {"zero", "cost"}
    /\ Stocked(d) \/ (dir = d /\ pc = "drain")

ListInv ==
    /\ registry # "idle" => pc \in {"init", "step"}
    /\ \A d \in Dir : Source(task, d) \subseteq closed[d][0]
    /\ \A d \in Searches : Lossless(d) /\ Leading(d) /\ Placed(d)

\* x has been cut at level g of direction d and level k of the other one, or at
\* costs below m, which are settled.
Cut(d, m, g, k, x) ==
    \/ g + k < m
    \/ \E sol \in sym_cuts : /\ sol.g = (IF d = "fw" THEN g ELSE k)
                             /\ sol.h = (IF d = "fw" THEN k ELSE g)
                             /\ x \in sol.cut

\* Where the two directions meet: in a state that both have closed,
MetIn(m) ==
    \A d \in Dir : \A g, k \in Level : \A x \in closed[d][g] \cap closed[Opposite(d)][k] :
        Cut(d, m, g, k, x)

\* in an operator whose both ends have been expanded, one from either side,
MetBetween(m) ==
    \A d \in Searches : Opposite(d) \in Searches =>
        \A g, k \in Level : \A c \in DOMAIN task.ops :
            \A x \in closed[d][g] : \A y \in closed[Opposite(d)][k] :
                /\ Useful(x) /\ Useful(y) /\ Edge(task, d, c, x, y)
                /\ Expanded(d, g, x, c) /\ Expanded(Opposite(d), k, y, c)
                => Cut(d, m, g + c, k, y) \/ Cut(d, m, g, k + c, x)

\* or in a state where the other direction has started.
MetAtSource(m) ==
    \A d \in Searches : \A g \in Level : \A y \in open[d][g] \cap Source(task, Opposite(d)) :
        Cut(d, m, g, 0, y)

CutsInv(m) == MetIn(m) /\ MetBetween(m) /\ MetAtSource(m)

-----------------------------------------------------------------------------
(* Where a plan is met *)

\* What the arguments about a plan assume of the searches.
Searched == EngineInv /\ PlansInv /\ ListInv

\* The bounds and ranges that these arguments need.
LEMMA SearchedFacts ==
    ASSUME Searched
    PROVE  /\ IsTask(task) /\ TaskOK /\ TypeOK /\ Found
           /\ MinTransitionCost(task) \in Level /\ MinTransitionCost(task) \in Nat
           /\ \A c \in DOMAIN task.ops : c \in Nat /\ MinTransitionCost(task) <= c
           /\ HasZeroCost(task) <=> MinTransitionCost(task) = 0
           /\ \A d \in Searches : /\ d \in Dir /\ Opposite(d) \in Dir
                                  /\ frontier[d].g \in Level /\ frontier[d].g \in Nat
                                  /\ open[d] \in Levels
           /\ \A k : k \in Level <=> k \in Nat /\ k <= INT_MAX
           /\ INT_MAX \in Nat /\ INT_MAX \in Level /\ 0 \in Level
<1>1. TaskOK /\ IsTask(task) /\ TypeOK /\ Found
  BY WhatHolds DEF Searched, Found, TaskOK
<1>2. /\ MinTransitionCost(task) \in Level
      /\ \A c \in DOMAIN task.ops : c \in Nat /\ MinTransitionCost(task) <= c
  BY <1>1, MinTransitionCostFacts
<1>3. \A k : k \in Level <=> k \in Nat /\ k <= INT_MAX
  BY IntMaxAssumption DEF Level
<1>4. INT_MAX \in Nat /\ INT_MAX \in Level /\ 0 \in Level
  BY IntMaxAssumption DEF Level
<1>5. \A d \in Searches : d \in Dir /\ Opposite(d) \in Dir
  BY SearchesAssumption, OppositeFacts
<1>6. ASSUME NEW d \in Searches
      PROVE  frontier[d].g \in Level /\ open[d] \in Levels
  BY <1>1 DEF TypeOK, Frontier
<1>7. QED
  BY <1>1, <1>2, <1>3, <1>4, <1>5, <1>6 DEF HasZeroCost

\* The states of a walk are useful if its cost fits an int.
LEMMA WalksAreUseful ==
    ASSUME IsTask(task), NEW d \in Dir, NEW n \in Nat, NEW v, NEW l, Walk(d, v, l, n),
           l[n] < INT_MAX, NEW i \in 0 .. n
    PROVE  Useful(v[i]) /\ l[i] \in Level /\ l[i] <= l[n]
<1>1. n \in 0 .. n /\ i <= n
  OBVIOUS
<1>2. /\ l[i] \in Nat /\ l[n] \in Nat /\ l[i] <= l[n]
      /\ task.dist[d][v[i]] <= l[i]
      /\ task.dist[Opposite(d)][v[i]] + l[i] <= l[n]
  BY <1>1, WalkFacts
<1>3. v[i] \in State
  BY DEF Walk
<1>4. /\ task.dist[d][v[i]] \in Nat /\ task.dist[Opposite(d)][v[i]] \in Nat
      /\ CostThrough(task, v[i]) = task.dist[d][v[i]] + task.dist[Opposite(d)][v[i]]
  BY <1>3, DistanceFacts, OppositeFacts
<1>5. INT_MAX \in Nat
  BY IntMaxAssumption
<1>6. CostThrough(task, v[i]) < INT_MAX
  BY <1>2, <1>4, <1>5
<1>7. QED
  BY <1>2, <1>3, <1>5, <1>6 DEF Useful, Level

\* All that costs less than k has been popped and expanded.
Behind(d, k) ==
    /\ \A j \in Keys(open[d]) : k <= j
    /\ frontier[d].phase # "empty" => k <= frontier[d].g + MinTransitionCost(task)

\* One step along a walk, from a state that lies behind: the next one is listed.
LEMMA NextIsListed ==
    ASSUME Searched, NEW d \in Searches, NEW n \in Nat, NEW v, NEW l, Walk(d, v, l, n),
           l[n] < INT_MAX, NEW k \in 1 .. n, v[k - 1] \in closed[d][l[k - 1]],
           frontier[d].phase # "empty" =>
               l[k - 1] < frontier[d].g \/ l[k] < frontier[d].g + MinTransitionCost(task)
    PROVE  v[k] \in closed[d][l[k]] \cup open[d][l[k]]
<1>1. PICK c \in DOMAIN task.ops :
          c \in Nat /\ Edge(task, d, c, v[k - 1], v[k]) /\ l[k] = l[k - 1] + c
  BY DEF Walk
<1>2. k \in 0 .. n /\ k - 1 \in 0 .. n
  OBVIOUS
<1>3. d \in Dir /\ IsTask(task)
  BY SearchedFacts
<1>4. /\ Useful(v[k - 1]) /\ l[k - 1] \in Level
      /\ Useful(v[k]) /\ l[k] \in Level
  BY <1>2, <1>3, WalksAreUseful
<1>5. Expanded(d, l[k - 1], v[k - 1], c)
  <2>1. MinTransitionCost(task) <= c /\ MinTransitionCost(task) \in Nat /\ frontier[d].g \in Nat
    BY SearchedFacts
  <2>2. l[k - 1] \in Nat /\ l[k] \in Nat
    BY <1>4, SearchedFacts
  <2>3. frontier[d].phase # "empty" => l[k - 1] # frontier[d].g
    BY <1>1, <2>1, <2>2
  <2>4. QED
    BY <2>3 DEF Expanded
<1>6. Lossless(d)
  BY DEF Searched, ListInv
<1>7. QED
  BY <1>1, <1>4, <1>5, <1>6 DEF Lossless

\* Direction d has closed the states of a walk that lie behind it.
LEMMA WalkIsClosed ==
    ASSUME Searched, NEW d \in Searches, NEW n \in Nat, NEW v, NEW l, Walk(d, v, l, n),
           l[n] < INT_MAX, NEW m \in Nat, Behind(d, m), NEW i \in 0 .. n, l[i] < m \/ i = 0
    PROVE  v[i] \in closed[d][l[i]]
<1>1. d \in Dir /\ IsTask(task) /\ Source(task, d) \subseteq closed[d][0]
  BY SearchedFacts DEF Searched, ListInv
<1>2. v[0] \in closed[d][l[0]]
  BY <1>1 DEF Walk
<1>3. \A k \in 0 .. n : l[k] \in Nat /\ l[k] \in Level
  BY <1>1, WalksAreUseful, SearchedFacts
<1> DEFINE Bad == {k \in 0 .. n : l[k] < m /\ v[k] \notin closed[d][l[k]]}
           b == Least(Bad)
<1>4. ASSUME Bad # {} PROVE FALSE
  <2>1. Bad \in SUBSET Nat
    OBVIOUS
  <2> HIDE DEF Bad
  <2>2. b \in Bad /\ \A y \in Bad : b <= y
    BY <1>4, <2>1, NatHasLeast
  <2> HIDE DEF b
  <2>3. b \in 0 .. n /\ l[b] < m /\ v[b] \notin closed[d][l[b]]
    BY <2>2 DEF Bad
  <2>4. b # 0
    BY <1>2, <2>3
  <2>5. b \in 1 .. n /\ b - 1 \in 0 .. n /\ ~ (b <= b - 1) /\ b - 1 <= b
    BY <2>3, <2>4
  <2>6. l[b - 1] <= l[b]
    BY <1>1, <2>3, <2>5, WalkFacts
  <2>7. l[b - 1] < m
    BY <1>3, <2>3, <2>5, <2>6
  <2>8. v[b - 1] \in closed[d][l[b - 1]]
    BY <2>2, <2>5, <2>7 DEF Bad
  <2>9. frontier[d].phase # "empty" => l[b] < frontier[d].g + MinTransitionCost(task)
    <3>1. frontier[d].g \in Nat /\ MinTransitionCost(task) \in Nat /\ l[b] \in Nat
      BY <1>3, <2>3, SearchedFacts
    <3>2. QED
      BY <2>3, <3>1 DEF Behind
  <2>10. v[b] \in closed[d][l[b]] \cup open[d][l[b]]
    BY <2>5, <2>8, <2>9, NextIsListed
  <2>11. ~ (m <= l[b])
    BY <1>3, <2>3
  <2>12. l[b] \in Keys(open[d])
    BY <1>3, <2>3, <2>10 DEF Keys
  <2>13. QED
    BY <2>11, <2>12 DEF Behind
<1>5. CASE i = 0
  BY <1>2, <1>5
<1>6. CASE i # 0
  BY <1>4, <1>6
<1>7. QED
  BY <1>5, <1>6

\* A direction is behind the level of its next bucket.
LEMMA BehindNext ==
    ASSUME Searched, NEW d \in Searches
    PROVE  /\ GetG(frontier[d], open[d]) \in Nat
           /\ Behind(d, GetG(frontier[d], open[d]))
<1>1. /\ MinG(open[d]) \in Level /\ \A k \in Keys(open[d]) : MinG(open[d]) <= k
  BY SearchedFacts, MinGFacts
<1>2. Leading(d)
  BY DEF Searched, ListInv
<1>3. /\ frontier[d].g \in Nat /\ MinTransitionCost(task) \in Nat
      /\ frontier[d].g <= frontier[d].g + MinTransitionCost(task)
  BY SearchedFacts
<1>4. MinG(open[d]) \in Nat
  BY <1>1, SearchedFacts
<1>5. QED
  BY <1>1, <1>2, <1>3, <1>4 DEF Behind, GetG, Leading

\* The places of a plan where the cuts of it may be: with one direction, at its end.
Joints(n) == IF Bidirectional THEN 0 .. n ELSE IF "fw" \in Searches THEN {n} ELSE {0}

\* The plan is cut in one of its states, and can be traced from there both ways.
Handled(w, l, n) ==
    \E j \in Joints(n) :
        /\ \A i \in 0 .. j - 1 : w[i] \in closed["fw"][l[i]]
        /\ \A i \in j + 1 .. n : w[i] \in closed["bw"][l[n] - l[i]]
        /\ \E sol \in sym_cuts : sol.g = l[j] /\ sol.h = l[n] - l[j] /\ w[j] \in sol.cut

\* A direction that has all but the last state of a walk behind it has met the
\* source of the other one.
LEMMA EndIsCut ==
    ASSUME Searched, NEW d \in Searches, NEW n \in Nat, NEW v, NEW l, Walk(d, v, l, n),
           l[n] < INT_MAX, NEW m \in Nat, CutsInv(m), m <= l[n],
           n = 0 \/ l[n - 1] < GetG(frontier[d], open[d])
    PROVE  /\ \A i \in 0 .. n - 1 : v[i] \in closed[d][l[i]]
           /\ \E sol \in sym_cuts : /\ sol.g = (IF d = "fw" THEN l[n] ELSE 0)
                                    /\ sol.h = (IF d = "fw" THEN 0 ELSE l[n])
                                    /\ v[n] \in sol.cut
<1>1. /\ d \in Dir /\ IsTask(task) /\ Opposite(d) \in Dir /\ 0 \in Level
      /\ \A b \in Dir : Source(task, b) \subseteq closed[b][0]
  BY SearchedFacts DEF Searched, ListInv
<1>2. PICK x : x = GetG(frontier[d], open[d])
  OBVIOUS
<1>3. x \in Nat /\ Behind(d, x)
  BY <1>2, BehindNext
<1>4. \A k \in 0 .. n : l[k] \in Nat /\ l[k] \in Level
  BY <1>1, WalksAreUseful, SearchedFacts
<1>5. ASSUME NEW i \in 0 .. n - 1 PROVE v[i] \in closed[d][l[i]]
  <2>1. i \in 0 .. n /\ n - 1 \in 0 .. n /\ i <= n - 1 /\ n # 0
    OBVIOUS
  <2>2. l[i] <= l[n - 1]
    BY <1>1, <2>1, WalkFacts
  <2>3. l[i] < x
    BY <1>2, <1>3, <1>4, <2>1, <2>2
  <2>4. QED
    BY <1>3, <2>1, <2>3, WalkIsClosed
<1>6. v[n] \in closed[d][l[n]] \cup open[d][l[n]]
  <2>1. CASE n = 0
    BY <1>1, <2>1 DEF Walk
  <2>2. CASE n # 0
    <3>1. n \in 1 .. n /\ n - 1 \in 0 .. n - 1
      BY <2>2
    <3>2. v[n - 1] \in closed[d][l[n - 1]]
      BY <1>5, <3>1
    <3>3. frontier[d].phase # "empty" => l[n - 1] < frontier[d].g
      BY <2>2 DEF GetG
    <3>4. QED
      BY <3>1, <3>2, <3>3, NextIsListed
  <2>3. QED
    BY <2>1, <2>2
<1>7. v[n] \in Source(task, Opposite(d)) /\ n \in 0 .. n
  BY DEF Walk
<1>8. Cut(d, m, l[n], 0, v[n])
  <2>1. v[n] \in closed[Opposite(d)][0]
    BY <1>1, <1>7
  <2>2. l[n] \in Level
    BY <1>4, <1>7
  <2>3. QED
    BY <1>1, <1>6, <1>7, <2>1, <2>2 DEF CutsInv, MetIn, MetAtSource
<1>9. ~ (l[n] + 0 < m)
  BY <1>4, <1>7
<1>10. QED
  BY <1>5, <1>8, <1>9 DEF Cut

\* So it has been cut at the end, if direction d has passed its cost.
LEMMA HandledByOne ==
    ASSUME Searched, NEW p, NEW w, NEW l, Course(p, w, l), NEW n, n = Len(p),
           l[n] < INT_MAX, NEW m \in Nat, CutsInv(m), m <= l[n],
           NEW d \in Searches,
           \/ frontier[d].phase # "empty" /\ l[n] < frontier[d].g + MinTransitionCost(task)
           \/ frontier[d].phase = "empty" /\ l[n] < MinG(open[d])
    PROVE  Handled(w, l, n)
<1>1. /\ n \in Nat /\ Walk("fw", w, l, n)
      /\ Walk("bw", Reversed(w, n), Left(l, n), n)
      /\ d \in Dir /\ IsTask(task)
  BY CourseIsWalk, SearchedFacts
<1>2. PICK x : x = GetG(frontier[d], open[d])
  OBVIOUS
<1>3. x \in Nat
  BY <1>2, BehindNext
<1>4. ASSUME NEW v, NEW r, Walk(d, v, r, n), r[n] = l[n], n # 0 PROVE r[n - 1] < x
  <2>1. n \in 1 .. n /\ n - 1 \in 0 .. n /\ n \in 0 .. n
    BY <1>1, <1>4
  <2>2. PICK c \in DOMAIN task.ops :
            c \in Nat /\ Edge(task, d, c, v[n - 1], v[n]) /\ r[n] = r[n - 1] + c
    BY <1>4, <2>1 DEF Walk
  <2>3. r[n - 1] \in Nat /\ r[n] \in Nat
    BY <1>4, <2>1 DEF Walk
  <2>4. /\ MinTransitionCost(task) <= c /\ MinTransitionCost(task) \in Nat
        /\ frontier[d].g \in Nat
    BY SearchedFacts
  <2>5. CASE frontier[d].phase # "empty"
    BY <1>2, <1>4, <2>2, <2>3, <2>4, <2>5 DEF GetG
  <2>6. CASE frontier[d].phase = "empty"
    <3>1. x = MinG(open[d])
      BY <1>2, <2>6 DEF GetG
    <3>2. QED
      BY <1>3, <1>4, <2>2, <2>3, <2>6, <3>1
  <2>7. QED
    BY <2>5, <2>6
<1>5. CASE d = "fw"
  <2>1. n = 0 \/ l[n - 1] < GetG(frontier[d], open[d])
    BY <1>1, <1>2, <1>4, <1>5
  <2>2. /\ \A i \in 0 .. n - 1 : w[i] \in closed["fw"][l[i]]
        /\ \E sol \in sym_cuts : sol.g = l[n] /\ sol.h = 0 /\ w[n] \in sol.cut
    BY <1>1, <1>5, <2>1, EndIsCut
  <2>3. n \in Joints(n) /\ l[n] - l[n] = 0 /\ n + 1 .. n = {}
    <3>1. n \in 0 .. n
      BY <1>1
    <3>2. l[n] \in Nat
      BY <1>1, <3>1 DEF Walk
    <3>3. QED
      BY <1>1, <1>5, <3>1, <3>2 DEF Joints
  <2>4. QED
    BY <2>2, <2>3 DEF Handled
<1>6. CASE d = "bw"
  <2> DEFINE v == Reversed(w, n)
             r == Left(l, n)
  <2>1. \A k \in 0 .. n : n - k \in 0 .. n /\ n - (n - k) = k
    BY <1>1
  <2>2. \A k \in 0 .. n : v[k] = w[n - k] /\ r[k] = l[n] - l[n - k] /\ l[k] \in Nat
    BY <1>1 DEF Reversed, Left, Walk
  <2>3. 0 \in 0 .. n /\ n \in 0 .. n /\ n - n = 0
    BY <1>1
  <2> HIDE DEF v, r
  <2>4. v[n] = w[0] /\ l[0] = 0 /\ r[n] = l[n] /\ l[n] \in Nat
    BY <1>1, <2>2, <2>3 DEF Walk
  <2>5. Walk(d, v, r, n)
    BY <1>1, <1>6 DEF v, r
  <2>6. n = 0 \/ r[n - 1] < GetG(frontier[d], open[d])
    BY <1>2, <1>4, <2>4, <2>5
  <2>7. r[n] < INT_MAX /\ m <= r[n]
    BY <2>4
  <2>8. /\ \A i \in 0 .. n - 1 : v[i] \in closed["bw"][r[i]]
        /\ \E sol \in sym_cuts : sol.g = 0 /\ sol.h = r[n] /\ v[n] \in sol.cut
    BY <1>1, <1>6, <2>5, <2>6, <2>7, EndIsCut
  <2>9. ASSUME NEW i \in 1 .. n PROVE w[i] \in closed["bw"][l[n] - l[i]]
    <3>1. n - i \in 0 .. n - 1 /\ n - i \in 0 .. n /\ n - (n - i) = i
      BY <1>1
    <3>2. v[n - i] = w[i] /\ r[n - i] = l[n] - l[i]
      BY <2>2, <3>1
    <3>3. QED
      BY <2>8, <3>1, <3>2
  <2>10. 0 \in Joints(n) /\ 0 .. 0 - 1 = {} /\ 0 + 1 = 1 /\ l[n] - 0 = l[n]
    <3>1. Bidirectional \/ "fw" \notin Searches
      BY <1>6, SearchesAssumption DEF Bidirectional, Dir
    <3>2. 0 \in Joints(n)
      BY <1>1, <2>3, <3>1 DEF Joints
    <3>3. QED
      BY <2>4, <3>2
  <2>11. QED
    BY <2>4, <2>8, <2>9, <2>10 DEF Handled
<1>7. QED
  BY <1>1, <1>5, <1>6 DEF Dir
\* A direction that has not yet expanded its frontier is behind the level of it,
\* and behind the next level if no operator is free.
LEMMA BehindFrontier ==
    ASSUME Searched, NEW d \in Searches, frontier[d].phase # "empty"
    PROVE  Behind(d, frontier[d].g + LesserOf(1, MinTransitionCost(task)))
<1> DEFINE z == LesserOf(1, MinTransitionCost(task))
<1>1. /\ MinTransitionCost(task) \in Nat /\ frontier[d].g \in Nat
      /\ HasZeroCost(task) <=> MinTransitionCost(task) = 0
  BY SearchedFacts
<1>2. z \in Nat /\ z <= MinTransitionCost(task) /\ (MinTransitionCost(task) = 0 => z = 0) /\ z <= 1
  BY <1>1 DEF LesserOf
<1> HIDE DEF z
<1>3. ASSUME NEW j \in Keys(open[d]) PROVE frontier[d].g + z <= j
  <2>1. frontier[d].g <= j /\ (frontier[d].g = j => HasZeroCost(task))
    BY <1>3 DEF Searched, ListInv, Leading
  <2>2. j \in Nat
    BY <1>3, SearchedFacts DEF Keys
  <2>3. QED
    BY <1>1, <1>2, <2>1, <2>2
<1>4. frontier[d].g + z <= frontier[d].g + MinTransitionCost(task)
  BY <1>1, <1>2
<1>5. QED
  BY <1>3, <1>4 DEF Behind, z

\* A plan that costs less than both directions have searched through together is
\* cut where they meet: in a state that both have closed, or at one end of an
\* operator whose ends they have expanded.
LEMMA HandledByBoth ==
    ASSUME Searched, NEW p, NEW w, NEW l, Course(p, w, l), NEW n, n = Len(p),
           l[n] < INT_MAX, NEW m \in Nat, CutsInv(m), m <= l[n], Bidirectional,
           frontier["fw"].phase # "empty", frontier["bw"].phase # "empty",
           l[n] < frontier["fw"].g + frontier["bw"].g + LesserOf(1, MinTransitionCost(task))
    PROVE  Handled(w, l, n)
<1>1. /\ n \in Nat /\ Walk("fw", w, l, n)
      /\ Walk("bw", Reversed(w, n), Left(l, n), n)
      /\ "fw" \in Searches /\ "bw" \in Searches /\ "fw" \in Dir /\ IsTask(task)
      /\ Opposite("fw") = "bw"
  BY CourseIsWalk, SearchedFacts DEF Bidirectional, Dir, Opposite
<1>2. PICK a, b, z : /\ a = frontier["fw"].g /\ b = frontier["bw"].g
                     /\ z = LesserOf(1, MinTransitionCost(task))
  OBVIOUS
<1>3. a \in Nat /\ b \in Nat /\ z \in Nat /\ l[n] < a + b + z
  BY <1>1, <1>2, SearchedFacts DEF LesserOf
<1>4. Behind("fw", a + z) /\ Behind("bw", b + z) /\ a + z \in Nat /\ b + z \in Nat
  <2>1. Behind("fw", frontier["fw"].g + LesserOf(1, MinTransitionCost(task)))
    BY <1>1, BehindFrontier
  <2>2. Behind("bw", frontier["bw"].g + LesserOf(1, MinTransitionCost(task)))
    BY <1>1, BehindFrontier
  <2>3. /\ frontier["fw"].g + LesserOf(1, MinTransitionCost(task)) = a + z
        /\ frontier["bw"].g + LesserOf(1, MinTransitionCost(task)) = b + z
    BY <1>2
  <2>4. a + z \in Nat /\ b + z \in Nat
    BY <1>3
  <2>5. Behind("fw", a + z) /\ Behind("bw", b + z)
    BY <2>1, <2>2, <2>3, Zenon
  <2>6. QED
    BY <2>4, <2>5
<1>5. \A i \in 0 .. n : l[i] \in Nat /\ l[i] \in Level /\ l[i] <= l[n] /\ l[n] - l[i] \in Level
  <2>1. ASSUME NEW i \in 0 .. n
        PROVE l[i] \in Nat /\ l[i] \in Level /\ l[i] <= l[n] /\ l[n] - l[i] \in Level
    <3>1. l[i] \in Level /\ l[i] <= l[n] /\ l[i] \in Nat /\ l[n] \in Nat
      <4>1. l[i] \in Level /\ l[i] <= l[n]
        BY <1>1, WalksAreUseful
      <4>2. n \in 0 .. n
        BY <1>1
      <4>3. QED
        BY <1>1, <4>1, <4>2 DEF Walk
    <3>2. l[n] - l[i] \in Nat /\ l[n] - l[i] <= INT_MAX /\ INT_MAX \in Nat
      BY <3>1, SearchedFacts
    <3>3. QED
      BY <3>1, <3>2, SearchedFacts
  <2>2. QED
    BY <2>1
<1>6. \A i \in 0 .. n : l[i] < a + z \/ i = 0 => w[i] \in closed["fw"][l[i]]
  BY <1>1, <1>4, WalkIsClosed
<1>7. \A i \in 0 .. n : l[n] - l[i] < b + z \/ i = n => w[i] \in closed["bw"][l[n] - l[i]]
  <2> DEFINE v == Reversed(w, n)
             r == Left(l, n)
  <2>1. \A i \in 0 .. n : v[n - i] = w[i] /\ r[n - i] = l[n] - l[i] /\ n - i \in 0 .. n
    <3>1. \A i \in 0 .. n : n - i \in 0 .. n /\ n - (n - i) = i
      BY <1>1
    <3>2. QED
      BY <3>1 DEF Reversed, Left
  <2>2. Walk("bw", v, r, n)
    BY <1>1
  <2> HIDE DEF v, r
  <2>3. r[n] < INT_MAX
    <3>1. 0 \in 0 .. n /\ n - 0 = n /\ l[0] = 0 /\ l[n] \in Nat /\ n \in 0 .. n
      BY <1>1 DEF Walk
    <3>2. r[n] = l[n] - l[0]
      BY <2>1, <3>1
    <3>3. QED
      BY <3>1, <3>2
  <2>4. ASSUME NEW i \in 0 .. n, l[n] - l[i] < b + z \/ i = n
        PROVE  w[i] \in closed["bw"][l[n] - l[i]]
    <3>1. n - i \in 0 .. n /\ (i = n => n - i = 0) /\ (r[n - i] < b + z \/ n - i = 0)
      BY <1>1, <2>1, <2>4
    <3>2. v[n - i] \in closed["bw"][r[n - i]]
      BY <1>1, <1>4, <2>2, <2>3, <3>1, WalkIsClosed
    <3>3. QED
      BY <2>1, <3>2
  <2>5. QED
    BY <2>4
<1>8. PICK S : S = {i \in 0 .. n : l[n] - l[i] < b + z \/ i = n}
  OBVIOUS
<1>9. S \in SUBSET Nat /\ n \in S
  BY <1>1, <1>8
<1>10. PICK k : k \in S /\ \A i \in S : k <= i
  BY <1>9, NatHasLeast
<1>11. k \in 0 .. n /\ (l[n] - l[k] < b + z \/ k = n)
  BY <1>8, <1>10
<1>12. \A i \in k .. n : w[i] \in closed["bw"][l[n] - l[i]]
  <2>1. ASSUME NEW i \in k .. n PROVE w[i] \in closed["bw"][l[n] - l[i]]
    <3>1. i \in 0 .. n /\ k \in 0 .. n /\ k <= i
      BY <1>1, <1>11
    <3>2. l[k] <= l[i]
      BY <1>1, <3>1, WalkFacts
    <3>3. l[n] - l[i] < b + z \/ i = n
      BY <1>1, <1>3, <1>5, <1>11, <3>1, <3>2
    <3>4. QED
      BY <1>7, <3>1, <3>3
  <2>2. QED
    BY <2>1
<1>13. ASSUME NEW j \in 0 .. n, \A i \in 0 .. j - 1 : w[i] \in closed["fw"][l[i]],
              \A i \in j + 1 .. n : w[i] \in closed["bw"][l[n] - l[i]],
              Cut("fw", m, l[j], l[n] - l[j], w[j])
       PROVE  Handled(w, l, n)
  <2>1. ~ (l[j] + (l[n] - l[j]) < m)
    BY <1>1, <1>5, <1>13
  <2>2. \E sol \in sym_cuts : sol.g = l[j] /\ sol.h = l[n] - l[j] /\ w[j] \in sol.cut
    BY <1>13, <2>1 DEF Cut
  <2>3. j \in Joints(n)
    BY DEF Joints
  <2>4. QED
    BY <1>13, <2>2, <2>3 DEF Handled
<1>14. ASSUME NEW j \in 0 .. n, w[j] \in closed["fw"][l[j]], w[j] \in closed["bw"][l[n] - l[j]]
       PROVE  Cut("fw", m, l[j], l[n] - l[j], w[j])
  <2>1. MetIn(m)
    BY DEF CutsInv
  <2>2. l[j] \in Level /\ l[n] - l[j] \in Level
    BY <1>5
  <2>3. QED
    BY <1>1, <1>14, <2>1, <2>2 DEF MetIn
<1>15. CASE k = 0
  <2>1. 0 \in 0 .. n /\ 0 .. 0 - 1 = {} /\ 0 \in k .. n
        /\ \A i \in 0 + 1 .. n : i \in k .. n
    BY <1>1, <1>15
  <2>2. w[0] \in closed["fw"][l[0]] /\ w[0] \in closed["bw"][l[n] - l[0]]
    BY <1>6, <1>12, <2>1
  <2>3. QED
    BY <1>12, <1>13, <1>14, <2>1, <2>2
<1>16. CASE k # 0
  <2>1. /\ k \in 1 .. n /\ k - 1 \in 0 .. n /\ ~ (k <= k - 1) /\ k - 1 # n /\ k \in k .. n
        /\ \A i \in k + 1 .. n : i \in k .. n
        /\ \A i \in k - 1 + 1 .. n : i \in k .. n
        /\ \A i \in 0 .. k - 1 : i \in 0 .. n /\ i <= k - 1
        /\ \A i \in 0 .. k - 1 - 1 : i \in 0 .. k - 1
    BY <1>1, <1>11, <1>16
  <2>2. l[n] - l[k - 1] >= b + z
    <3>1. k - 1 \notin S
      BY <1>10, <2>1
    <3>2. ~ (l[n] - l[k - 1] < b + z)
      BY <1>8, <2>1, <3>1
    <3>3. QED
      BY <1>3, <1>5, <2>1, <3>2, SMTT(30)
  <2>3. l[k - 1] < a
    <3>1. l[k - 1] \in Nat /\ l[n] \in Nat
      BY <1>1, <1>5, <2>1 DEF Walk
    <3>2. QED
      BY <1>3, <2>2, <3>1
  <2>4. \A i \in 0 .. k - 1 : w[i] \in closed["fw"][l[i]]
    <3>1. ASSUME NEW i \in 0 .. k - 1 PROVE w[i] \in closed["fw"][l[i]]
      <4>1. l[i] <= l[k - 1]
        BY <1>1, <2>1, WalkFacts
      <4>2. i \in 0 .. n /\ l[i] \in Nat /\ l[k - 1] \in Nat
        BY <1>5, <2>1
      <4>3. l[i] < a + z
        BY <1>3, <2>3, <4>1, <4>2
      <4>4. QED
        BY <1>6, <4>2, <4>3
    <3>2. QED
      BY <3>1
  <2>5. k - 1 \in 0 .. k - 1
    BY <2>1
  <2>6. CASE l[k] < a + z
    <3>1. w[k] \in closed["fw"][l[k]] /\ w[k] \in closed["bw"][l[n] - l[k]]
      BY <1>6, <1>11, <1>12, <2>1, <2>6
    <3>2. Cut("fw", m, l[k], l[n] - l[k], w[k])
      BY <1>11, <1>14, <3>1
    <3>3. QED
      BY <1>11, <1>12, <1>13, <2>1, <2>4, <3>2
  <2>7. CASE ~ (l[k] < a + z)
    <3>1. l[n] - l[k] < b
      BY <1>1, <1>3, <1>5, <1>11, <2>7, SMTT(30)
    <3>2. PICK c \in DOMAIN task.ops :
              c \in Nat /\ Edge(task, "fw", c, w[k - 1], w[k]) /\ l[k] = l[k - 1] + c
      BY <1>1, <2>1 DEF Walk
    <3>3. /\ Useful(w[k - 1]) /\ Useful(w[k]) /\ l[k - 1] \in Level /\ l[n] - l[k] \in Level
      BY <1>1, <1>5, <1>11, <2>1, WalksAreUseful
    <3>4. Expanded("fw", l[k - 1], w[k - 1], c)
      BY <1>2, <1>3, <1>5, <2>1, <2>3 DEF Expanded
    <3>5. Expanded("bw", l[n] - l[k], w[k], c)
      <4>1. l[n] - l[k] # frontier["bw"].g
        BY <1>2, <1>3, <3>1, <3>3, SearchedFacts
      <4>2. QED
        BY <4>1 DEF Expanded
    <3>6. w[k - 1] \in closed["fw"][l[k - 1]] /\ w[k] \in closed["bw"][l[n] - l[k]]
      BY <1>12, <2>1, <2>4, <2>5
    <3>7. MetBetween(m)
      BY DEF CutsInv
    <3>8. \/ Cut("fw", m, l[k - 1] + c, l[n] - l[k], w[k])
          \/ Cut("fw", m, l[k - 1], l[n] - l[k] + c, w[k - 1])
      BY <1>1, <3>2, <3>3, <3>4, <3>5, <3>6, <3>7 DEF MetBetween
    <3>9. l[n] - l[k] + c = l[n] - l[k - 1]
      <4>1. l[k - 1] \in Nat /\ l[k] \in Nat /\ l[n] \in Nat
        BY <1>1, <1>5, <1>11, <2>1 DEF Walk
      <4>2. QED
        BY <3>2, <4>1
    <3>10. CASE Cut("fw", m, l[k - 1] + c, l[n] - l[k], w[k])
      <4>1. Cut("fw", m, l[k], l[n] - l[k], w[k])
        BY <3>2, <3>10
      <4>2. QED
        BY <1>11, <1>12, <1>13, <2>1, <2>4, <4>1
    <3>11. CASE Cut("fw", m, l[k - 1], l[n] - l[k] + c, w[k - 1])
      <4>1. Cut("fw", m, l[k - 1], l[n] - l[k - 1], w[k - 1])
        BY <3>9, <3>11
      <4>2. QED
        BY <1>12, <1>13, <2>1, <2>4, <4>1
    <3>12. QED
      BY <3>8, <3>10, <3>11
  <2>8. QED
    BY <2>6, <2>7
<1>17. QED
  BY <1>15, <1>16
-----------------------------------------------------------------------------
(* What the steps do to the lists *)

\* Direction d closes the bucket of level g, of which new had not been closed;
\* what it drops is not useful.
Popping(d, g, new) ==
    /\ task' = task
    /\ PopReady(d) /\ frontier[d].phase = "empty"
    /\ g \in Level /\ g \in Keys(open[d]) /\ \A k \in Keys(open[d]) : g <= k
    /\ new \subseteq open[d][g]
    /\ \A y \in open[d][g] : Useful(y) => y \in closed[d][g] \cup new
    /\ frontier'[d].g = g /\ frontier'[d].states = new
    /\ frontier'[d].phase = IF new = {} THEN "empty" ELSE "filter"
    /\ \A b \in Searches \ {d} : open'[b] = open[b] /\ frontier'[b] = frontier[b]
    /\ \A k \in Level : open'[d][k] = IF k = g THEN {} ELSE open[d][k]
    /\ \A b \in Dir : \A k \in Level : \A s :
          s \in closed'[b][k] <=> s \in closed[b][k] \/ (b = d /\ k = g /\ s \in new)

\* Direction d computes an image of its frontier.
Imaging(d) ==
    /\ UNCHANGED <<task, closed>>
    /\ pc = "expand" /\ dir = d
    /\ \A b \in Searches \ {d} : open'[b] = open[b] /\ frontier'[b] = frontier[b]
    /\ frontier'[d].g = frontier[d].g
    /\ frontier[d].phase = "zero" =>
          frontier'[d].phase = "cost" /\ frontier'[d].states = frontier[d].states
    /\ frontier[d].phase # "zero" => frontier'[d].phase = "empty" /\ frontier'[d].states = {}
    /\ \A k \in Level : open[d][k] \subseteq open'[d][k]
    /\ \A k \in Level : \A y \in open'[d][k] \ open[d][k] :
          \E c \in CostsOf(frontier[d].phase) : /\ k = frontier[d].g + c
                                                /\ y \in Image(task, d, c, frontier[d].states)
    /\ \A c \in CostsOf(frontier[d].phase) :
          /\ c \in DOMAIN task.ops /\ c \in Nat
          /\ frontier[d].g + c \in Level /\ frontier[d].g + c < INT_MAX
          /\ Image(task, d, c, frontier[d].states) \subseteq open'[d][frontier[d].g + c]
          /\ Image(task, d, c, frontier[d].states) \in SUBSET State

\* No list changes.
Resting == UNCHANGED <<task, frontier, open, closed>>

\* A cut that is reported may be dropped.
Deaf == Over \/ lower_bound = INT_MAX

\* The cuts are registered, next to what has been, or the search is told to end.
ToldOf(sols) ==
    /\ \A c \in sym_cuts : RegisteredIn(c, sym_cuts')
    /\ \A sol \in sols : (Deaf /\ lower_bound' = INT_MAX) \/ RegisteredIn(sol, sym_cuts')

\* No useful state is dropped from a bucket that is popped.
LEMMA PopBucketIsPopping ==
    ASSUME EngineInv, PlansInv, NEW d \in Searches, PopBucket(d)
    PROVE  \E g, new : Popping(d, g, new) /\ ToldOf(AllCuts(d, g, open[d][g]))
<1>1. TypeOK /\ EngineTypeOK /\ IsTask(task) /\ d \in Dir /\ INT_MAX \in Nat
  BY SearchesAssumption, IntMaxAssumption DEF EngineInv, TypeOK, EngineTypeOK
<1>2. PopReady(d) /\ task' = task
  BY PopBucketFacts
<1>3. PICK e, new : PoppedTo(d, e, new)
  BY PopBucketFacts
<1>4. PICK g : g = MinG(open[d])
  OBVIOUS
<1>5. /\ g \in Keys(open[d]) /\ g \in Level /\ \A k \in Keys(open[d]) : g <= k
      /\ GoodCuts(AllCuts(d, g, open[d][g]))
      /\ e.lower \in Level
      /\ new \subseteq open[d][g] \ closed[d][g]
      /\ closed' = [closed EXCEPT ![d][g] = @ \cup new]
      /\ \A k \in Level : open'[d][k] = IF k = g THEN {} ELSE open[d][k]
      /\ \A b \in Searches \ {d} : open'[b] = open[b] /\ frontier'[b] = frontier[b]
      /\ frontier'[d].g = g /\ frontier'[d].states = new
      /\ frontier'[d].phase = IF new = {} THEN "empty" ELSE "filter"
      /\ sym_cuts' = e.cuts
  <2>1. /\ MinG(open[d]) \in Keys(open[d]) /\ MinG(open[d]) \in Level
        /\ e.lower \in Level
        /\ new \subseteq open[d][MinG(open[d])] \ closed[d][MinG(open[d])]
    BY <1>2, <1>3, PoppedFacts
  <2>4. \A k \in Keys(open[d]) : MinG(open[d]) <= k
    BY <1>2, <1>3, PoppedFacts
  <2>5. GoodCuts(AllCuts(d, MinG(open[d]), open[d][MinG(open[d])]))
    BY <1>2, <1>3, PoppedFacts
  <2>6. closed' = [closed EXCEPT ![d][MinG(open[d])] = @ \cup new]
    BY <1>2, <1>3, PoppedFacts
  <2>2. /\ \A k \in Level : open'[d][k] = IF k = MinG(open[d]) THEN {} ELSE open[d][k]
        /\ \A b \in Searches \ {d} : open'[b] = open[b] /\ frontier'[b] = frontier[b]
        /\ frontier'[d].g = MinG(open[d]) /\ frontier'[d].states = new
        /\ frontier'[d].phase = IF new = {} THEN "empty" ELSE "filter"
        /\ sym_cuts' = e.cuts
    BY <1>2, <1>3, PoppedFacts
  <2>3. QED
    BY <1>4, <2>1, <2>2, <2>4, <2>5, <2>6, Zenon
<1>6. PICK x : x = GetF(frontier'[d], open'[d])
  OBVIOUS
<1>7. lower_bound' = GreaterOf(e.lower, x) /\ x \in Int /\ x <= INT_MAX
  BY <1>2, <1>3, <1>6, PoppedFacts
<1>8. frontier[d].phase = "empty"
  BY <1>2 DEF PopReady
<1>9. ASSUME NEW y \in open[d][g], Useful(y) PROVE y \in closed[d][g] \cup new
  <2>1. y \in task.notMutex[d]
    BY <1>1, <1>9, PlansAvoidMutexes DEF Useful
  <2>2. FilterMutex(task, d, g = 0 /\ lastStepCost[d], open[d][g] \ closed[d][g]) \subseteq new
    BY <1>3, <1>4 DEF PoppedTo, FilterSameCost, FilteredInPart
  <2>3. QED
    BY <1>9, <2>1, <2>2 DEF FilterMutex
<1>10. \A b \in Dir : \A k \in Level : \A s :
          s \in closed'[b][k] <=> s \in closed[b][k] \/ (b = d /\ k = g /\ s \in new)
  BY <1>1, <1>5 DEF EngineTypeOK, Levels
<1>11. Popping(d, g, new)
  BY <1>2, <1>5, <1>8, <1>9, <1>10 DEF Popping
<1>12. ToldOf(AllCuts(d, g, open[d][g]))
  <2>1. e \in Reported(d, AllCuts(d, g, open[d][g]))
    BY <1>3, <1>4 DEF PoppedTo
  <2>2. e \in Kept(AllCuts(d, g, open[d][g])) /\ \A sol \in AllCuts(d, g, open[d][g]) : Noticed(sol, e)
    BY <1>5, <2>1, WhatHolds, ReportedFacts
  <2>3. e.lower = INT_MAX => lower_bound' = INT_MAX
    BY <1>1, <1>7 DEF GreaterOf
  <2>4. QED
    BY <1>5, <2>2, <2>3 DEF ToldOf, Kept, Noticed, Deaf
<1>13. QED
  BY <1>11, <1>12

\* All successors are listed.
LEMMA ExpandFrontierIsImaging ==
    ASSUME EngineInv, PlansInv, NEW d \in Searches, ExpandFrontier(d)
    PROVE  Imaging(d) /\ ToldOf(AllImageCuts(d))
<1> DEFINE Succ(c) == Image(task, d, c, frontier[d].states)
           costs == CostsOf(frontier[d].phase)
<1>1. TypeOK /\ LevelInv /\ frontier[d] \in Frontier /\ open[d] \in Levels
  BY DEF EngineInv, TypeOK
<1>2. /\ pc = "expand" /\ dir = d
      /\ \A c \in costs : frontier[d].g + c < INT_MAX
      /\ open' = [open EXCEPT ![d] = [g \in Level |->
             open[d][g] \cup UNION {Succ(c) : c \in {k \in costs : frontier[d].g + k = g}}]]
      /\ frontier' = [frontier EXCEPT ![d] =
             IF frontier[d].phase = "zero"
             THEN [frontier[d] EXCEPT !.phase = "cost"]
             ELSE [frontier[d] EXCEPT !.phase = "empty", !.states = {}]]
      /\ UNCHANGED <<task, closed>>
  BY DEF ExpandFrontier
<1>3. \A c \in costs : /\ c \in DOMAIN task.ops /\ c \in Nat /\ frontier[d].g + c \in Level
                       /\ Succ(c) \in SUBSET State
  BY <1>1, <1>2, SuccessorFacts DEF EngineInv
<1>4. \A b \in Searches \ {d} : open'[b] = open[b] /\ frontier'[b] = frontier[b]
  BY <1>1, <1>2 DEF TypeOK
<1>5. /\ frontier'[d].g = frontier[d].g
      /\ frontier[d].phase = "zero" =>
            frontier'[d].phase = "cost" /\ frontier'[d].states = frontier[d].states
      /\ frontier[d].phase # "zero" => frontier'[d].phase = "empty" /\ frontier'[d].states = {}
  BY <1>1, <1>2 DEF TypeOK, Frontier
<1> HIDE DEF Succ, costs
<1>6. \A k \in Level : open'[d][k] =
          open[d][k] \cup UNION {Succ(c) : c \in {j \in costs : frontier[d].g + j = k}}
  BY <1>1, <1>2 DEF TypeOK
<1>7. /\ \A k \in Level : open[d][k] \subseteq open'[d][k]
      /\ \A k \in Level : \A y \in open'[d][k] \ open[d][k] :
            \E c \in costs : k = frontier[d].g + c /\ y \in Succ(c)
      /\ \A c \in costs : Succ(c) \subseteq open'[d][frontier[d].g + c]
  BY <1>3, <1>6
<1>8. Imaging(d)
  BY <1>2, <1>3, <1>4, <1>5, <1>7 DEF Imaging, Succ, costs
<1>9. PICK e \in Reported(d, AllImageCuts(d)) :
              /\ sym_cuts' = e.cuts /\ lower_bound' = e.lower /\ upper_bound' = e.upper
              /\ GoodCuts(AllImageCuts(d))
  BY ExpandedTo
<1>10. e \in Kept(AllImageCuts(d)) /\ \A sol \in AllImageCuts(d) : Noticed(sol, e)
  BY <1>9, WhatHolds, ReportedFacts
<1>11. ToldOf(AllImageCuts(d))
  BY <1>9, <1>10 DEF ToldOf, Kept, Noticed, Deaf
<1>12. QED
  BY <1>8, <1>11
-----------------------------------------------------------------------------
(* The lists are kept *)

\* A state that has just been closed is not expanded.
LEMMA PoppingExpands ==
    ASSUME NEW d \in Searches, NEW g, NEW new, Popping(d, g, new),
           NEW b \in Searches, NEW k \in Level, NEW s \in closed'[b][k], NEW c,
           Expanded(b, k, s, c)'
    PROVE  s \in closed[b][k] /\ Expanded(b, k, s, c)
<1>1. b \in Dir
  BY SearchesAssumption
<1>2. s \in closed[b][k] \/ (b = d /\ k = g /\ s \in new)
  BY <1>1 DEF Popping
<1>3. CASE b = d
  <2>1. /\ frontier[d].phase = "empty" /\ frontier'[d].g = g /\ frontier'[d].states = new
        /\ frontier'[d].phase = IF new = {} THEN "empty" ELSE "filter"
    BY DEF Popping
  <2>2. ~ (k = g /\ s \in new)
    BY <1>3, <2>1 DEF Expanded
  <2>3. QED
    BY <1>2, <1>3, <2>1, <2>2 DEF Expanded
<1>4. CASE b # d
  <2>1. frontier'[b] = frontier[b]
    BY <1>4 DEF Popping
  <2>2. QED
    BY <1>2, <1>4, <2>1 DEF Expanded
<1>5. QED
  BY <1>3, <1>4

\* Only an image makes a state expanded, by the operators it is computed for.
LEMMA ImagingExpands ==
    ASSUME NEW d \in Searches, Imaging(d), Placed(d),
           NEW b \in Searches, NEW k, NEW s, NEW c \in DOMAIN task.ops,
           Expanded(b, k, s, c)', ~Expanded(b, k, s, c)
    PROVE  /\ b = d /\ s \in frontier[d].states /\ k = frontier[d].g
           /\ c \in CostsOf(frontier[d].phase)
<1>1. /\ \A f \in Searches \ {d} : frontier'[f] = frontier[f]
      /\ frontier'[d].g = frontier[d].g
      /\ frontier[d].phase = "zero" =>
            frontier'[d].phase = "cost" /\ frontier'[d].states = frontier[d].states
      /\ frontier[d].phase \in {"zero", "cost"}
  BY DEF Imaging, Placed
<1>2. b = d
  BY <1>1 DEF Expanded
<1>3. s \in frontier[d].states /\ k = frontier[d].g
  BY <1>2 DEF Expanded
<1>4. frontier[d].phase = "cost" => c # 0
  BY <1>2, <1>3 DEF Expanded
<1>5. frontier[d].phase = "zero" => c = 0
  BY <1>1, <1>2, <1>3 DEF Expanded
<1>6. QED
  BY <1>1, <1>2, <1>3, <1>4, <1>5 DEF CostsOf

\* The mutex filter does not make a useful state expanded.
LEMMA FilteringExpands ==
    ASSUME IsTask(task), NEW d \in Searches, Filtered(d),
           NEW b \in Searches, NEW k, NEW s, Useful(s), NEW c \in DOMAIN task.ops,
           Expanded(b, k, s, c)'
    PROVE  Expanded(b, k, s, c)
<1>1. d \in Dir
  BY SearchesAssumption
<1>2. /\ \A e \in Searches \ {d} : frontier'[e] = frontier[e]
      /\ frontier[d].phase = "filter"
      /\ frontier'[d].g = frontier[d].g
      /\ frontier[d].states \cap task.notMutex[d] \subseteq frontier'[d].states
      /\ frontier'[d].phase \in {"filter", IF HasZeroCost(task) THEN "zero" ELSE "cost"}
  BY DEF Filtered
<1>3. CASE b # d
  BY <1>2, <1>3 DEF Expanded
<1>4. CASE b = d
  <2> SUFFICES ASSUME s \in frontier[d].states, k = frontier[d].g PROVE FALSE
    BY <1>4 DEF Expanded
  <2>1. s \in task.notMutex[d]
    BY <1>1, PlansAvoidMutexes DEF Useful
  <2>2. s \in frontier'[d].states /\ k = frontier'[d].g
    BY <1>2, <2>1
  <2>3. frontier'[d].phase = "cost" => c # 0
    <3> SUFFICES ASSUME frontier'[d].phase = "cost" PROVE c # 0
      OBVIOUS
    <3>1. MinTransitionCost(task) # 0
      BY <1>2 DEF HasZeroCost
    <3>2. c \in Nat /\ MinTransitionCost(task) <= c /\ MinTransitionCost(task) \in Nat
      BY MinTransitionCostFacts, LevelFacts
    <3>3. QED
      BY <3>1, <3>2
  <2>4. frontier'[d].phase \in {"filter", "zero", "cost"}
    BY <1>2
  <2>5. QED
    BY <1>4, <2>2, <2>3, <2>4 DEF Expanded
<1>5. QED
  BY <1>3, <1>4

\* What depends on the lists alone.
ListsOK ==
    /\ \A d \in Dir : Source(task, d) \subseteq closed[d][0]
    /\ \A d \in Searches : Lossless(d) /\ Leading(d)

\* They are kept when nothing is listed,
LEMMA RestingLists ==
    ASSUME ListsOK, Resting
    PROVE  ListsOK'
<1>1. UNCHANGED <<task, frontier, open, closed>>
  BY DEF Resting
<1>2. QED
  BY <1>1 DEF ListsOK, Lossless, Leading, Expanded, Useful, Keys, CostThrough

\* ... when the frontier is filtered,
LEMMA FilteringLists ==
    ASSUME ListsOK, IsTask(task), NEW d \in Searches, Filtered(d)
    PROVE  ListsOK'
<1>1. UNCHANGED <<task, open, closed>>
  BY DEF Filtered
<1>2. ASSUME NEW b \in Searches PROVE Lossless(b)'
  <2> SUFFICES ASSUME NEW g \in Level, NEW c \in DOMAIN task'.ops, NEW s \in closed'[b][g], NEW y,
                      Useful(s)', Useful(y)', Edge(task', b, c, s, y), Expanded(b, g, s, c)',
                      g + c \in Level
               PROVE  y \in closed'[b][g + c] \cup open'[b][g + c]
    BY DEF Lossless
  <2>1. Useful(s) /\ Useful(y) /\ Edge(task, b, c, s, y) /\ s \in closed[b][g]
        /\ c \in DOMAIN task.ops
    BY <1>1 DEF Useful, CostThrough
  <2>2. Expanded(b, g, s, c)
    BY <2>1, FilteringExpands
  <2>3. QED
    BY <1>1, <2>1, <2>2 DEF ListsOK, Lossless
<1>3. ASSUME NEW b \in Searches PROVE Leading(b)'
  <2>1. /\ frontier'[b].g = frontier[b].g
        /\ frontier'[b].phase # "empty" => frontier[b].phase # "empty"
    BY DEF Filtered
  <2>2. QED
    BY <1>1, <2>1 DEF ListsOK, Leading, Keys
<1>4. QED
  BY <1>1, <1>2, <1>3 DEF ListsOK

\* ... when a bucket is popped,
LEMMA PoppingLists ==
    ASSUME ListsOK, IsTask(task), NEW d \in Searches, NEW g, NEW new, Popping(d, g, new)
    PROVE  ListsOK'
<1>1. /\ task' = task /\ g \in Level
      /\ \A y \in open[d][g] : Useful(y) => y \in closed[d][g] \cup new
      /\ \A b \in Searches \ {d} : open'[b] = open[b] /\ frontier'[b] = frontier[b]
      /\ \A k \in Level : open'[d][k] = IF k = g THEN {} ELSE open[d][k]
      /\ \A b \in Dir : \A k \in Level : \A s :
            s \in closed'[b][k] <=> s \in closed[b][k] \/ (b = d /\ k = g /\ s \in new)
  BY DEF Popping
<1>2. ASSUME NEW b \in Searches PROVE Lossless(b)'
  <2> SUFFICES ASSUME NEW k \in Level, NEW c \in DOMAIN task'.ops, NEW s \in closed'[b][k], NEW y,
                      Useful(s)', Useful(y)', Edge(task', b, c, s, y), Expanded(b, k, s, c)',
                      k + c \in Level
               PROVE  y \in closed'[b][k + c] \cup open'[b][k + c]
    BY DEF Lossless
  <2>1. Useful(s) /\ Useful(y) /\ Edge(task, b, c, s, y) /\ c \in DOMAIN task.ops /\ b \in Dir
    BY <1>1, SearchesAssumption DEF Useful, CostThrough
  <2>2. s \in closed[b][k] /\ Expanded(b, k, s, c)
    BY PoppingExpands
  <2>3. y \in closed[b][k + c] \cup open[b][k + c]
    BY <2>1, <2>2 DEF ListsOK, Lossless
  <2>4. y \in closed[b][k + c] => y \in closed'[b][k + c]
    BY <1>1, <2>1
  <2>5. CASE b # d
    BY <1>1, <2>3, <2>4, <2>5
  <2>6. CASE b = d /\ k + c # g
    BY <1>1, <2>3, <2>4, <2>6
  <2>7. CASE b = d /\ k + c = g
    <3>1. y \in open[d][g] => y \in closed[d][g] \cup new
      BY <1>1, <2>1
    <3>2. y \in closed[d][g] \cup new
      BY <2>3, <2>7, <3>1
    <3>3. y \in closed'[d][g]
      BY <1>1, <2>1, <2>7, <3>2
    <3>4. QED
      BY <2>7, <3>3
  <2>8. QED
    BY <2>5, <2>6, <2>7
<1>3. ASSUME NEW b \in Searches PROVE Leading(b)'
  <2>1. CASE b # d
    BY <1>1, <2>1 DEF ListsOK, Leading, Keys
  <2>2. CASE b = d
    <3>1. /\ \A k \in Keys(open[d]) : g <= k
          /\ frontier'[d].g = g
      BY DEF Popping
    <3>2. \A k \in Keys(open[d])' : k \in Keys(open[d]) /\ k # g
      BY <1>1 DEF Keys
    <3>3. QED
      BY <2>2, <3>1, <3>2 DEF Leading
  <2>3. QED
    BY <2>1, <2>2
<1>4. \A b \in Dir : Source(task, b)' \subseteq closed'[b][0]
  BY <1>1, LevelFacts DEF ListsOK
<1>5. QED
  BY <1>2, <1>3, <1>4 DEF ListsOK

\* ... and when an image is computed.
LEMMA ImagingLists ==
    ASSUME ListsOK, IsTask(task), NEW d \in Searches, Imaging(d), Placed(d),
           frontier[d].g \in Nat
    PROVE  ListsOK'
<1>1. /\ UNCHANGED <<task, closed>>
      /\ \A b \in Searches \ {d} : open'[b] = open[b] /\ frontier'[b] = frontier[b]
      /\ frontier'[d].g = frontier[d].g
      /\ frontier[d].phase # "zero" => frontier'[d].phase = "empty" /\ frontier'[d].states = {}
      /\ \A k \in Level : open[d][k] \subseteq open'[d][k]
      /\ \A k \in Level : \A y \in open'[d][k] \ open[d][k] :
            \E c \in CostsOf(frontier[d].phase) : /\ k = frontier[d].g + c
                                                  /\ y \in Image(task, d, c, frontier[d].states)
      /\ \A c \in CostsOf(frontier[d].phase) :
            /\ c \in DOMAIN task.ops /\ c \in Nat /\ frontier[d].g + c \in Level
            /\ Image(task, d, c, frontier[d].states) \subseteq open'[d][frontier[d].g + c]
  BY DEF Imaging
<1>2. ASSUME NEW b \in Searches PROVE Lossless(b)'
  <2> SUFFICES ASSUME NEW k \in Level, NEW c \in DOMAIN task'.ops, NEW s \in closed'[b][k], NEW y,
                      Useful(s)', Useful(y)', Edge(task', b, c, s, y), Expanded(b, k, s, c)',
                      k + c \in Level
               PROVE  y \in closed'[b][k + c] \cup open'[b][k + c]
    BY DEF Lossless
  <2>1. Useful(s) /\ Useful(y) /\ Edge(task, b, c, s, y) /\ c \in DOMAIN task.ops
        /\ s \in closed[b][k] /\ y \in State
    BY <1>1 DEF Useful, CostThrough
  <2>2. CASE Expanded(b, k, s, c)
    <3>1. y \in closed[b][k + c] \cup open[b][k + c]
      BY <2>1, <2>2 DEF ListsOK, Lossless
    <3>2. open[b][k + c] \subseteq open'[b][k + c]
      BY <1>1
    <3>3. QED
      BY <1>1, <3>1, <3>2
  <2>3. CASE ~Expanded(b, k, s, c)
    <3>1. /\ b = d /\ s \in frontier[d].states /\ k = frontier[d].g
          /\ c \in CostsOf(frontier[d].phase)
      BY <2>1, <2>3, ImagingExpands
    <3>2. y \in Image(task, d, c, frontier[d].states)
      BY <2>1, <3>1 DEF Image
    <3>3. QED
      BY <1>1, <3>1, <3>2
  <2>4. QED
    BY <2>2, <2>3
<1>3. ASSUME NEW b \in Searches PROVE Leading(b)'
  <2>1. CASE b # d
    BY <1>1, <2>1 DEF ListsOK, Leading, Keys
  <2>2. CASE b = d
    <3> SUFFICES ASSUME frontier'[d].phase # "empty", NEW k \in Keys(open'[d])
                 PROVE  frontier[d].g <= k /\ (frontier[d].g = k => HasZeroCost(task))
      BY <1>1, <2>2 DEF Leading, Keys
    <3>1. frontier[d].phase = "zero" /\ k \in Level
      BY <1>1 DEF Keys
    <3>2. CASE k \in Keys(open[d])
      BY <3>1, <3>2 DEF ListsOK, Leading
    <3>3. CASE k \notin Keys(open[d])
      <4>1. PICK c \in CostsOf(frontier[d].phase) : k = frontier[d].g + c
        BY <1>1, <3>1, <3>3 DEF Keys
      <4>2. c = 0 /\ c \in DOMAIN task.ops
        BY <3>1 DEF CostsOf
      <4>3. MinTransitionCost(task) <= c /\ MinTransitionCost(task) \in Nat
        BY <4>2, MinTransitionCostFacts, LevelFacts
      <4>4. HasZeroCost(task)
        BY <4>2, <4>3 DEF HasZeroCost
      <4>5. QED
        BY <4>1, <4>2, <4>4
    <3>4. QED
      BY <3>2, <3>3
  <2>3. QED
    BY <2>1, <2>2
<1>4. QED
  BY <1>1, <1>2, <1>3 DEF ListsOK

-----------------------------------------------------------------------------
(* The steps that change lists, and those that do not *)

\* Only cuts that cost less than the limit of construct_cheaper_solutions are
\* erased.
CutsStay ==
    \A c \in sym_cuts : RegisteredIn(c, sym_cuts') \/ (registry # "idle" /\ Cost(c) < limit)

\* What a step can do to the lists and to the cuts.
LEMMA TopKStepKinds ==
    ASSUME EngineInv, PlansInv, [TopKNext]_topkVars
    PROVE  \/ Resting /\ CutsStay
           \/ \E d \in Searches : Filtered(d)
           \/ \E d \in Searches : \E g, new : Popping(d, g, new) /\ ToldOf(AllCuts(d, g, open[d][g]))
           \/ \E d \in Searches : Imaging(d) /\ ToldOf(AllImageCuts(d))
<1>1. TypeOK
  BY DEF EngineInv
<1>2. sym_cuts' = sym_cuts => CutsStay
  BY DEF CutsStay, RegisteredIn
<1>3. CASE StartStep
  <2>1. PICK e \in Reported("fw", EmptyPlan) : sym_cuts' = e.cuts
    BY <1>3 DEF StartStep
  <2>2. e \in Kept(EmptyPlan)
    BY <1>1, <2>1, EmptyPlanIsGood, WhatHolds, ReportedFacts
  <2>3. CutsStay
    BY <2>1, <2>2 DEF Kept, CutsStay
  <2>4. Resting
    BY <1>3 DEF StartStep, Resting, search
  <2>5. QED
    BY <2>3, <2>4
<1>4. CASE ConstructNext
  <2>1. PICK f, cuts : /\ f = Min({Cost(sol) : sol \in Due})
                       /\ cuts = {sol \in Due : Cost(sol) = f}
    OBVIOUS
  <2>2. sym_cuts' = sym_cuts \ cuts /\ registry = "construct" /\ Resting
    BY <1>4, <2>1 DEF ConstructNext, Resting, search
  <2>3. CutsStay
    BY <2>1, <2>2 DEF CutsStay, RegisteredIn, Due
  <2>4. QED
    BY <2>2, <2>3
<1>5. CASE ReconstructPlan
  BY <1>2, <1>5 DEF ReconstructPlan, Resting, vars, engine, search
<1>6. CASE EndStep
  <2>1. sym_cuts' = sym_cuts \ Due /\ registry = "construct" /\ Resting
    BY <1>6 DEF EndStep, Resting, search
  <2>2. CutsStay
    BY <2>1 DEF CutsStay, RegisteredIn, Due
  <2>3. QED
    BY <2>1, <2>2
<1>7. CASE SearchStep
  <2>1. CASE \E d \in Searches : NoMorePlans(d)
    BY <1>2, <2>1 DEF NoMorePlans, Resting, search
  <2>2. CASE \E d \in Searches : PopBucket(d)
    BY <2>2, PopBucketIsPopping
  <2>3. CASE \E d \in Searches : ExpandFrontier(d)
    BY <2>3, ExpandFrontierIsImaging
  <2>4. CASE \E d \in Searches : Inherited(d)
    <3>1. PICK d \in Searches : Inherited(d)
      BY <2>4
    <3>2. CASE PrepareTruncated(d) \/ (Prepare(d) /\ frontier[d].phase = "filter")
      BY <1>1, <3>2, FilteredFacts
    <3>3. CASE Prepare(d) /\ frontier[d].phase # "filter"
      BY <1>2, <3>3 DEF Prepare, Resting, engine
    <3>4. CASE BucketReady(d) \/ ExpandTruncated(d) \/ Finish(d)
      BY <1>2, <3>4 DEF BucketReady, ExpandTruncated, Finish, Resting, engine, search
    <3>5. QED
      BY <3>1, <3>2, <3>3, <3>4 DEF Inherited
  <2>5. CASE Return
    BY <1>2, <2>5 DEF Return, Resting, search
  <2>6. QED
    BY <1>7, <2>1, <2>2, <2>3, <2>4, <2>5 DEF SearchStep
<1>8. CASE UNCHANGED topkVars
  BY <1>2, <1>8 DEF topkVars, allVars, vars, engine, search, Resting
<1>9. QED
  BY <1>3, <1>4, <1>5, <1>6, <1>7, <1>8 DEF TopKNext, TopKDone

\* What depends on the lists alone is kept.
LEMMA ListsNext ==
    ASSUME Searched, [TopKNext]_topkVars
    PROVE  ListsOK'
<1>1. /\ ListsOK /\ IsTask(task) /\ EngineInv /\ PlansInv
      /\ \A d \in Searches : Placed(d) /\ frontier[d].g \in Nat
  BY SearchedFacts DEF Searched, ListInv, ListsOK
<1>2. CASE Resting
  BY <1>1, <1>2, RestingLists
<1>3. CASE \E d \in Searches : Filtered(d)
  BY <1>1, <1>3, FilteringLists
<1>4. CASE \E d \in Searches : \E g, new : Popping(d, g, new)
  BY <1>1, <1>4, PoppingLists
<1>5. CASE \E d \in Searches : Imaging(d)
  BY <1>1, <1>5, ImagingLists
<1>6. QED
  BY <1>1, <1>2, <1>3, <1>4, <1>5, TopKStepKinds

\* Where the engine is fits the lists.
WellPlaced == \A d \in Searches : Placed(d)

\* The driver leaves the lists alone, and so do the steps that end a call.
LEMMA RestingPlaces ==
    ASSUME WellPlaced, UNCHANGED <<frontier, open>>,
           \/ UNCHANGED <<dir, pc>>
           \/ pc # "drain" /\ pc' \notin {"prepare", "expand"}
    PROVE  WellPlaced'
BY DEF WellPlaced, Placed, Stocked

\* A direction that is called has work to do, or looks for some.
LEMMA PlacedNext ==
    ASSUME Searched, [TopKNext]_topkVars
    PROVE  WellPlaced' /\ (registry' # "idle" => pc' \in {"init", "step"})
<1>1. /\ WellPlaced /\ (registry # "idle" => pc \in {"init", "step"}) /\ EngineInv /\ PlansInv
      /\ TypeOK
  BY DEF Searched, ListInv, WellPlaced, EngineInv
<1>2. CASE StartStep \/ ConstructNext \/ ReconstructPlan
  <2>1. UNCHANGED <<frontier, open, dir, pc>> /\ pc \in {"init", "step"}
    BY <1>1, <1>2 DEF StartStep, ConstructNext, ReconstructPlan, vars, search, control
  <2>2. QED
    BY <1>1, <2>1, RestingPlaces
<1>3. CASE EndStep
  <2>1. UNCHANGED <<frontier, open>> /\ registry # "idle" /\ pc' \in {"bucket", "step"}
        /\ registry' = "idle"
    BY <1>3 DEF EndStep, search
  <2>2. QED
    BY <1>1, <2>1, RestingPlaces
<1>4. CASE SearchStep
  <2>1. registry = "idle" /\ registry' = "idle"
    BY <1>4 DEF SearchStep, registryVars
  <2>2. CASE \E d \in Searches : NoMorePlans(d)
    BY <1>1, <2>1, <2>2, RestingPlaces DEF NoMorePlans, ReturnPoint, search
  <2>3. CASE \E d \in Searches : PopBucket(d)
    <3>1. PICK d \in Searches : PopBucket(d)
      BY <2>3
    <3>2. PICK g, new : Popping(d, g, new)
      BY <1>1, <3>1, PopBucketIsPopping
    <3>3. pc = "drain" /\ dir = d
      BY <1>1, <3>2 DEF Popping, PopReady, WellPlaced, Placed, Stocked
    <3>4. pc' = "drain" /\ dir' = d
      BY <3>1, <3>3 DEF PopBucket
    <3>5. frontier'[d].phase = "empty" => frontier'[d].states = {}
      BY <3>2 DEF Popping
    <3>6. \A b \in Searches \ {d} : open'[b] = open[b] /\ frontier'[b] = frontier[b]
      BY <3>2 DEF Popping
    <3>7. \A b \in Searches \ {d} : Placed(b)'
      BY <1>1, <3>3, <3>4, <3>6 DEF WellPlaced, Placed, Stocked
    <3>8. Placed(d)'
      BY <3>4, <3>5 DEF Placed
    <3>9. QED
      BY <2>1, <3>7, <3>8 DEF WellPlaced
  <2>4. CASE \E d \in Searches : ExpandFrontier(d)
    <3>1. PICK d \in Searches : ExpandFrontier(d)
      BY <2>4
    <3>2. Imaging(d)
      BY <1>1, <3>1, ExpandFrontierIsImaging
    <3>3. pc = "expand" /\ dir = d /\ pc' = "drain" /\ dir' = d
      BY <3>1 DEF ExpandFrontier
    <3>5. frontier'[d].phase = "empty" => frontier'[d].states = {}
      BY <3>2 DEF Imaging
    <3>6. \A b \in Searches \ {d} : open'[b] = open[b] /\ frontier'[b] = frontier[b]
      BY <3>2 DEF Imaging
    <3>7. \A b \in Searches \ {d} : Placed(b)'
      BY <1>1, <3>3, <3>6 DEF WellPlaced, Placed, Stocked
    <3>8. Placed(d)'
      BY <3>3, <3>5 DEF Placed
    <3>9. QED
      BY <2>1, <3>7, <3>8 DEF WellPlaced
  <2>5. CASE \E d \in Searches : Inherited(d)
    <3>1. PICK d \in Searches : Inherited(d)
      BY <2>5
    <3>2. CASE PrepareTruncated(d) \/ (Prepare(d) /\ frontier[d].phase = "filter")
      <4>1. Filtered(d) /\ d \in Dir
        BY <1>1, <3>2, FilteredFacts, SearchesAssumption
      <4>2. /\ \A b \in Searches \ {d} : frontier'[b] = frontier[b]
            /\ frontier[d].phase = "filter" /\ open' = open
            /\ pc = "prepare"
            /\ frontier'[d].phase \in {"filter", IF HasZeroCost(task) THEN "zero" ELSE "cost"}
        BY <4>1 DEF Filtered
      <4>3. dir' = dir /\ dir = d
            /\ (pc' \in {"return", "step"} \/ (pc' = "expand" /\ frontier'[d].phase # "filter"))
        <5>1. CASE PrepareTruncated(d)
          BY <5>1 DEF PrepareTruncated, ReturnPoint
        <5>2. CASE Prepare(d) /\ frontier[d].phase = "filter"
          BY <1>1, <5>2 DEF Prepare, TypeOK, Frontier
        <5>3. QED
          BY <3>2, <5>1, <5>2
      <4>4. \A b \in Searches : Stocked(b)
        BY <1>1, <4>2 DEF WellPlaced, Placed
      <4>5. \A b \in Searches \ {d} : Placed(b)'
        BY <1>1, <4>2, <4>3, <4>4 DEF WellPlaced, Placed, Stocked
      <4>6. Placed(d)'
        BY <4>2, <4>3 DEF Placed, Stocked
      <4>7. QED
        BY <2>1, <4>5, <4>6 DEF WellPlaced
    <3>3. CASE Prepare(d) /\ frontier[d].phase # "filter"
      <4>1. UNCHANGED <<frontier, open, dir>> /\ pc' = "expand" /\ pc = "prepare" /\ dir = d
        BY <3>3 DEF Prepare
      <4>2. frontier[d].phase \in {"zero", "cost"}
        BY <1>1, <3>3, <4>1 DEF WellPlaced, Placed, TypeOK, Frontier, Phases
      <4>3. QED
        BY <1>1, <2>1, <4>1, <4>2 DEF WellPlaced, Placed, Stocked
    <3>4. CASE BucketReady(d) \/ ExpandTruncated(d)
      <4>1. /\ UNCHANGED <<frontier, open, dir>> /\ pc \in {"bucket", "expand"} /\ dir = d
            /\ pc' = "prepare" => frontier[d].phase # "empty"
            /\ pc' \in {"return", "step", "prepare", "drain"}
        BY <3>4 DEF BucketReady, ExpandTruncated, search, ReturnPoint
      <4>2. QED
        BY <1>1, <2>1, <4>1 DEF WellPlaced, Placed, Stocked
    <3>5. CASE Finish(d)
      <4>1. /\ UNCHANGED <<frontier, open, dir>> /\ dir = d /\ Stocked(d)
            /\ pc' \in {"return", "step"}
        BY <3>5 DEF Finish, search, ReturnPoint, Stocked
      <4>2. QED
        BY <1>1, <2>1, <4>1 DEF WellPlaced, Placed, Stocked
    <3>6. QED
      BY <3>1, <3>2, <3>3, <3>4, <3>5 DEF Inherited
  <2>6. CASE Return
    BY <1>1, <2>1, <2>6, RestingPlaces DEF Return, search
  <2>7. QED
    BY <1>4, <2>2, <2>3, <2>4, <2>5, <2>6 DEF SearchStep
<1>5. CASE UNCHANGED topkVars
  BY <1>1, <1>5, RestingPlaces DEF topkVars, allVars, vars, search, control, registryVars
<1>6. QED
  BY <1>2, <1>3, <1>4, <1>5 DEF TopKNext, TopKDone

\* ListInv is inductive.
LEMMA ListInvNext ==
    ASSUME Searched, [TopKNext]_topkVars
    PROVE  ListInv'
BY ListsNext, PlacedNext DEF ListInv, ListsOK, WellPlaced

-----------------------------------------------------------------------------
(* Where the directions meet, there is a cut *)

\* Only cuts of costs below m are erased.
CutsSettle(m) == \A c \in sym_cuts : RegisteredIn(c, sym_cuts') \/ Cost(c) < m

\* A cut stands for the two levels, whichever of them is named first.
LEMMA CutTurned ==
    ASSUME NEW d \in Dir, NEW m, NEW g \in Nat, NEW k \in Nat, NEW x
    PROVE  /\ Cut(d, m, g, k, x) <=> Cut(Opposite(d), m, k, g, x)
           /\ Cut(d, m, g, k, x)' <=> Cut(Opposite(d), m, k, g, x)'
<1>1. g + k = k + g
  OBVIOUS
<1>2. d = "fw" <=> ~(Opposite(d) = "fw")
  BY DEF Dir, Opposite
<1>3. QED
  BY <1>1, <1>2 DEF Cut

\* What has been cut remains cut.
LEMMA CutStays ==
    ASSUME NEW d \in Dir, NEW m, NEW g \in Nat, NEW k \in Nat, NEW x,
           CutsSettle(m), Cut(d, m, g, k, x)
    PROVE  Cut(d, m, g, k, x)'
<1>1. g + k = k + g
  OBVIOUS
<1>2. CASE g + k < m
  BY <1>2 DEF Cut
<1>3. CASE \E sol \in sym_cuts : /\ sol.g = (IF d = "fw" THEN g ELSE k)
                                 /\ sol.h = (IF d = "fw" THEN k ELSE g)
                                 /\ x \in sol.cut
  <2>1. PICK sol \in sym_cuts : /\ sol.g = (IF d = "fw" THEN g ELSE k)
                                /\ sol.h = (IF d = "fw" THEN k ELSE g)
                                /\ x \in sol.cut
    BY <1>3
  <2>2. CASE Cost(sol) < m
    BY <1>1, <2>1, <2>2 DEF Cost, Cut
  <2>3. CASE RegisteredIn(sol, sym_cuts')
    BY <2>1, <2>3 DEF RegisteredIn, Cut
  <2>4. QED
    BY <2>2, <2>3 DEF CutsSettle
<1>4. QED
  BY <1>2, <1>3 DEF Cut

\* States that are reported are cut with all levels of the other direction.
LEMMA ReportedIsCut ==
    ASSUME NEW d \in Dir, NEW m \in Nat, NEW g \in Level, NEW k \in Level, NEW states, NEW x \in states,
           x \in closed[Opposite(d)][k], min_g \in Nat, min_g <= m,
           \A sol \in AllCuts(d, g, states) : RegisteredIn(sol, sym_cuts')
    PROVE  Cut(d, m, g, k, x)'
<1>1. g \in Nat /\ k \in Nat
  BY LevelFacts
<1>2. PICK sol : sol = [g |-> IF d = "fw" THEN g ELSE k, h |-> IF d = "fw" THEN k ELSE g,
                        cut |-> states \cap closed[Opposite(d)][k]]
  OBVIOUS
<1>3. /\ sol.g = (IF d = "fw" THEN g ELSE k) /\ sol.h = (IF d = "fw" THEN k ELSE g)
      /\ sol.cut = states \cap closed[Opposite(d)][k] /\ x \in sol.cut
  BY <1>2
<1>4. CASE g + k < m
  BY <1>4 DEF Cut
<1>5. CASE ~(g + k < m)
  <2>1. Cost(sol) >= min_g
    BY <1>1, <1>3, <1>5 DEF Cost
  <2>2. sol \in AllCuts(d, g, states)
    BY <1>2, <1>3, <2>1 DEF AllCuts
  <2>3. QED
    BY <1>3, <2>2 DEF RegisteredIn, Cut
<1>6. QED
  BY <1>4, <1>5

\* It is so when nothing is listed,
LEMMA RestingCuts ==
    ASSUME IsTask(task), Resting, NEW m, CutsSettle(m), CutsInv(m)
    PROVE  CutsInv(m)'
<1>1. \A d \in Dir : Opposite(d) \in Dir
  BY DEF Dir, Opposite
<1>2. Searches \subseteq Dir /\ (\A c \in DOMAIN task.ops : c \in Nat) /\ Level \subseteq Nat
  BY SearchesAssumption, MinTransitionCostFacts, LevelFacts
<1>3. MetIn(m)'
  BY <1>1, <1>2, CutStays DEF Resting, CutsInv, MetIn
<1>4. MetAtSource(m)'
  <2> SUFFICES ASSUME NEW d \in Searches, NEW g \in Level,
                      NEW y \in open[d][g] \cap Source(task, Opposite(d))
               PROVE  Cut(d, m, g, 0, y)'
    BY DEF Resting, MetAtSource
  <2>1. Cut(d, m, g, 0, y)
    BY DEF CutsInv, MetAtSource
  <2>2. QED
    BY <1>2, <2>1, CutStays, LevelFacts
<1>5. MetBetween(m)'
  <2> SUFFICES ASSUME NEW d \in Searches, Opposite(d) \in Searches, NEW g \in Level, NEW k \in Level,
                      NEW c \in DOMAIN task.ops, NEW x \in closed[d][g],
                      NEW y \in closed[Opposite(d)][k], Useful(x), Useful(y),
                      Edge(task, d, c, x, y), Expanded(d, g, x, c), Expanded(Opposite(d), k, y, c)
               PROVE  Cut(d, m, g + c, k, y)' \/ Cut(d, m, g, k + c, x)'
    BY DEF Resting, MetBetween, Useful, Expanded
  <2>1. Cut(d, m, g + c, k, y) \/ Cut(d, m, g, k + c, x)
    BY DEF CutsInv, MetBetween
  <2>2. g + c \in Nat /\ k + c \in Nat /\ g \in Nat /\ k \in Nat
    BY <1>2
  <2>3. QED
    BY <1>2, <2>1, <2>2, CutStays
<1>6. QED
  BY <1>3, <1>4, <1>5 DEF CutsInv

\* ... when the frontier is filtered,
LEMMA FilteringCuts ==
    ASSUME IsTask(task), NEW d \in Searches, Filtered(d), NEW m, CutsInv(m)
    PROVE  CutsInv(m)'
<1>1. UNCHANGED <<task, open, closed, sym_cuts>>
  BY DEF Filtered
<1>2. MetIn(m)' /\ MetAtSource(m)'
  BY <1>1 DEF CutsInv, MetIn, MetAtSource, Cut
<1>3. MetBetween(m)'
  <2> SUFFICES ASSUME NEW b \in Searches, Opposite(b) \in Searches,
                      NEW g \in Level, NEW k \in Level,
                      NEW c \in DOMAIN task.ops, NEW x \in closed[b][g],
                      NEW y \in closed[Opposite(b)][k], Useful(x), Useful(y),
                      Edge(task, b, c, x, y), Expanded(b, g, x, c)',
                      Expanded(Opposite(b), k, y, c)'
               PROVE  Cut(b, m, g + c, k, y)' \/ Cut(b, m, g, k + c, x)'
    BY <1>1 DEF MetBetween, Useful
  <2>1. Expanded(b, g, x, c) /\ Expanded(Opposite(b), k, y, c)
    BY FilteringExpands
  <2>2. Cut(b, m, g + c, k, y) \/ Cut(b, m, g, k + c, x)
    BY <2>1 DEF CutsInv, MetBetween
  <2>3. QED
    BY <1>1, <2>2 DEF Cut
<1>4. QED
  BY <1>2, <1>3 DEF CutsInv

\* What has been reported unless the search is told to end.
LEMMA ToldIsRegistered ==
    ASSUME NEW sols, ToldOf(sols), lower_bound' # INT_MAX \/ ~Deaf, NEW m
    PROVE  CutsSettle(m) /\ \A sol \in sols : RegisteredIn(sol, sym_cuts')
BY DEF ToldOf, CutsSettle

\* ... when a bucket is popped,
LEMMA PoppingCuts ==
    ASSUME IsTask(task), NEW d \in Searches, NEW g, NEW new, Popping(d, g, new),
           ToldOf(AllCuts(d, g, open[d][g])), lower_bound' # INT_MAX \/ ~Deaf,
           min_g \in Nat, NEW m \in Nat, min_g <= m, CutsInv(m)
    PROVE  CutsInv(m)'
<1>1. /\ CutsSettle(m)
      /\ \A sol \in AllCuts(d, g, open[d][g]) : RegisteredIn(sol, sym_cuts')
  BY ToldIsRegistered
<1>2. Searches \subseteq Dir /\ (\A c \in DOMAIN task.ops : c \in Nat) /\ Level \subseteq Nat
  BY SearchesAssumption, MinTransitionCostFacts, LevelFacts
<1>3. d \in Dir /\ \A b \in Dir : Opposite(b) \in Dir /\ Opposite(Opposite(b)) = b /\ Opposite(b) # b
  BY <1>2, OppositeFacts
<1>4. /\ task' = task /\ g \in Level /\ new \subseteq open[d][g]
      /\ \A b \in Searches \ {d} : open'[b] = open[b]
      /\ \A k \in Level : open'[d][k] = IF k = g THEN {} ELSE open[d][k]
      /\ \A b \in Dir : \A k \in Level : \A s :
            s \in closed'[b][k] <=> s \in closed[b][k] \/ (b = d /\ k = g /\ s \in new)
  BY DEF Popping
<1>5. ASSUME NEW k \in Level, NEW x \in new, x \in closed[Opposite(d)][k]
      PROVE  Cut(d, m, g, k, x)'
  BY <1>1, <1>3, <1>4, <1>5, ReportedIsCut
<1>6. MetIn(m)'
  <2> SUFFICES ASSUME NEW b \in Dir, NEW i \in Level, NEW k \in Level,
                      NEW x \in closed'[b][i] \cap closed'[Opposite(b)][k]
               PROVE  Cut(b, m, i, k, x)'
    BY DEF MetIn
  <2>0. i \in Nat /\ k \in Nat /\ Opposite(b) \in Dir
    BY <1>2, <1>3
  <2>1. CASE x \in closed[b][i] /\ x \in closed[Opposite(b)][k]
    <3>1. Cut(b, m, i, k, x)
      BY <2>1 DEF CutsInv, MetIn
    <3>2. QED
      BY <1>1, <2>0, <3>1, CutStays
  <2>2. CASE b = d /\ i = g /\ x \in new
    <3>1. x \in closed[Opposite(d)][k]
      BY <1>3, <1>4, <2>2
    <3>2. QED
      BY <1>5, <2>2, <3>1
  <2>3. CASE Opposite(b) = d /\ k = g /\ x \in new
    <3>1. x \in closed[Opposite(d)][i] /\ b = Opposite(d)
      BY <1>3, <1>4, <2>3
    <3>2. Cut(d, m, g, i, x)'
      BY <1>5, <2>3, <3>1
    <3>3. QED
      BY <1>3, <2>0, <2>3, <3>1, <3>2, CutTurned
  <2>4. QED
    BY <1>4, <2>0, <2>1, <2>2, <2>3
<1>7. MetAtSource(m)'
  <2> SUFFICES ASSUME NEW b \in Searches, NEW k \in Level,
                      NEW y \in open'[b][k] \cap Source(task, Opposite(b))
               PROVE  Cut(b, m, k, 0, y)'
    BY <1>4 DEF MetAtSource
  <2>1. y \in open[b][k]
    BY <1>4
  <2>2. Cut(b, m, k, 0, y)
    BY <2>1 DEF CutsInv, MetAtSource
  <2>3. QED
    BY <1>1, <1>2, <2>2, CutStays
<1>8. MetBetween(m)'
  <2> SUFFICES ASSUME NEW b \in Searches, Opposite(b) \in Searches,
                      NEW i \in Level, NEW k \in Level,
                      NEW c \in DOMAIN task.ops, NEW x \in closed'[b][i],
                      NEW y \in closed'[Opposite(b)][k], Useful(x), Useful(y),
                      Edge(task, b, c, x, y), Expanded(b, i, x, c)',
                      Expanded(Opposite(b), k, y, c)'
               PROVE  Cut(b, m, i + c, k, y)' \/ Cut(b, m, i, k + c, x)'
    BY <1>4 DEF MetBetween, Useful
  <2>1. x \in closed[b][i] /\ Expanded(b, i, x, c)
    BY PoppingExpands
  <2>2. y \in closed[Opposite(b)][k] /\ Expanded(Opposite(b), k, y, c)
    BY PoppingExpands
  <2>3. Cut(b, m, i + c, k, y) \/ Cut(b, m, i, k + c, x)
    BY <2>1, <2>2 DEF CutsInv, MetBetween
  <2>4. i + c \in Nat /\ k + c \in Nat /\ i \in Nat /\ k \in Nat
    BY <1>2
  <2>5. QED
    BY <1>1, <1>2, <2>3, <2>4, CutStays
<1>9. QED
  BY <1>6, <1>7, <1>8 DEF CutsInv

\* ... and when an image is computed.
LEMMA ImagingCuts ==
    ASSUME IsTask(task), NEW d \in Searches, Imaging(d), Placed(d), frontier[d].g \in Nat,
           \A b \in Dir : Source(task, b) \subseteq closed[b][0],
           ToldOf(AllImageCuts(d)), lower_bound' # INT_MAX \/ ~Deaf,
           min_g \in Nat, NEW m \in Nat, min_g <= m, CutsInv(m)
    PROVE  CutsInv(m)'
<1>1. CutsSettle(m) /\ \A sol \in AllImageCuts(d) : RegisteredIn(sol, sym_cuts')
  BY ToldIsRegistered
<1>2. Searches \subseteq Dir /\ (\A c \in DOMAIN task.ops : c \in Nat) /\ Level \subseteq Nat
  BY SearchesAssumption, MinTransitionCostFacts, LevelFacts
<1>3. d \in Dir /\ \A b \in Dir : Opposite(b) \in Dir /\ Opposite(Opposite(b)) = b /\ Opposite(b) # b
  BY <1>2, OppositeFacts
<1>4. /\ UNCHANGED <<task, closed>>
      /\ \A b \in Searches \ {d} : open'[b] = open[b]
      /\ \A k \in Level : \A y \in open'[d][k] \ open[d][k] :
            \E c \in CostsOf(frontier[d].phase) : /\ k = frontier[d].g + c
                                                  /\ y \in Image(task, d, c, frontier[d].states)
      /\ \A c \in CostsOf(frontier[d].phase) : frontier[d].g + c \in Level
  BY DEF Imaging
<1>5. ASSUME NEW c \in CostsOf(frontier[d].phase), NEW y \in Image(task, d, c, frontier[d].states),
             NEW j, j = frontier[d].g + c, NEW k \in Level, y \in closed[Opposite(d)][k]
      PROVE  Cut(d, m, j, k, y)'
  <2>1. PICK states : states = Image(task, d, c, frontier[d].states)
    OBVIOUS
  <2>2. \A sol \in AllCuts(d, j, states) : RegisteredIn(sol, sym_cuts')
    BY <1>1, <1>5, <2>1 DEF AllImageCuts
  <2>3. QED
    BY <1>3, <1>4, <1>5, <2>1, <2>2, ReportedIsCut
<1>6. MetIn(m)'
  <2> SUFFICES ASSUME NEW b \in Dir, NEW i \in Level, NEW k \in Level,
                      NEW x \in closed[b][i] \cap closed[Opposite(b)][k]
               PROVE  Cut(b, m, i, k, x)'
    BY <1>4 DEF MetIn
  <2>1. Cut(b, m, i, k, x) /\ i \in Nat /\ k \in Nat
    BY <1>2 DEF CutsInv, MetIn
  <2>2. QED
    BY <1>1, <2>1, CutStays
<1>7. MetAtSource(m)'
  <2> SUFFICES ASSUME NEW b \in Searches, NEW k \in Level,
                      NEW y \in open'[b][k] \cap Source(task, Opposite(b))
               PROVE  Cut(b, m, k, 0, y)'
    BY <1>4 DEF MetAtSource
  <2>1. CASE y \in open[b][k]
    <3>1. Cut(b, m, k, 0, y)
      BY <2>1 DEF CutsInv, MetAtSource
    <3>2. QED
      BY <1>1, <1>2, <3>1, CutStays
  <2>2. CASE y \notin open[b][k]
    <3>1. b = d
      BY <1>4, <2>2
    <3>2. PICK c \in CostsOf(frontier[d].phase) : /\ k = frontier[d].g + c
                                                  /\ y \in Image(task, d, c, frontier[d].states)
      BY <1>4, <2>2, <3>1
    <3>3. y \in closed[Opposite(d)][0] /\ 0 \in Level
      BY <1>3, <3>1, LevelFacts
    <3>4. QED
      BY <1>5, <3>1, <3>2, <3>3
  <2>3. QED
    BY <2>1, <2>2
<1>8. MetBetween(m)'
  <2> SUFFICES ASSUME NEW b \in Searches, Opposite(b) \in Searches,
                      NEW i \in Level, NEW k \in Level,
                      NEW c \in DOMAIN task.ops, NEW x \in closed[b][i],
                      NEW y \in closed[Opposite(b)][k], Useful(x), Useful(y),
                      Edge(task, b, c, x, y), Expanded(b, i, x, c)',
                      Expanded(Opposite(b), k, y, c)'
               PROVE  Cut(b, m, i + c, k, y)' \/ Cut(b, m, i, k + c, x)'
    BY <1>4 DEF MetBetween, Useful
  <2>0. /\ i + c \in Nat /\ k + c \in Nat /\ i \in Nat /\ k \in Nat
        /\ b \in Dir /\ Opposite(b) \in Dir /\ Opposite(Opposite(b)) = b
        /\ x \in State /\ y \in State
    BY <1>2, <1>3 DEF Useful
  <2>1. CASE Expanded(b, i, x, c) /\ Expanded(Opposite(b), k, y, c)
    <3>1. Cut(b, m, i + c, k, y) \/ Cut(b, m, i, k + c, x)
      BY <2>1 DEF CutsInv, MetBetween
    <3>2. QED
      BY <1>1, <2>0, <3>1, CutStays
  <2>2. CASE ~Expanded(b, i, x, c)
    <3>1. /\ b = d /\ x \in frontier[d].states /\ i = frontier[d].g
          /\ c \in CostsOf(frontier[d].phase)
      BY <2>2, ImagingExpands
    <3>2. y \in Image(task, d, c, frontier[d].states)
      BY <2>0, <3>1 DEF Image
    <3>3. PICK j : j = i + c
      OBVIOUS
    <3>4. Cut(d, m, j, k, y)'
      BY <1>5, <3>1, <3>2, <3>3
    <3>5. QED
      BY <3>1, <3>3, <3>4, Zenon
  <2>3. CASE ~Expanded(Opposite(b), k, y, c)
    <3>1. /\ Opposite(b) = d /\ y \in frontier[d].states /\ k = frontier[d].g
          /\ c \in CostsOf(frontier[d].phase)
      BY <2>3, ImagingExpands
    <3>2. Edge(task, d, c, y, x) /\ b = Opposite(d)
      BY <2>0, <3>1, OppositeFacts
    <3>3. x \in Image(task, d, c, frontier[d].states)
      BY <2>0, <3>1, <3>2 DEF Image
    <3>4. PICK j : j = k + c
      OBVIOUS
    <3>5. Cut(d, m, j, i, x)'
      BY <1>5, <3>1, <3>2, <3>3, <3>4
    <3>6. Cut(b, m, i, j, x)'
      BY <1>3, <2>0, <3>2, <3>4, <3>5, CutTurned
    <3>7. QED
      BY <3>4, <3>6, Zenon
  <2>4. QED
    BY <2>1, <2>2, <2>3
<1>9. QED
  BY <1>6, <1>7, <1>8 DEF CutsInv

-----------------------------------------------------------------------------
(* The engine goes on *)

\* All cuts that cost less have been registered and their plans constructed.
Passed == GreaterOf(min_g, lower_bound)

\* The engine has begun, its bounds have not met, and it has not plans enough.
GoingOn ==
    /\ pc # "init" \/ registry # "idle"
    /\ lower_bound < upper_bound
    /\ ~FoundEnoughPlans(plan)

\* Before the first step.
Fresh ==
    pc = "init" /\ registry = "idle" =>
        /\ sym_cuts = {} /\ min_g = 0 /\ lower_bound = MinTransitionCost(task)
        /\ lower_bound_increased
        /\ \A d \in Searches : open[d] = NoStates
        /\ \A d \in Searches : frontier[d] = [g |-> 0, phase |-> "filter",
                                              states |-> Source(task, d)]
        /\ closed = [d \in Dir |-> [NoStates EXCEPT ![0] = Source(task, d)]]

\* The cost that iterative_cost compares with is the largest one.
Costs(plans) == {PlanCost(p) : p \in plans} \cup {task.plan_cost_bound}
Largest(x, S) == x \in S /\ \A y \in S : y <= x
MostExpensiveIsLargest == Largest(MostExpensive(plan), Costs(plan))

\* What the driver does at which time.
ModeInv ==
    /\ Fresh
    /\ pc = "bucket" => ~lower_bound_increased /\ lower_bound < upper_bound /\ ~FoundEnoughPlans(plan)
    /\ registry # "idle" => ~lower_bound_increased
    /\ registry # "idle" /\ GoingOn => limit <= lower_bound
    /\ IsFiniteSet(plan)
    /\ MostExpensiveIsLargest

\* The driver begins a step.
LEMMA StartStepFacts ==
    ASSUME EngineInv, PlansInv, StartStep
    PROVE  /\ lower_bound' = lower_bound \/ (Over /\ lower_bound' = INT_MAX)
           /\ upper_bound' <= upper_bound /\ lower_bound' \in Nat /\ upper_bound' \in Nat
           /\ ToldOf(EmptyPlan)
           /\ limit' = IF lower_bound' >= upper_bound' THEN Remaining(upper_bound')
                       ELSE IF lower_bound_increased THEN lower_bound' ELSE 0
           /\ UNCHANGED <<task, min_g, frontier, open, closed, queue, plan, rejected, pc>>
           /\ lower_bound_increased' = FALSE
           /\ registry = "idle" /\ registry' = "construct"
<1>1. PICK e \in Reported("fw", EmptyPlan) :
          /\ sym_cuts' = e.cuts
          /\ lower_bound' = e.lower
          /\ upper_bound' = e.upper
          /\ limit' = IF e.lower >= e.upper THEN Remaining(e.upper)
                      ELSE IF lower_bound_increased THEN Settled(e.lower) ELSE 0
  BY DEF StartStep
<1>2. GoodCuts(EmptyPlan)
  BY EmptyPlanIsGood DEF EngineInv
<1>3. e \in Kept(EmptyPlan) /\ \A sol \in EmptyPlan : Noticed(sol, e)
  BY <1>2, WhatHolds, ReportedFacts
<1>4. e.lower \in Nat /\ e.upper \in Nat
  BY <1>2, ReportType
<1>5. ToldOf(EmptyPlan)
  BY <1>1, <1>3 DEF ToldOf, Kept, Noticed, Deaf
<1>6. QED
  BY <1>1, <1>3, <1>4, <1>5 DEF Kept, StartStep, Settled, search, control

\* A direction closes a bucket: what that does to the bounds.
LEMMA PopBounds ==
    ASSUME EngineInv, PlansInv, NEW d \in Searches, PopBucket(d)
    PROVE  /\ \/ lower_bound' = GreaterOf(lower_bound, GetF(frontier'[d], open'[d]))
              \/ Over /\ lower_bound' = INT_MAX
           /\ min_g' = GreaterOf(min_g, GetG(frontier'[d], open'[d]))
           /\ upper_bound' <= upper_bound /\ lower_bound' \in Nat /\ upper_bound' \in Nat
           /\ lower_bound <= lower_bound'
           /\ GetF(frontier'[d], open'[d]) \in Int /\ GetF(frontier'[d], open'[d]) <= INT_MAX
           /\ GetG(frontier'[d], open'[d]) \in Level
           /\ ~lower_bound_increased' =>
                  ~lower_bound_increased /\ (lower_bound' = lower_bound \/ lower_bound' = INT_MAX)
<1>1. PopReady(d)
  BY PopBucketFacts
<1>2. PICK e, new : PoppedTo(d, e, new)
  BY PopBucketFacts
<1>3. PICK x, y : x = GetF(frontier'[d], open'[d]) /\ y = GetG(frontier'[d], open'[d])
  OBVIOUS
<1>4. lower_bound' = GreaterOf(e.lower, x) /\ upper_bound' = e.upper
  BY <1>1, <1>2, <1>3, PoppedFacts
<1>5. x \in Int /\ x <= INT_MAX /\ y \in Level
  BY <1>1, <1>2, <1>3, PoppedFacts
<1>6. min_g' = GreaterOf(min_g, y)
  BY <1>1, <1>2, <1>3, PoppedFacts
<1>7. PICK g, sols : g = MinG(open[d]) /\ sols = AllCuts(d, g, open[d][g])
  OBVIOUS
<1>8. GoodCuts(sols) /\ e \in Reported(d, sols)
  <2>1. GoodCuts(AllCuts(d, MinG(open[d]), open[d][MinG(open[d])]))
    BY <1>1, <1>2, PoppedFacts
  <2>2. e \in Reported(d, AllCuts(d, MinG(open[d]), open[d][MinG(open[d])]))
    BY <1>2 DEF PoppedTo
  <2>3. QED
    BY <1>7, <2>1, <2>2, Zenon
<1>9. /\ e.lower = lower_bound \/ (Over /\ e.lower = INT_MAX)
      /\ e.upper <= upper_bound /\ e.lower \in Nat /\ e.upper \in Nat
      /\ lower_bound \in Nat /\ lower_bound <= INT_MAX /\ INT_MAX \in Nat
  BY <1>8, WhatHolds, OptionFacts, ReportedFacts, ReportType DEF Kept
<1>10. lower_bound' = GreaterOf(lower_bound, x) \/ (Over /\ lower_bound' = INT_MAX)
  BY <1>4, <1>5, <1>9 DEF GreaterOf
<1>11. lower_bound' \in Nat /\ lower_bound <= lower_bound'
  BY <1>4, <1>5, <1>9 DEF GreaterOf
<1>12. ~lower_bound_increased' =>
           ~lower_bound_increased /\ (lower_bound' = lower_bound \/ lower_bound' = INT_MAX)
  <2>1. lower_bound_increased' = (lower_bound_increased \/ x > e.lower)
    <3>1. PICK fr, rest : /\ rest = [open[d] EXCEPT ![MinG(open[d])] = {}]
                          /\ fr = [g |-> MinG(open[d]), states |-> new,
                                   phase |-> IF new = {} THEN "empty" ELSE "filter"]
      OBVIOUS
    <3>2. /\ lower_bound_increased' = (lower_bound_increased \/ GetF(fr, rest) > e.lower)
          /\ frontier' = [frontier EXCEPT ![d] = fr] /\ open' = [open EXCEPT ![d] = rest]
      BY <1>2, <3>1 DEF PoppedTo
    <3>3. frontier'[d] = fr /\ open'[d] = rest
      BY <3>2 DEF EngineInv, TypeOK
    <3>4. QED
      BY <1>3, <3>2, <3>3
  <2>2. ~(x > e.lower) => lower_bound' = e.lower
    BY <1>4, <1>5, <1>9 DEF GreaterOf
  <2>3. QED
    BY <1>9, <2>1, <2>2
<1>13. QED
  BY <1>3, <1>4, <1>5, <1>6, <1>9, <1>10, <1>11, <1>12

\* The bounds only move towards each other, and what has been found is kept.
Onward ==
    /\ lower_bound <= lower_bound' /\ min_g <= min_g' /\ upper_bound' <= upper_bound
    /\ plan \subseteq plan' /\ rejected \subseteq rejected'
    /\ pc' = "init" /\ registry' = "idle" => pc = "init" /\ registry = "idle"

\* A call of setLowerBound does not lower it.
LEMMA SetLowerBoundRises ==
    ASSUME EngineInv, NEW x \in Int, SetLowerBound(x)
    PROVE  /\ lower_bound <= lower_bound'
           /\ lower_bound' = lower_bound \/ (lower_bound' = x /\ lower_bound_increased')
           /\ ~lower_bound_increased' => ~lower_bound_increased /\ lower_bound' = lower_bound
<1>1. lower_bound \in Nat /\ lower_bound_increased \in BOOLEAN
  BY LevelFacts DEF EngineInv, TypeOK, EngineTypeOK
<1>2. /\ lower_bound' = GreaterOf(lower_bound, x)
      /\ lower_bound_increased' = (lower_bound_increased \/ x > lower_bound)
  BY DEF SetLowerBound
<1>3. CASE x > lower_bound
  <2>1. lower_bound_increased'
    BY <1>2, <1>3, Zenon
  <2>2. lower_bound' = x /\ lower_bound <= x
    BY <1>1, <1>2, <1>3 DEF GreaterOf
  <2>3. QED
    BY <2>1, <2>2
<1>4. CASE ~(x > lower_bound)
  <2>1. lower_bound_increased' <=> lower_bound_increased
    BY <1>2, <1>4, Zenon
  <2>2. lower_bound' = lower_bound /\ lower_bound <= lower_bound
    BY <1>1, <1>2, <1>4 DEF GreaterOf
  <2>3. QED
    BY <2>1, <2>2
<1>5. QED
  BY <1>3, <1>4

\* The end of a call raises the lower bound, if anything.
LEMMA FinishBounds ==
    ASSUME EngineInv, NEW d \in Searches, Finish(d)
    PROVE  /\ Plus(GetG(frontier[d], open[d]), MinTransitionCost(task)) \in Int
           /\ SetLowerBound(Plus(GetG(frontier[d], open[d]), MinTransitionCost(task)))
           /\ UNCHANGED <<task, frontier, open, closed, upper_bound, min_g, sym_cuts>>
<1>1. TypeOK /\ IsTask(task) /\ frontier[d] \in Frontier /\ open[d] \in Levels
  BY DEF EngineInv, TypeOK, EngineTypeOK
<1>2. GetG(frontier[d], open[d]) \in Level /\ MinTransitionCost(task) \in Level
  BY <1>1, GetFFacts, MinTransitionCostFacts
<1>3. QED
  BY <1>2, PlusFacts DEF Finish, search

\* ... and so does the end of a call of both directions.
LEMMA ReturnBounds ==
    ASSUME EngineInv, Return
    PROVE  /\ BidirectionalF \in Int /\ SetLowerBound(BidirectionalF)
           /\ Plus(GetG(frontier["fw"], open["fw"]), GetG(frontier["bw"], open["bw"])) \in Int
           /\ SetMinG(Plus(GetG(frontier["fw"], open["fw"]), GetG(frontier["bw"], open["bw"])))
           /\ UNCHANGED <<task, frontier, open, closed, upper_bound, sym_cuts>>
<1>1. TypeOK /\ Bidirectional
  BY DEF EngineInv, Return
<1>2. QED
  BY <1>1, BidirectionalFFacts DEF Return, search

\* Every step goes on.
LEMMA EveryStepIsOnward ==
    ASSUME EngineInv, PlansInv, [TopKNext]_topkVars
    PROVE  Onward
<1>1. /\ lower_bound \in Nat /\ upper_bound \in Nat /\ min_g \in Nat
      /\ INT_MAX \in Nat /\ lower_bound <= INT_MAX
  BY LevelFacts DEF EngineInv, TypeOK, EngineTypeOK
<1>2. CASE StartStep
  BY <1>1, <1>2, StartStepFacts DEF Onward
<1>3. CASE ConstructNext
  BY <1>1, <1>3 DEF ConstructNext, control, Onward
<1>4. CASE ReconstructPlan
  <2>1. UNCHANGED <<lower_bound, min_g, upper_bound, pc>> /\ registry' # "idle"
    BY <1>4 DEF ReconstructPlan, vars, engine, control
  <2>2. plan \subseteq plan' /\ rejected \subseteq rejected'
    BY <1>4 DEF ReconstructPlan, AddPlan
  <2>3. QED
    BY <1>1, <2>1, <2>2 DEF Onward
<1>5. CASE EndStep
  BY <1>1, <1>5 DEF EndStep, Onward
<1>6. CASE SearchStep
  <2>1. UNCHANGED <<registry, plan, rejected>> /\ registry = "idle"
    BY <1>6 DEF SearchStep, registryVars
  <2>2. CASE \E d \in Searches : NoMorePlans(d)
    BY <1>1, <2>1, <2>2, SetLowerBoundRises DEF NoMorePlans, ReturnPoint, Onward
  <2>3. CASE \E d \in Searches : PopBucket(d)
    <3>1. PICK d \in Searches : PopBucket(d)
      BY <2>3
    <3>2. pc' # "init"
      BY <3>1 DEF PopBucket, ReturnPoint
    <3>3. PICK y : y = GetG(frontier'[d], open'[d])
      OBVIOUS
    <3>4. min_g <= min_g'
      <4>1. min_g' = GreaterOf(min_g, y) /\ y \in Nat
        BY <3>1, <3>3, PopBounds, LevelFacts
      <4>2. QED
        BY <1>1, <4>1 DEF GreaterOf
    <3>5. lower_bound <= lower_bound' /\ upper_bound' <= upper_bound
      BY <3>1, PopBounds
    <3>6. QED
      BY <2>1, <3>2, <3>4, <3>5 DEF Onward
  <2>4. CASE \E d \in Searches : ExpandFrontier(d)
    <3>1. PICK d \in Searches : ExpandFrontier(d)
      BY <2>4
    <3>2. PICK e \in Reported(d, AllImageCuts(d)) :
              /\ sym_cuts' = e.cuts /\ lower_bound' = e.lower /\ upper_bound' = e.upper
              /\ GoodCuts(AllImageCuts(d))
      BY <3>1, ExpandedTo
    <3>3. e \in Kept(AllImageCuts(d))
      BY <3>2, WhatHolds, ReportedFacts
    <3>4. min_g' = min_g /\ pc' # "init"
      BY <3>1 DEF ExpandFrontier
    <3>5. QED
      BY <1>1, <2>1, <3>2, <3>3, <3>4 DEF Onward, Kept
  <2>5. CASE \E d \in Searches : Inherited(d)
    <3>1. PICK d \in Searches : Inherited(d)
      BY <2>5
    <3>2. CASE BucketReady(d) \/ Prepare(d) \/ PrepareTruncated(d) \/ ExpandTruncated(d)
      BY <1>1, <2>1, <3>2 DEF BucketReady, Prepare, PrepareTruncated, ExpandTruncated, engine,
         ReturnPoint, Onward
    <3>3. CASE Finish(d)
      <4>1. pc' # "init"
        BY <3>3 DEF Finish, ReturnPoint
      <4>2. QED
        BY <1>1, <2>1, <3>3, <4>1, FinishBounds, SetLowerBoundRises DEF Onward
    <3>4. QED
      BY <3>1, <3>2, <3>3 DEF Inherited
  <2>6. CASE Return
    <3>1. pc' # "init"
      BY <2>6 DEF Return
    <3>2. PICK y : y = Plus(GetG(frontier["fw"], open["fw"]), GetG(frontier["bw"], open["bw"]))
      OBVIOUS
    <3>3. min_g' = GreaterOf(min_g, y) /\ y \in Int
      BY <2>6, <3>2, ReturnBounds DEF SetMinG
    <3>4. min_g <= min_g'
      BY <1>1, <3>3 DEF GreaterOf
    <3>5. lower_bound <= lower_bound' /\ upper_bound' = upper_bound
      BY <2>6, ReturnBounds, SetLowerBoundRises
    <3>6. QED
      BY <1>1, <2>1, <3>1, <3>4, <3>5 DEF Onward
  <2>7. QED
    BY <1>6, <2>2, <2>3, <2>4, <2>5, <2>6 DEF SearchStep
<1>7. CASE UNCHANGED topkVars
  BY <1>1, <1>7 DEF topkVars, allVars, vars, engine, control, registryVars, Onward
<1>8. QED
  BY <1>2, <1>3, <1>4, <1>5, <1>6, <1>7 DEF TopKNext, TopKDone

\* A plan is accepted, or none is.
LEMMA PlanGrows ==
    ASSUME EngineInv, PlansInv, [TopKNext]_topkVars
    PROVE  /\ task' = task
           /\ \/ plan' = plan
              \/ \E p \in OperatorSeqs : PlanCost(p) \in Nat /\ plan' = plan \cup {p}
<1>1. CASE ReconstructPlan
  <2>0. PICK top \in queue : \E S \in Picked(top) : Reconstructs(top, S)
    BY <1>1 DEF ReconstructPlan, Reconstructs, Top
  <2>1. PICK states \in Picked(top) : Reconstructs(top, states)
    BY <2>0
  <2>2. PICK node, found : node = Narrowed(top, states) /\ found = node.prefix \o node.suffix
    OBVIOUS
  <2>3. task' = task
    BY <1>1 DEF ReconstructPlan, vars
  <2>4. plan' = plan \/ plan' = plan \cup {found}
    BY <2>1, <2>2 DEF Reconstructs, AddPlan
  <2>5. PICK f \in Nat : \A n \in queue : Promised(n, f)
    BY DEF PlansInv
  <2>6. Found /\ TaskOK /\ {task.init} \in StateSets
    BY WhatHolds, FoundFacts
  <2>7. NodeInv(top, f)
    BY <2>1, <2>5 DEF Promised
  <2>8. NodeInv(node, f)
    BY <2>1, <2>2, <2>6, <2>7, NarrowedNode
  <2>9. found \in OperatorSeqs
    BY <2>2, <2>8 DEF NodeInv, NodeType, OperatorSeqs
  <2>10. PlanCost(found) \in Nat
    BY <2>6, <2>9, RunTypes DEF OperatorSeqs
  <2>11. QED
    BY <2>3, <2>4, <2>9, <2>10
<1>2. CASE StartStep \/ ConstructNext \/ EndStep
  BY <1>2 DEF StartStep, ConstructNext, EndStep
<1>3. CASE SearchStep
  <2>1. plan' = plan
    BY <1>3 DEF SearchStep, registryVars
  <2>2. task' = task
    BY <1>3 DEF SearchStep, NoMorePlans, PopBucket, ExpandFrontier, Inherited, BucketReady,
       Prepare, PrepareTruncated, ExpandTruncated, Finish, Return
  <2>3. QED
    BY <2>1, <2>2
<1>4. CASE UNCHANGED topkVars
  BY <1>4 DEF topkVars, allVars, vars, registryVars
<1>5. QED
  BY <1>1, <1>2, <1>3, <1>4 DEF TopKNext, TopKDone

\* The largest of finitely many numbers.
LEMMA MaxIsLargest ==
    ASSUME NEW S, NEW x, Largest(x, S), S \subseteq Int
    PROVE  Largest(Max(S), S)
<1>1. \E y \in S : \A z \in S : y >= z
  BY DEF Largest
<1>2. Max(S) \in S /\ \A z \in S : Max(S) >= z
  BY <1>1 DEF Max
<1>3. QED
  BY <1>2 DEF Largest

\* What the plan data base holds stays finite, and has a largest cost.
LEMMA PlansStayFinite ==
    ASSUME EngineInv, PlansInv, IsFiniteSet(plan), MostExpensiveIsLargest, [TopKNext]_topkVars
    PROVE  /\ IsFiniteSet(plan') /\ MostExpensiveIsLargest'
           /\ MostExpensive(plan) \in Int /\ MostExpensive(plan)' \in Int
           /\ MostExpensive(plan) <= MostExpensive(plan)'
<1>1. task' = task /\ (plan' = plan \/ \E p \in OperatorSeqs : PlanCost(p) \in Nat /\ plan' = plan \cup {p})
  BY PlanGrows
<1>2. IsFiniteSet(plan')
  BY <1>1, FS_AddElement
<1>3. /\ \A ops : PlanCost(ops)' = PlanCost(ops)
      /\ task.plan_cost_bound' = task.plan_cost_bound
  BY <1>1, Stable
<1>4. PICK S, T : S = Costs(plan) /\ T = Costs(plan)'
  OBVIOUS
<1>5. /\ S = {PlanCost(p) : p \in plan} \cup {task.plan_cost_bound}
      /\ T = {PlanCost(p) : p \in plan'} \cup {task.plan_cost_bound}
  <2>1. {PlanCost(p)' : p \in plan'} = {PlanCost(p) : p \in plan'}
    BY <1>3
  <2>2. T = {PlanCost(p)' : p \in plan'} \cup {task.plan_cost_bound'}
    BY <1>4 DEF Costs
  <2>3. QED
    BY <1>3, <1>4, <2>1, <2>2 DEF Costs
<1>6. \A p \in plan : PlanCost(p) \in Nat
  <2>1. TaskOK /\ {task.init} \in StateSets
    BY WhatHolds, FoundFacts
  <2>2. \A p \in plan : p \in OperatorSeqs
    BY DEF PlansInv, IsPlan
  <2>3. QED
    BY <2>1, <2>2, RunTypes DEF OperatorSeqs
<1>7. task.plan_cost_bound \in Int
  BY WhatHolds, OptionFacts DEF HasSelector
<1>8. S \subseteq Int /\ T \subseteq Int /\ S \subseteq T
  BY <1>1, <1>5, <1>6, <1>7
<1>9. MostExpensive(plan) = Max(S) /\ MostExpensive(plan)' = Max(T)
  <2>1. MostExpensive(plan) = Max(S)
    BY <1>5 DEF MostExpensive
  <2>2. MostExpensive(plan)' = Max(T)
    BY <1>4 DEF MostExpensive, Costs
  <2>3. QED
    BY <2>1, <2>2
<1>10. Largest(Max(S), S)
  BY <1>4, <1>9 DEF MostExpensiveIsLargest
<1>11. \E x : Largest(x, T)
  <2>1. CASE plan' = plan
    BY <1>5, <1>10, <2>1
  <2>2. CASE plan' # plan
    <3>1. PICK p \in OperatorSeqs : PlanCost(p) \in Nat /\ plan' = plan \cup {p}
      BY <1>1, <2>2
    <3>2. T = S \cup {PlanCost(p)}
      BY <1>5, <3>1
    <3>3. CASE PlanCost(p) <= Max(S)
      BY <1>8, <1>10, <3>2, <3>3 DEF Largest
    <3>4. CASE ~(PlanCost(p) <= Max(S))
      <4>0. PICK a, b : a = PlanCost(p) /\ b = Max(S)
        OBVIOUS
      <4>1. \A y \in S : y <= PlanCost(p)
        <5>1. a \in Nat /\ b \in Int /\ ~(a <= b) /\ \A y \in S : y \in Int /\ y <= b
          BY <1>8, <1>10, <3>1, <3>4, <4>0 DEF Largest
        <5>2. \A y \in S : y <= a
          BY <5>1
        <5>3. QED
          BY <4>0, <5>2
      <4>2. QED
        BY <3>1, <3>2, <4>1 DEF Largest
    <3>5. QED
      BY <3>3, <3>4
  <2>3. QED
    BY <2>1, <2>2
<1>12. Largest(Max(T), T)
  BY <1>8, <1>11, MaxIsLargest
<1>13. Max(S) <= Max(T) /\ Max(S) \in Int /\ Max(T) \in Int
  BY <1>8, <1>10, <1>12 DEF Largest
<1>14. QED
  BY <1>2, <1>4, <1>9, <1>12, <1>13 DEF MostExpensiveIsLargest

\* The driver takes the first step.
LEMMA FreshStep ==
    ASSUME pc = "init", registry = "idle", status = "IN_PROGRESS", [TopKNext]_topkVars
    PROVE  StartStep \/ UNCHANGED topkVars
<1>1. ~ConstructNext /\ ~ReconstructPlan /\ ~EndStep
  BY DEF ConstructNext, ReconstructPlan, EndStep
<1>2. ~SearchStep
  BY DEF SearchStep, NoMorePlans, PopBucket, PopReady, ExpandFrontier, Inherited, BucketReady,
     Prepare, PrepareTruncated, ExpandTruncated, Finish, Return
<1>3. QED
  BY <1>1, <1>2 DEF TopKNext, TopKDone

\* The engine is not done before it has begun.
Begun == pc = "init" => status = "IN_PROGRESS"

\* Every step keeps that.
LEMMA BegunNext ==
    ASSUME Begun, [TopKNext]_topkVars
    PROVE  Begun'
<1>1. CASE StartStep \/ ConstructNext \/ ReconstructPlan
  BY <1>1 DEF StartStep, ConstructNext, ReconstructPlan, Begun, vars, engine, control
<1>2. CASE EndStep
  BY <1>2 DEF EndStep, Begun
<1>3. CASE SearchStep
  BY <1>3 DEF SearchStep, NoMorePlans, PopBucket, ExpandFrontier, Inherited, BucketReady,
     Prepare, PrepareTruncated, ExpandTruncated, Finish, Return, ReturnPoint, Begun, engine
<1>4. CASE UNCHANGED topkVars
  BY <1>4 DEF topkVars, allVars, vars, engine, control, Begun
<1>5. QED
  BY <1>1, <1>2, <1>3, <1>4 DEF TopKNext, TopKDone

\* What holds before the first step, until it is taken.
LEMMA FreshNext ==
    ASSUME EngineInv, PlansInv, Begun, Fresh, [TopKNext]_topkVars
    PROVE  Fresh'
<1>1. SUFFICES ASSUME pc' = "init" /\ registry' = "idle"
               PROVE  /\ (sym_cuts = {} /\ min_g = 0 /\ lower_bound = MinTransitionCost(task))'
                      /\ lower_bound_increased'
                      /\ (\A d \in Searches : open[d] = NoStates)'
                      /\ (\A d \in Searches : frontier[d] = [g |-> 0, phase |-> "filter",
                                                             states |-> Source(task, d)])'
                      /\ (closed = [d \in Dir |-> [NoStates EXCEPT ![0] = Source(task, d)]])'
  BY DEF Fresh
<1>2. pc = "init" /\ registry = "idle"
  BY <1>1, EveryStepIsOnward DEF Onward
<1>3. ~StartStep
  BY <1>1 DEF StartStep
<1>4. UNCHANGED topkVars
  BY <1>2, <1>3, FreshStep DEF Begun
<1>5. UNCHANGED <<sym_cuts, min_g, lower_bound, lower_bound_increased, open, frontier, closed, task>>
  BY <1>4 DEF topkVars, allVars, vars, engine, search
<1>6. /\ MinTransitionCost(task)' = MinTransitionCost(task)
      /\ \A d : Source(task, d)' = Source(task, d)
  BY <1>5 DEF MinTransitionCost, Source
<1>7. QED
  BY <1>2, <1>5, <1>6 DEF Fresh

\* Plans that are enough stay enough.
LEMMA EnoughStays ==
    ASSUME EngineInv, PlansInv, IsFiniteSet(plan), [TopKNext]_topkVars, FoundEnoughPlans(plan)
    PROVE  FoundEnoughPlans(plan)'
<1>1. task' = task /\ plan \subseteq plan' /\ IsFiniteSet(plan')
  BY PlanGrows, FS_AddElement
<1>2. Cardinality(plan) <= Cardinality(plan') /\ Cardinality(plan) \in Nat /\ Cardinality(plan') \in Nat
  BY <1>1, FS_Subset, FS_CardinalityType
<1>3. task.num_plans \in Nat
  BY WhatHolds, OptionFacts DEF HasSelector
<1>4. QED
  BY <1>1, <1>2, <1>3 DEF FoundEnoughPlans

\* The bounds are numbers, and none of them turns back.
LEMMA BoundsRise ==
    ASSUME EngineInv, PlansInv, [TopKNext]_topkVars
    PROVE  /\ Passed \in Nat /\ Passed' \in Nat /\ Passed <= Passed'
           /\ lower_bound \in Nat /\ lower_bound' \in Nat /\ lower_bound <= lower_bound'
           /\ min_g \in Nat /\ min_g' \in Nat /\ min_g <= min_g'
           /\ min_g <= Passed /\ min_g' <= Passed'
           /\ lower_bound <= Passed /\ lower_bound' <= Passed'
           /\ upper_bound \in Nat /\ upper_bound' \in Nat /\ upper_bound' <= upper_bound
           /\ INT_MAX \in Nat /\ upper_bound <= INT_MAX /\ lower_bound' <= INT_MAX
           /\ Passed' <= INT_MAX
<1>1. EngineInv' /\ PlansInv'
  BY TopKInvNext
<1>2. /\ lower_bound \in Nat /\ upper_bound \in Nat /\ min_g \in Nat
      /\ lower_bound' \in Nat /\ upper_bound' \in Nat /\ min_g' \in Nat
      /\ INT_MAX \in Nat /\ upper_bound <= INT_MAX /\ lower_bound' <= INT_MAX
      /\ min_g' <= INT_MAX
  BY <1>1, LevelFacts DEF EngineInv, TypeOK, EngineTypeOK
<1>3. /\ lower_bound <= lower_bound' /\ min_g <= min_g' /\ upper_bound' <= upper_bound
  BY EveryStepIsOnward DEF Onward
<1>4. QED
  BY <1>2, <1>3 DEF Passed, GreaterOf

\* An engine that goes on has gone on before, or takes its first step.
LEMMA GoneOnBefore ==
    ASSUME EngineInv, PlansInv, Begun, IsFiniteSet(plan), [TopKNext]_topkVars, GoingOn'
    PROVE  /\ GoingOn \/ (StartStep /\ pc = "init")
           /\ lower_bound' # INT_MAX
           /\ Passed \in Nat /\ Passed' \in Nat /\ Passed <= Passed'
           /\ Passed' < INT_MAX \/ min_g' >= lower_bound'
           /\ lower_bound \in Nat /\ lower_bound' \in Nat /\ lower_bound <= lower_bound'
           /\ min_g \in Nat /\ min_g' \in Nat /\ min_g <= Passed /\ min_g' <= Passed'
           /\ lower_bound <= Passed /\ lower_bound' <= Passed'
<1>1. EngineInv' /\ PlansInv'
  BY TopKInvNext
<1>2. /\ lower_bound \in Nat /\ upper_bound \in Nat /\ min_g \in Nat
      /\ lower_bound' \in Nat /\ upper_bound' \in Nat /\ min_g' \in Nat
      /\ INT_MAX \in Nat /\ upper_bound' <= INT_MAX
  BY <1>1, LevelFacts DEF EngineInv, TypeOK, EngineTypeOK
<1>3. Onward
  BY EveryStepIsOnward
<1>4. /\ lower_bound <= lower_bound' /\ min_g <= min_g' /\ upper_bound' <= upper_bound
  BY <1>3 DEF Onward
<1>5. lower_bound' < upper_bound' /\ ~FoundEnoughPlans(plan)' /\ ~(pc' = "init" /\ registry' = "idle")
  BY DEF GoingOn
<1>6. GoingOn \/ (StartStep /\ pc = "init")
  <2>1. lower_bound < upper_bound
    BY <1>2, <1>4, <1>5
  <2>2. ~FoundEnoughPlans(plan)
    BY <1>5, EnoughStays
  <2>3. CASE pc = "init" /\ registry = "idle"
    <3>1. ~UNCHANGED topkVars
      BY <1>5, <2>3 DEF topkVars, allVars, vars, control, registryVars
    <3>2. QED
      BY <2>3, <3>1, FreshStep DEF Begun
  <2>4. QED
    BY <2>1, <2>2, <2>3 DEF GoingOn
<1>7. lower_bound' # INT_MAX
  BY <1>2, <1>5
<1>8. /\ Passed \in Nat /\ Passed' \in Nat /\ Passed <= Passed'
      /\ Passed' < INT_MAX \/ min_g' >= lower_bound'
      /\ min_g <= Passed /\ min_g' <= Passed' /\ lower_bound <= Passed /\ lower_bound' <= Passed'
  BY <1>2, <1>4, <1>5 DEF Passed, GreaterOf
<1>9. QED
  BY <1>2, <1>4, <1>6, <1>7, <1>8

\* ModeInv is inductive.
LEMMA ModeInvNext ==
    ASSUME Searched, Begun, ModeInv, [TopKNext]_topkVars
    PROVE  ModeInv'
<1>1. EngineInv /\ PlansInv /\ ListInv /\ IsFiniteSet(plan) /\ MostExpensiveIsLargest
  BY DEF Searched, ModeInv
<1>2. IsFiniteSet(plan)' /\ MostExpensiveIsLargest'
  BY <1>1, PlansStayFinite
<1>3. Fresh'
  BY <1>1, FreshNext DEF ModeInv
<1>4. registry # "idle" => pc \in {"init", "step"}
  BY <1>1 DEF ListInv
<1>5. GoingOn' => GoingOn \/ (StartStep /\ pc = "init")
  BY <1>1, GoneOnBefore
<1>6. /\ lower_bound \in Nat /\ lower_bound' \in Nat
  BY <1>1, TopKInvNext, LevelFacts DEF EngineInv, TypeOK, EngineTypeOK
<1>7. (registry # "idle" => ~lower_bound_increased)'
  <2>1. CASE StartStep
    BY <2>1 DEF StartStep
  <2>2. CASE ConstructNext \/ ReconstructPlan \/ EndStep
    BY <2>2 DEF ConstructNext, ReconstructPlan, EndStep, vars, engine, ModeInv
  <2>3. CASE SearchStep
    BY <2>3 DEF SearchStep, registryVars
  <2>4. CASE UNCHANGED topkVars
    BY <2>4 DEF topkVars, allVars, vars, engine, registryVars, ModeInv
  <2>5. QED
    BY <2>1, <2>2, <2>3, <2>4 DEF TopKNext, TopKDone
<1>8. (registry # "idle" /\ GoingOn => limit <= lower_bound)'
  <2>0. SUFFICES ASSUME registry' # "idle", GoingOn' PROVE limit' <= lower_bound'
    OBVIOUS
  <2>1. CASE StartStep
    <3>1. limit' = IF lower_bound' >= upper_bound' THEN Remaining(upper_bound')
                   ELSE IF lower_bound_increased THEN lower_bound' ELSE 0
      BY <1>1, <2>1, StartStepFacts
    <3>2. lower_bound' < upper_bound'
      BY <2>0 DEF GoingOn
    <3>3. upper_bound' \in Nat
      BY <1>1, <2>1, StartStepFacts
    <3>4. limit' = IF lower_bound_increased THEN lower_bound' ELSE 0
      BY <1>6, <3>1, <3>2, <3>3
    <3>5. QED
      BY <1>6, <3>4
  <2>2. CASE ConstructNext \/ ReconstructPlan
    <3>1. UNCHANGED <<limit, lower_bound>> /\ registry # "idle"
      BY <2>2 DEF ConstructNext, ReconstructPlan, vars, engine
    <3>2. GoingOn
      BY <1>5, <2>0, <3>1 DEF StartStep
    <3>3. QED
      BY <3>1, <3>2 DEF ModeInv
  <2>3. CASE EndStep \/ SearchStep
    <3>1. registry' = "idle"
      BY <2>3 DEF EndStep, SearchStep, registryVars
    <3>2. QED
      BY <2>0, <3>1
  <2>4. CASE UNCHANGED topkVars
    <3>1. UNCHANGED <<limit, lower_bound, registry>>
      BY <2>4 DEF topkVars, allVars, vars, engine, registryVars
    <3>2. ~StartStep
      BY <2>0, <3>1 DEF StartStep
    <3>3. QED
      BY <1>5, <2>0, <3>1, <3>2 DEF ModeInv
  <2>5. QED
    BY <2>1, <2>2, <2>3, <2>4 DEF TopKNext, TopKDone
<1>9. (pc = "bucket" => ~lower_bound_increased /\ lower_bound < upper_bound /\ ~FoundEnoughPlans(plan))'
  <2>0. SUFFICES ASSUME pc' = "bucket"
                 PROVE  ~lower_bound_increased' /\ lower_bound' < upper_bound' /\ ~FoundEnoughPlans(plan)'
    OBVIOUS
  <2>1. CASE StartStep
    BY <2>0, <2>1 DEF StartStep, control
  <2>2. CASE ConstructNext \/ ReconstructPlan
    BY <1>4, <2>0, <2>2 DEF ConstructNext, ReconstructPlan, control, vars
  <2>3. CASE EndStep
    <3>1. status' = "IN_PROGRESS" /\ ~lower_bound_increased
      BY <2>0, <2>3 DEF EndStep, ModeInv
    <3>2. ~(lower_bound >= upper_bound) /\ ~FoundEnoughPlans(plan)
      BY <2>3, <3>1 DEF EndStep
    <3>3. UNCHANGED <<task, plan, lower_bound, upper_bound, lower_bound_increased>>
      BY <2>3 DEF EndStep
    <3>4. lower_bound \in Nat /\ upper_bound \in Nat
      BY <1>1, LevelFacts DEF EngineInv, TypeOK, EngineTypeOK
    <3>5. ~FoundEnoughPlans(plan)'
      BY <3>2, <3>3 DEF FoundEnoughPlans
    <3>6. QED
      BY <3>1, <3>2, <3>3, <3>4, <3>5
  <2>4. CASE SearchStep
    BY <2>0, <2>4 DEF SearchStep, NoMorePlans, PopBucket, ExpandFrontier, Inherited, BucketReady,
       Prepare, PrepareTruncated, ExpandTruncated, Finish, Return, ReturnPoint
  <2>5. CASE UNCHANGED topkVars
    BY <2>0, <2>5 DEF topkVars, allVars, vars, engine, control, registryVars, ModeInv, FoundEnoughPlans
  <2>6. QED
    BY <2>1, <2>2, <2>3, <2>4, <2>5 DEF TopKNext, TopKDone
<1>10. QED
  BY <1>2, <1>3, <1>7, <1>8, <1>9 DEF ModeInv

\* At the start nothing has been expanded, and no plan is known.
LEMMA StartOfAll == TopKInit => ListInv /\ Begun /\ ModeInv
<1> SUFFICES ASSUME TopKInit PROVE ListInv /\ Begun /\ ModeInv
  OBVIOUS
<1>1. Init /\ registry = "idle" /\ plan = {}
  BY DEF TopKInit, RegistryInit
<1>2. EngineInv /\ PlansInv
  BY TopKInitInv
<1>3. /\ pc = "init" /\ sym_cuts = {} /\ min_g = 0 /\ status = "IN_PROGRESS"
      /\ lower_bound = MinTransitionCost(task) /\ lower_bound_increased
      /\ open = [d \in Searches |-> NoStates]
      /\ frontier = [d \in Searches |-> [g |-> 0, phase |-> "filter", states |-> Source(task, d)]]
      /\ closed = [d \in Dir |-> [NoStates EXCEPT ![0] = Source(task, d)]]
  BY <1>1 DEF Init
<1>4. 0 \in Level
  BY LevelFacts
<1>5. \A d \in Searches : d \in Dir
  BY <1>2, WhatHolds
<1>6. \A d \in Dir : \A g \in Level : closed[d][g] = IF g = 0 THEN Source(task, d) ELSE {}
  BY <1>3, <1>4 DEF NoStates
<1>7. \A d \in Searches : \A g \in Level : open[d][g] = {}
  BY <1>3 DEF NoStates
<1>8. \A d \in Searches : /\ frontier[d].phase = "filter" /\ frontier[d].g = 0
                          /\ frontier[d].states = Source(task, d)
  BY <1>3
<1>9. ListInv
  <2>1. \A d \in Dir : Source(task, d) \subseteq closed[d][0]
    BY <1>4, <1>6
  <2>2. ASSUME NEW d \in Searches PROVE Lossless(d)
    BY <1>4, <1>5, <1>6, <1>8 DEF Lossless, Expanded
  <2>3. ASSUME NEW d \in Searches PROVE Leading(d) /\ Placed(d)
    BY <1>3, <1>7, <1>8 DEF Leading, Placed, Keys, Stocked
  <2>4. QED
    BY <1>1, <2>1, <2>2, <2>3 DEF ListInv
<1>10. Fresh
  BY <1>3 DEF Fresh
<1>11. MostExpensiveIsLargest
  <2>1. Costs(plan) = {task.plan_cost_bound}
    BY <1>1 DEF Costs
  <2>2. task.plan_cost_bound \in Int
    BY <1>2, WhatHolds, OptionFacts DEF HasSelector
  <2>3. MostExpensive(plan) = Max(Costs(plan))
    BY DEF MostExpensive, Costs
  <2>4. Largest(task.plan_cost_bound, Costs(plan)) /\ Costs(plan) \subseteq Int
    BY <2>1, <2>2 DEF Largest
  <2>5. PICK S, b : S = Costs(plan) /\ b = task.plan_cost_bound
    OBVIOUS
  <2>6. Largest(Max(S), S)
    BY <2>4, <2>5, MaxIsLargest
  <2>7. QED
    BY <2>3, <2>5, <2>6 DEF MostExpensiveIsLargest
<1>12. QED
  BY <1>1, <1>3, <1>9, <1>10, <1>11, FS_EmptySet DEF ModeInv, Begun

-----------------------------------------------------------------------------
(* The cuts are there while the engine goes on *)
\* What is settled below m is settled below more.
LEMMA CutsOfMore ==
    ASSUME IsTask(task)', NEW m \in Nat, NEW k \in Nat, m <= k, CutsInv(m)'
    PROVE  CutsInv(k)'
<1>1. ASSUME NEW d \in Dir, NEW g \in Nat, NEW h \in Nat, NEW x, Cut(d, m, g, h, x)'
      PROVE  Cut(d, k, g, h, x)'
  BY <1>1 DEF Cut
<1>2. \A d \in Dir : Opposite(d) \in Dir
  BY DEF Dir, Opposite
<1>3. Searches \subseteq Dir
  BY SearchesAssumption
<1>4. \A g \in Level : g \in Nat
  BY LevelFacts
<1>5. 0 \in Nat
  OBVIOUS
<1>6. \A c \in DOMAIN task'.ops : c \in Nat
  BY IntMaxAssumption DEF IsTask
<1>7. MetIn(k)'
  BY <1>1, <1>4 DEF CutsInv, MetIn
<1>8. MetBetween(k)'
  <2>1. SUFFICES ASSUME NEW d \in Searches, Opposite(d) \in Searches,
                        NEW g \in Level, NEW h \in Level, NEW c \in DOMAIN task'.ops,
                        NEW x \in closed'[d][g], NEW y \in closed'[Opposite(d)][h],
                        Useful(x)', Useful(y)', Edge(task', d, c, x, y),
                        Expanded(d, g, x, c)', Expanded(Opposite(d), h, y, c)'
                 PROVE  Cut(d, k, g + c, h, y)' \/ Cut(d, k, g, h + c, x)'
    BY DEF MetBetween
  <2>2. Cut(d, m, g + c, h, y)' \/ Cut(d, m, g, h + c, x)'
    BY <2>1 DEF CutsInv, MetBetween
  <2>3. g \in Nat /\ h \in Nat /\ g + c \in Nat /\ h + c \in Nat /\ d \in Dir
    BY <1>3, <1>4, <1>6
  <2>4. QED
    BY <1>1, <2>2, <2>3
<1>9. MetAtSource(k)'
  BY <1>1, <1>3, <1>4, <1>5 DEF CutsInv, MetAtSource
<1>10. QED
  BY <1>7, <1>8, <1>9 DEF CutsInv

\* The first step registers the empty plan.
LEMMA FirstCuts ==
    ASSUME Searched, Fresh, StartStep, pc = "init", lower_bound' # INT_MAX
    PROVE  CutsInv(0)'
<1>0. EngineInv /\ PlansInv /\ IsTask(task) /\ (\A d \in Searches : d \in Dir)
  BY SearchedFacts DEF Searched
<1>1. /\ ToldOf(EmptyPlan) /\ UNCHANGED <<task, frontier, open, closed>> /\ registry = "idle"
  BY <1>0, StartStepFacts
<1>2. /\ \A d \in Searches : open[d] = NoStates
      /\ \A d \in Searches : frontier[d] = [g |-> 0, phase |-> "filter", states |-> Source(task, d)]
      /\ closed = [d \in Dir |-> [NoStates EXCEPT ![0] = Source(task, d)]]
  BY <1>1 DEF Fresh
<1>3. 0 \in Level
  BY LevelFacts
<1>4. \A d \in Dir : \A g \in Level : closed'[d][g] = IF g = 0 THEN Source(task, d) ELSE {}
  BY <1>1, <1>2, <1>3 DEF NoStates
<1>5. \A d \in Searches : \A g \in Level : open'[d][g] = {}
  BY <1>1, <1>2 DEF NoStates
<1>6. MetIn(0)'
  <2>1. SUFFICES ASSUME NEW d \in Dir, NEW g \in Level, NEW k \in Level,
                        NEW x \in closed'[d][g] \cap closed'[Opposite(d)][k]
                 PROVE  Cut(d, 0, g, k, x)'
    BY DEF MetIn
  <2>2. Opposite(d) \in Dir
    BY DEF Opposite, Dir
  <2>3. g = 0 /\ k = 0 /\ x \in Source(task, d) /\ x \in Source(task, Opposite(d))
    BY <1>4, <2>1, <2>2
  <2>4. x = task.init /\ task.init \in task.goal
    BY <2>3 DEF Source, Opposite, Dir
  <2>5. PICK sol : sol = [g |-> 0, h |-> 0, cut |-> {task.init}]
    OBVIOUS
  <2>6. sol \in EmptyPlan /\ sol.g = 0 /\ sol.h = 0 /\ sol.cut = {task.init}
    BY <2>4, <2>5 DEF EmptyPlan
  <2>7. RegisteredIn(sol, sym_cuts')
    BY <1>1, <2>6 DEF ToldOf
  <2>8. QED
    BY <2>3, <2>4, <2>6, <2>7 DEF RegisteredIn, Cut
<1>7. MetBetween(0)'
  <2>1. SUFFICES ASSUME NEW d \in Searches, NEW g \in Level, NEW c, NEW x \in closed'[d][g],
                        Expanded(d, g, x, c)'
                 PROVE  FALSE
    BY DEF MetBetween
  <2>2. d \in Dir /\ g = 0 /\ x \in Source(task, d)
    BY <1>0, <1>4
  <2>3. frontier'[d] = [g |-> 0, phase |-> "filter", states |-> Source(task, d)]
    BY <1>1, <1>2
  <2>4. QED
    BY <2>1, <2>2, <2>3 DEF Expanded
<1>8. MetAtSource(0)'
  BY <1>5 DEF MetAtSource
<1>9. QED
  BY <1>6, <1>7, <1>8 DEF CutsInv

\* All that the arguments about a plan assume.
Driven == Searched /\ Begun /\ ModeInv

\* The cuts that have not been settled are there.
CutsKept == GoingOn => CutsInv(Passed)

\* They still are when the engine has gone on, whatever it has passed meanwhile.
LEMMA CutsGoOn ==
    ASSUME Driven, CutsInv(Passed), GoingOn, [TopKNext]_topkVars, GoingOn' \/ ~Deaf,
           NEW m, m = Passed
    PROVE  CutsInv(m)'
<1>0. Searched /\ EngineInv /\ PlansInv /\ ModeInv /\ Begun /\ IsFiniteSet(plan)
  BY DEF Driven, Searched, ModeInv
<1>1. CutsInv(m)
  BY DEF CutsInv, MetIn, MetBetween, MetAtSource, Cut
<1>2. /\ m \in Nat /\ min_g \in Nat /\ min_g <= m /\ (lower_bound' # INT_MAX \/ ~Deaf)
      /\ lower_bound \in Nat /\ lower_bound <= m
  BY <1>0, BoundsRise, GoneOnBefore
<1>3. IsTask(task)
  BY <1>0, SearchedFacts
<1>4. CASE Resting /\ CutsStay
  <2>1. CutsSettle(m)
    <3>1. ASSUME NEW c \in sym_cuts, registry # "idle", Cost(c) < limit PROVE Cost(c) < m
      <4>1. limit <= lower_bound
        BY <1>0, <3>1 DEF ModeInv
      <4>2. Cost(c) \in Nat /\ limit \in Nat
        BY <1>0, WhatHolds, CutFacts, LevelFacts DEF EngineInv
      <4>3. QED
        BY <1>2, <3>1, <4>1, <4>2
    <3>2. QED
      BY <1>4, <3>1 DEF CutsStay, CutsSettle
  <2>2. QED
    BY <1>1, <1>3, <1>4, <2>1, RestingCuts
<1>5. CASE \E d \in Searches : Filtered(d)
  BY <1>1, <1>3, <1>5, FilteringCuts
<1>6. CASE \E d \in Searches : \E g, new : Popping(d, g, new) /\ ToldOf(AllCuts(d, g, open[d][g]))
  <2>1. PICK d \in Searches : \E g, new : Popping(d, g, new) /\ ToldOf(AllCuts(d, g, open[d][g]))
    BY <1>6
  <2>2. PICK g, new : Popping(d, g, new) /\ ToldOf(AllCuts(d, g, open[d][g]))
    BY <2>1
  <2>3. QED
    BY <1>1, <1>2, <1>3, <2>2, PoppingCuts
<1>7. CASE \E d \in Searches : Imaging(d) /\ ToldOf(AllImageCuts(d))
  <2>1. PICK d \in Searches : Imaging(d) /\ ToldOf(AllImageCuts(d))
    BY <1>7
  <2>2. Placed(d) /\ frontier[d].g \in Nat /\ \A b \in Dir : Source(task, b) \subseteq closed[b][0]
    BY <1>0, SearchedFacts DEF Searched, ListInv
  <2>3. QED
    BY <1>1, <1>2, <1>3, <2>1, <2>2, ImagingCuts
<1>8. QED
  BY <1>0, <1>4, <1>5, <1>6, <1>7, TopKStepKinds

\* So the cuts of plans that cost at least m are there, m being what the engine
\* had passed before, if anything.
LEMMA CutsBehind ==
    ASSUME Driven, CutsKept, [TopKNext]_topkVars, GoingOn'
    PROVE  \E m \in Nat : /\ CutsInv(m)' /\ m <= Passed'
                          /\ GoingOn => m = Passed
                          /\ ~GoingOn => m = 0 /\ StartStep /\ pc = "init"
<1>0. Searched /\ EngineInv /\ PlansInv /\ Begun /\ IsFiniteSet(plan) /\ Fresh
  BY DEF Driven, Searched, ModeInv
<1>1. /\ GoingOn \/ (StartStep /\ pc = "init")
      /\ Passed \in Nat /\ Passed' \in Nat /\ Passed <= Passed' /\ lower_bound' # INT_MAX
  BY <1>0, GoneOnBefore
<1>2. CASE GoingOn
  <2>1. PICK m : m = Passed
    OBVIOUS
  <2>2. CutsInv(m)'
    BY <1>2, <2>1, CutsGoOn DEF CutsKept
  <2>3. QED
    BY <1>1, <1>2, <2>1, <2>2
<1>3. CASE ~GoingOn
  <2>1. CutsInv(0)'
    BY <1>0, <1>1, <1>3, FirstCuts
  <2>2. 0 \in Nat /\ 0 <= Passed'
    BY <1>1
  <2>3. QED
    BY <1>1, <1>3, <2>1, <2>2
<1>4. QED
  BY <1>2, <1>3

\* CutsKept is inductive.
LEMMA CutsKeptNext ==
    ASSUME Driven, CutsKept, [TopKNext]_topkVars
    PROVE  CutsKept'
<1>1. SUFFICES ASSUME GoingOn' PROVE CutsInv(Passed)'
  BY DEF CutsKept
<1>2. PICK m \in Nat : CutsInv(m)' /\ m <= Passed'
  BY <1>1, CutsBehind
<1>3. PICK k : k = Passed'
  OBVIOUS
<1>4. k \in Nat /\ IsTask(task)'
  <2>1. EngineInv /\ PlansInv /\ Begun /\ IsFiniteSet(plan)
    BY DEF Driven, Searched, ModeInv
  <2>2. Passed' \in Nat
    BY <1>1, <2>1, GoneOnBefore
  <2>3. EngineInv' /\ PlansInv'
    BY <2>1, TopKInvNext
  <2>4. IsTask(task)'
    BY <2>3, TasksAssumption DEF EngineInv
  <2>5. QED
    BY <1>3, <2>2, <2>4
<1>5. CutsInv(k)'
  BY <1>2, <1>3, <1>4, CutsOfMore
<1>6. QED
  BY <1>3, <1>5 DEF CutsInv, MetIn, MetBetween, MetAtSource, Cut

-----------------------------------------------------------------------------
(* What the engine has passed is cut *)
\* Direction d has expanded all that costs at most x, or both have together.
DirectionPassed(d, x) ==
    \/ frontier[d].phase # "empty" /\ x < frontier[d].g + MinTransitionCost(task)
    \/ frontier[d].phase = "empty" /\ x < MinG(open[d])
BothPassed(x) ==
    /\ Bidirectional
    /\ frontier["fw"].phase # "empty" /\ frontier["bw"].phase # "empty"
    /\ x < frontier["fw"].g + frontier["bw"].g + LesserOf(1, MinTransitionCost(task))
IsPassed(x) == (\E d \in Searches : DirectionPassed(d, x)) \/ BothPassed(x)

\* The bounds that a direction reports are justified.
LEMMA BoundsArePassed ==
    ASSUME Searched, NEW d \in Searches, NEW x \in Nat,
           \/ x < GetF(frontier[d], open[d]) \/ x < GetG(frontier[d], open[d])
           \/ Stocked(d) /\ x < Plus(GetG(frontier[d], open[d]), MinTransitionCost(task))
    PROVE  DirectionPassed(d, x)
<1>1. PICK fr, op, minc : fr = frontier[d] /\ op = open[d] /\ minc = MinTransitionCost(task)
  OBVIOUS
<1>2. /\ fr.g \in Level /\ fr.g \in Nat /\ op \in Levels /\ minc \in Level /\ minc \in Nat
      /\ INT_MAX \in Nat
  BY <1>1, SearchedFacts
<1>3. MinG(op) \in Level
  BY <1>2, MinGFacts
<1>4. PICK k : k = MinG(op)
  OBVIOUS
<1>5. k \in Level /\ k \in Nat /\ k <= INT_MAX
  BY <1>3, <1>4, LevelFacts
<1>6. CASE fr.phase = "empty"
  <2>1. GetG(fr, op) = k /\ GetF(fr, op) = LesserOf(k, INT_MAX)
    BY <1>4, <1>6 DEF GetG, GetF
  <2>2. x < LesserOf(k, INT_MAX) \/ x < k \/ (Keys(op) = {} /\ x < Plus(k, minc))
    BY <1>1, <1>6, <2>1 DEF Stocked
  <2>3. x < k
    <3>1. Plus(k, minc) <= INT_MAX /\ (k + minc > INT_MAX => Plus(k, minc) < 0) /\ Plus(k, minc) \in Int
      BY <1>2, <1>5, PlusFacts
    <3>2. k + minc <= INT_MAX => Plus(k, minc) = k + minc
      BY <1>2, <1>5, PlusFacts
    <3>3. CASE op \in Levels /\ Keys(op) = {}
      <4>1. k = INT_MAX
        BY <1>4, <3>3 DEF MinG
      <4>2. QED
        BY <1>2, <1>5, <2>2, <3>1, <3>2, <4>1 DEF LesserOf
    <3>4. CASE Keys(op) # {}
      <4>1. x < LesserOf(k, INT_MAX) \/ x < k
        BY <2>2, <3>4
      <4>2. LesserOf(k, INT_MAX) = k
        BY <1>2, <1>5 DEF LesserOf
      <4>3. QED
        BY <4>1, <4>2
    <3>5. QED
      BY <1>2, <3>3, <3>4
  <2>4. QED
    BY <1>1, <1>4, <1>6, <2>3 DEF DirectionPassed
<1>7. CASE fr.phase # "empty"
  <2>1. GetG(fr, op) = fr.g /\ GetF(fr, op) = LesserOf(k, Plus(fr.g, minc))
    BY <1>1, <1>4, <1>7 DEF GetG, GetF
  <2>2. \/ x < LesserOf(k, Plus(fr.g, minc)) \/ x < fr.g \/ x < Plus(fr.g, minc)
    BY <1>1, <2>1
  <2>3. PICK g, s : g = fr.g /\ s = Plus(fr.g, minc)
    OBVIOUS
  <2>4. s \in Int /\ (g + minc <= INT_MAX => s = g + minc) /\ (g + minc > INT_MAX => s < 0)
    BY <1>2, <2>3, PlusFacts
  <2>5. x < g + minc
    BY <1>2, <1>5, <2>2, <2>3, <2>4 DEF LesserOf
  <2>6. QED
    BY <1>1, <1>7, <2>3, <2>5 DEF DirectionPassed
<1>8. QED
  BY <1>6, <1>7

BoundsPassed ==
    Searched => \A d \in Searches : \A x \in Nat :
        x < GetF(frontier[d], open[d]) \/ x < GetG(frontier[d], open[d]) => DirectionPassed(d, x)

\* The same in one formula.
LEMMA BoundsPassedHolds == BoundsPassed
BY BoundsArePassed DEF BoundsPassed

\* So are those of both directions, when neither of them is at its end.
LEMMA BothBoundsArePassed ==
    ASSUME Searched, Bidirectional, \A d \in Searches : Stocked(d),
           NEW x \in Nat, x < INT_MAX,
           \/ x < BidirectionalF
           \/ x < Plus(GetG(frontier["fw"], open["fw"]), GetG(frontier["bw"], open["bw"]))
    PROVE  IsPassed(x)
<1>1. "fw" \in Searches /\ "bw" \in Searches
  BY DEF Bidirectional, Dir
<1>2. PICK G, H, gf, gb, minc : /\ G = GetF(frontier["fw"], open["fw"])
                                /\ H = GetF(frontier["bw"], open["bw"])
                                /\ gf = GetG(frontier["fw"], open["fw"])
                                /\ gb = GetG(frontier["bw"], open["bw"])
                                /\ minc = LesserOf(1, MinTransitionCost(task))
  OBVIOUS
<1>3. PICK sum, total : sum = Plus(gf, gb) /\ total = Plus(sum, minc)
  OBVIOUS
<1>4. BidirectionalF = GreaterOf(GreaterOf(G, H), total)
  BY <1>2, <1>3 DEF BidirectionalF
<1>5. /\ TypeOK /\ IsTask(task) /\ INT_MAX \in Nat
      /\ frontier["fw"] \in Frontier /\ frontier["bw"] \in Frontier
      /\ open["fw"] \in Levels /\ open["bw"] \in Levels
  BY <1>1, SearchedFacts DEF TypeOK
<1>6. G \in Int /\ H \in Int /\ gf \in Level /\ gb \in Level /\ gf \in Nat /\ gb \in Nat
  BY <1>2, <1>5, GetFFacts, LevelFacts
<1>7. minc \in {0, 1}
  <2>1. MinTransitionCost(task) \in Nat
    BY SearchedFacts
  <2>2. QED
    BY <1>2, <2>1 DEF LesserOf
<1>8. /\ sum \in Int /\ (gf + gb <= INT_MAX => sum = gf + gb) /\ (gf + gb > INT_MAX => sum < 0)
      /\ sum <= INT_MAX
  BY <1>3, <1>6, PlusFacts
<1>9. sum >= 0 /\ sum + minc <= INT_MAX => total = sum + minc
  BY <1>3, <1>5, <1>7, <1>8 DEF Plus
<1>10. sum >= 0 /\ sum + minc > INT_MAX => total < 0
  BY <1>3, <1>5, <1>7, <1>8 DEF Plus
<1>11. sum < 0 => total <= 0
  BY <1>3, <1>5, <1>7, <1>8 DEF Plus
<1>12. total \in Int
  BY <1>3, <1>5, <1>7, <1>8 DEF Plus
<1>13. x < G \/ x < H \/ x < total \/ x < sum
  <2>1. x < BidirectionalF \/ x < sum
    BY <1>2, <1>3
  <2>2. QED
    BY <1>4, <1>6, <1>12, <2>1 DEF GreaterOf
<1>14. CASE x < G
  BY <1>1, <1>2, <1>14, BoundsArePassed DEF IsPassed
<1>15. CASE x < H
  BY <1>1, <1>2, <1>15, BoundsArePassed DEF IsPassed
<1>16. CASE x < total \/ x < sum
  <2>1. x < gf + gb + minc
    BY <1>5, <1>6, <1>7, <1>8, <1>9, <1>10, <1>11, <1>12, <1>16
  <2>2. SUFFICES ASSUME ~(x < G), ~(x < H)
                 PROVE  IsPassed(x)
    BY <1>14, <1>15
  <2>3. ASSUME NEW d \in Searches, frontier[d].phase = "empty",
               ~(x < GetF(frontier[d], open[d]))
        PROVE  FALSE
    <3>1. Keys(open[d]) = {}
      BY <2>3 DEF Stocked
    <3>2. MinG(open[d]) = INT_MAX
      BY <3>1 DEF MinG
    <3>3. GetF(frontier[d], open[d]) = INT_MAX
      BY <1>5, <2>3, <3>2 DEF GetF, LesserOf
    <3>4. QED
      BY <1>5, <2>3, <3>3
  <2>4. frontier["fw"].phase # "empty" /\ frontier["bw"].phase # "empty"
    BY <1>1, <1>2, <2>2, <2>3
  <2>5. gf = frontier["fw"].g /\ gb = frontier["bw"].g
    BY <1>2, <2>4 DEF GetG
  <2>6. BothPassed(x)
    BY <1>2, <2>1, <2>4, <2>5 DEF BothPassed
  <2>7. QED
    BY <2>6 DEF IsPassed
<1>17. QED
  BY <1>13, <1>14, <1>15, <1>16

\* A plan whose cost has been passed is cut.
LEMMA PassedIsHandled ==
    ASSUME Searched, NEW p, NEW w, NEW l, Course(p, w, l), NEW n, n = Len(p),
           l[n] < INT_MAX, NEW m \in Nat, CutsInv(m), m <= l[n], IsPassed(l[n])
    PROVE  Handled(w, l, n)
<1>1. CASE \E d \in Searches : DirectionPassed(d, l[n])
  <2>1. PICK d \in Searches : DirectionPassed(d, l[n])
    BY <1>1
  <2>2. \/ frontier[d].phase # "empty" /\ l[n] < frontier[d].g + MinTransitionCost(task)
        \/ frontier[d].phase = "empty" /\ l[n] < MinG(open[d])
    BY <2>1 DEF DirectionPassed
  <2>3. QED
    BY <2>2, HandledByOne
<1>2. CASE BothPassed(l[n])
  BY <1>2, HandledByBoth DEF BothPassed
<1>3. QED
  BY <1>1, <1>2 DEF IsPassed

\* It is passed when the lists do not change and the bounds come from them.
LEMMA PassedStays ==
    ASSUME UNCHANGED <<task, frontier, open>>, NEW x, IsPassed(x)
    PROVE  IsPassed(x)'
<1>1. MinTransitionCost(task)' = MinTransitionCost(task)
  BY DEF MinTransitionCost
<1>2. QED
  BY <1>1 DEF IsPassed, DirectionPassed, BothPassed, MinG, Keys

\* Whatever the bounds of an engine that goes on pass, the directions have passed,
\* unless it proves that there are no more plans.
LEMMA RaisedIsPassed ==
    ASSUME Driven, [TopKNext]_topkVars, GoingOn, lower_bound' # INT_MAX \/ ~Deaf,
           NEW x \in Nat, x < INT_MAX, Passed <= x, x < Passed'
    PROVE  IsPassed(x)' \/ \E d \in Searches : NoMorePlans(d)
<1>1. Searched /\ EngineInv /\ PlansInv /\ Begun /\ IsFiniteSet(plan) /\ Fresh /\ ListInv
  BY DEF Driven, Searched, ModeInv
<1>2. /\ Passed \in Nat /\ Passed' \in Nat
      /\ lower_bound \in Nat /\ lower_bound' \in Nat /\ lower_bound <= lower_bound'
      /\ min_g \in Nat /\ min_g' \in Nat /\ INT_MAX \in Nat
      /\ lower_bound' = INT_MAX => ~Over
  BY <1>1, BoundsRise DEF Deaf
<1>3. Searched'
  BY <1>1, TopKInvNext, ListInvNext DEF Searched
<1>4. x < min_g' \/ x < lower_bound'
  BY <1>2 DEF Passed, GreaterOf
<1>5. min_g <= x /\ lower_bound <= x
  BY <1>2 DEF Passed, GreaterOf
<1>6. CASE StartStep
  <2>1. lower_bound' = lower_bound /\ min_g' = min_g
    BY <1>1, <1>2, <1>6, StartStepFacts
  <2>2. QED
    BY <1>2, <1>4, <1>5, <2>1
<1>7. CASE ConstructNext \/ ReconstructPlan \/ EndStep
  <2>1. UNCHANGED <<lower_bound, min_g>>
    BY <1>7 DEF ConstructNext, ReconstructPlan, EndStep, vars, engine
  <2>2. QED
    BY <1>2, <1>4, <1>5, <2>1
<1>8. CASE SearchStep
  <2>2. CASE \E d \in Searches : NoMorePlans(d)
    BY <2>2
  <2>3. CASE \E d \in Searches : PopBucket(d)
    <3>1. PICK d \in Searches : PopBucket(d)
      BY <2>3
    <3>2. PICK y, z : y = GetF(frontier'[d], open'[d]) /\ z = GetG(frontier'[d], open'[d])
      OBVIOUS
    <3>3. /\ lower_bound' = GreaterOf(lower_bound, y) /\ min_g' = GreaterOf(min_g, z)
          /\ y \in Int /\ z \in Level
      <4>1. /\ \/ lower_bound' = GreaterOf(lower_bound, GetF(frontier'[d], open'[d]))
               \/ Over /\ lower_bound' = INT_MAX
            /\ min_g' = GreaterOf(min_g, GetG(frontier'[d], open'[d]))
            /\ GetF(frontier'[d], open'[d]) \in Int /\ GetG(frontier'[d], open'[d]) \in Level
        BY <1>1, <3>1, PopBounds
      <4>2. QED
        BY <1>2, <3>2, <4>1, Zenon
    <3>4. z \in Nat
      BY <3>3, LevelFacts
    <3>5. x < y \/ x < z
      BY <1>2, <1>4, <1>5, <3>3, <3>4 DEF GreaterOf
    <3>6. BoundsPassed'
      BY BoundsPassedHolds, PTL
    <3>7. DirectionPassed(d, x)'
      <4>1. task' = task
        BY <3>1, PopBucketFacts
      <4>2. (x < GetF(frontier[d], open[d]) \/ x < GetG(frontier[d], open[d]))'
        <5>1. GetF(frontier[d], open[d])' = GetF(frontier'[d], open'[d])
          BY <4>1 DEF GetF, MinTransitionCost
        <5>2. GetG(frontier[d], open[d])' = GetG(frontier'[d], open'[d])
          BY DEF GetG
        <5>3. QED
          BY <3>2, <3>5, <5>1, <5>2
      <4>3. QED
        BY <1>3, <3>1, <3>6, <4>2 DEF BoundsPassed
    <3>8. QED
      BY <3>7 DEF IsPassed
  <2>4. CASE \E d \in Searches : ExpandFrontier(d)
    <3>1. PICK d \in Searches : ExpandFrontier(d)
      BY <2>4
    <3>2. PICK e \in Reported(d, AllImageCuts(d)) :
              /\ lower_bound' = e.lower /\ GoodCuts(AllImageCuts(d))
      BY <1>1, <3>1, ExpandedTo
    <3>3. e \in Kept(AllImageCuts(d))
      BY <1>1, <3>2, WhatHolds, ReportedFacts
    <3>4. min_g' = min_g /\ lower_bound' = lower_bound
      BY <1>2, <3>1, <3>2, <3>3 DEF ExpandFrontier, Kept
    <3>5. QED
      BY <1>2, <1>4, <1>5, <3>4
  <2>5. CASE \E d \in Searches : Inherited(d)
    <3>1. PICK d \in Searches : Inherited(d)
      BY <2>5
    <3>2. CASE BucketReady(d) \/ Prepare(d) \/ PrepareTruncated(d) \/ ExpandTruncated(d)
      <4>1. UNCHANGED <<lower_bound, min_g>>
        BY <3>2 DEF BucketReady, Prepare, PrepareTruncated, ExpandTruncated, engine
      <4>2. QED
        BY <1>2, <1>4, <1>5, <4>1
    <3>3. CASE Finish(d)
      <4>1. PICK y : y = Plus(GetG(frontier[d], open[d]), MinTransitionCost(task))
        OBVIOUS
      <4>2. /\ y \in Int /\ SetLowerBound(y)
            /\ UNCHANGED <<task, frontier, open, min_g>>
        BY <1>1, <3>3, <4>1, FinishBounds
      <4>3. x < y
        BY <1>2, <1>4, <1>5, <4>2 DEF SetLowerBound, GreaterOf
      <4>4. Stocked(d)
        BY <3>3 DEF Finish, Stocked
      <4>5. DirectionPassed(d, x)
        BY <1>1, <4>1, <4>3, <4>4, BoundsArePassed
      <4>6. QED
        BY <4>2, <4>5, PassedStays DEF IsPassed
    <3>4. QED
      BY <3>1, <3>2, <3>3 DEF Inherited
  <2>6. CASE Return
    <3>1. PICK y, z : /\ y = BidirectionalF
                      /\ z = Plus(GetG(frontier["fw"], open["fw"]), GetG(frontier["bw"], open["bw"]))
      OBVIOUS
    <3>2. /\ y \in Int /\ SetLowerBound(y) /\ z \in Int /\ SetMinG(z)
          /\ UNCHANGED <<task, frontier, open>>
      BY <1>1, <2>6, <3>1, ReturnBounds
    <3>3. lower_bound' = GreaterOf(lower_bound, y) /\ min_g' = GreaterOf(min_g, z)
      BY <3>2 DEF SetLowerBound, SetMinG
    <3>4. x < y \/ x < z
      BY <1>2, <1>4, <1>5, <3>2, <3>3 DEF GreaterOf
    <3>6. Bidirectional /\ \A d \in Searches : Stocked(d)
      BY <1>1, <2>6 DEF Return, ListInv, Placed
    <3>7. IsPassed(x)
      BY <1>1, <3>1, <3>4, <3>6, BothBoundsArePassed
    <3>8. QED
      BY <3>2, <3>7, PassedStays
  <2>7. QED
    BY <1>8, <2>2, <2>3, <2>4, <2>5, <2>6 DEF SearchStep
<1>9. CASE UNCHANGED topkVars
  <2>1. UNCHANGED <<lower_bound, min_g, upper_bound, pc, registry, plan, task>>
    BY <1>9 DEF topkVars, allVars, vars, engine, control, registryVars
  <2>2. QED
    BY <1>2, <1>4, <1>5, <2>1
<1>10. QED
  BY <1>6, <1>7, <1>8, <1>9 DEF TopKNext, TopKDone

\* Whatever the bounds pass while the engine goes on, the directions have passed.
LEMMA RisingIsPassed ==
    ASSUME Driven, [TopKNext]_topkVars, GoingOn', NEW x \in Nat, x < Passed',
           GoingOn => Passed <= x
    PROVE  IsPassed(x)'
<1>1. Searched /\ EngineInv /\ PlansInv /\ Begun /\ IsFiniteSet(plan) /\ Fresh
  BY DEF Driven, Searched, ModeInv
<1>2. /\ GoingOn \/ (StartStep /\ pc = "init")
      /\ lower_bound' # INT_MAX
      /\ lower_bound' \in Nat /\ min_g' \in Nat
  BY <1>1, GoneOnBefore
<1>3. x < min_g' \/ x < lower_bound'
  BY <1>2 DEF Passed, GreaterOf
<1>4. CASE GoingOn
  <2>1. x < INT_MAX
    BY <1>1, BoundsRise
  <2>2. ASSUME NEW d \in Searches, NoMorePlans(d) PROVE FALSE
    <3>1. lower_bound \in Nat /\ lower_bound <= INT_MAX
      BY <1>1, BoundsRise
    <3>2. QED
      BY <1>2, <2>2, <3>1 DEF NoMorePlans, SetLowerBound, GreaterOf
  <2>3. QED
    BY <1>2, <1>4, <2>1, <2>2, RaisedIsPassed
<1>5. CASE ~GoingOn /\ StartStep /\ pc = "init"
  <2>1. /\ lower_bound' = lower_bound /\ min_g' = min_g
        /\ UNCHANGED <<task, frontier, open>> /\ registry = "idle"
    BY <1>1, <1>2, <1>5, StartStepFacts
  <2>3. /\ min_g = 0 /\ lower_bound = MinTransitionCost(task)
        /\ \A d \in Searches : frontier[d] = [g |-> 0, phase |-> "filter", states |-> Source(task, d)]
    BY <1>1, <1>5, <2>1 DEF Fresh
  <2>4. x < MinTransitionCost(task)
    BY <1>3, <2>1, <2>3
  <2>5. PICK d : d \in Searches
    BY SearchesAssumption
  <2>6. frontier[d].phase = "filter" /\ frontier[d].g = 0
    <3>1. frontier[d] = [g |-> 0, phase |-> "filter", states |-> Source(task, d)]
      BY <2>3, <2>5
    <3>2. QED
      BY <3>1
  <2>7. MinTransitionCost(task) \in Nat
    BY <1>1, SearchedFacts
  <2>8. x < frontier[d].g + MinTransitionCost(task)
    BY <2>4, <2>6, <2>7
  <2>9. IsPassed(x)
    BY <2>5, <2>6, <2>8 DEF IsPassed, DirectionPassed
  <2>10. QED
    BY <2>1, <2>9, PassedStays
<1>6. QED
  BY <1>2, <1>4, <1>5

\* The same in one formula.
HandledIfPassed ==
    Searched => \A p, w, l : \A m \in Nat :
        /\ Course(p, w, l) /\ l[Len(p)] < INT_MAX
        /\ CutsInv(m) /\ m <= l[Len(p)] /\ IsPassed(l[Len(p)])
        => Handled(w, l, Len(p))

\* That is what PassedIsHandled says.
LEMMA HandledIfPassedHolds == HandledIfPassed
<1>1. ASSUME Searched, NEW p, NEW w, NEW l, NEW m \in Nat, Course(p, w, l), l[Len(p)] < INT_MAX,
             CutsInv(m), m <= l[Len(p)], IsPassed(l[Len(p)])
      PROVE  Handled(w, l, Len(p))
  <2>1. PICK n : n = Len(p)
    OBVIOUS
  <2>2. l[n] < INT_MAX /\ m <= l[n] /\ IsPassed(l[n])
    BY <1>1, <2>1
  <2>3. Handled(w, l, n)
    BY <1>1, <2>1, <2>2, PassedIsHandled
  <2>4. QED
    BY <2>1, <2>3
<1>2. QED
  BY <1>1 DEF HandledIfPassed

\* The course of a plan only depends on the task.
LEMMA StableCourse ==
    ASSUME task' = task, NEW p, NEW w, NEW l
    PROVE  Course(p, w, l)' <=> Course(p, w, l)
<1>1. PlanCost(p)' = PlanCost(p)
  BY Stable
<1>2. QED
  BY <1>1 DEF Course, OperatorSeqs, Operators

\* The costs on the course of a plan are levels if the whole cost fits an int.
LEMMA CourseLevels ==
    ASSUME Searched, NEW p, NEW w, NEW l, Course(p, w, l), l[Len(p)] < INT_MAX,
           NEW i \in 0 .. Len(p), NEW j \in 0 .. Len(p), i <= j
    PROVE  /\ Len(p) \in Nat
           /\ l[i] \in Level /\ l[i] \in Nat /\ l[j] \in Nat /\ l[i] <= l[j] /\ l[j] <= l[Len(p)]
           /\ l[Len(p)] \in Nat /\ l[Len(p)] - l[i] \in Level /\ l[j] \in Level
           /\ l[Len(p)] - l[j] \in Level
<1>1. TaskOK /\ IsTask(task)
  BY SearchedFacts
<1>2. PICK n : n = Len(p)
  OBVIOUS
<1>3. n \in Nat /\ Walk("fw", w, l, n)
  BY <1>1, <1>2, CourseIsWalk
<1>4. "fw" \in Dir
  BY DEF Dir
<1>5. n \in 0 .. n /\ i \in 0 .. n /\ j \in 0 .. n /\ i <= n /\ j <= n
  BY <1>2, <1>3
<1>6. l[i] \in Nat /\ l[j] \in Nat /\ l[i] <= l[j]
  BY <1>1, <1>3, <1>4, <1>5, WalkFacts
<1>7. l[n] \in Nat /\ l[j] <= l[n]
  BY <1>1, <1>3, <1>4, <1>5, WalkFacts
<1>8. l[n] < INT_MAX /\ INT_MAX \in Nat /\ \A k : k \in Level <=> k \in Nat /\ k <= INT_MAX
  BY <1>2, SearchedFacts
<1>9. PICK a, b, c : a = l[i] /\ b = l[j] /\ c = l[n]
  OBVIOUS
<1>10. a \in Level /\ b \in Level /\ c - a \in Level /\ c - b \in Level
  BY <1>6, <1>7, <1>8, <1>9, SMTT(30)
<1>11. QED
  BY <1>2, <1>3, <1>6, <1>7, <1>9, <1>10

\* Closed lists only grow.
LEMMA ClosedGrowsNext ==
    ASSUME EngineInv, PlansInv, [TopKNext]_topkVars
    PROVE  ClosedGrows
BY TopKStepKinds DEF Resting, Filtered, Popping, Imaging, ClosedGrows

\* What a plan has closed on its way remains closed.
LEMMA TracesStay ==
    ASSUME Searched, ClosedGrows, NEW p, NEW w, NEW l, Course(p, w, l), l[Len(p)] < INT_MAX,
           NEW i \in 0 .. Len(p)
    PROVE  /\ w[i] \in closed["fw"][l[i]] => w[i] \in closed'["fw"][l[i]]
           /\ w[i] \in closed["bw"][l[Len(p)] - l[i]] => w[i] \in closed'["bw"][l[Len(p)] - l[i]]
<1>1. i <= i
  OBVIOUS
<1>2. l[i] \in Level /\ l[Len(p)] - l[i] \in Level
  BY <1>1, CourseLevels
<1>3. QED
  BY <1>2 DEF ClosedGrows, Dir

\* A plan that is cut remains so while the cuts are there.
LEMMA HandledStays ==
    ASSUME Searched, ClosedGrows, NEW p, NEW w, NEW l, Course(p, w, l), l[Len(p)] < INT_MAX,
           Handled(w, l, Len(p)), \A c \in sym_cuts : RegisteredIn(c, sym_cuts')
    PROVE  Handled(w, l, Len(p))'
<1>1. PICK n : n = Len(p)
  OBVIOUS
<1>2. n \in Nat /\ n = Len(p)
  BY <1>1, SearchedFacts, CourseIsWalk
<1>3. Handled(w, l, n)
  BY <1>1
<1>4. PICK j \in Joints(n) :
          /\ \A i \in 0 .. j - 1 : w[i] \in closed["fw"][l[i]]
          /\ \A i \in j + 1 .. n : w[i] \in closed["bw"][l[n] - l[i]]
          /\ \E sol \in sym_cuts : sol.g = l[j] /\ sol.h = l[n] - l[j] /\ w[j] \in sol.cut
  BY <1>3 DEF Handled
<1>5. j \in 0 .. n
  BY <1>2 DEF Joints
<1>6. ASSUME NEW i \in 0 .. j - 1 PROVE w[i] \in closed'["fw"][l[i]]
  <2>1. i \in 0 .. n
    BY <1>2, <1>5
  <2>2. QED
    BY <1>1, <1>4, <2>1, TracesStay
<1>7. ASSUME NEW i \in j + 1 .. n PROVE w[i] \in closed'["bw"][l[n] - l[i]]
  <2>1. i \in 0 .. n
    BY <1>2, <1>5
  <2>2. QED
    BY <1>1, <1>4, <2>1, TracesStay
<1>8. \E sol \in sym_cuts' : sol.g = l[j] /\ sol.h = l[n] - l[j] /\ w[j] \in sol.cut
  BY <1>4 DEF RegisteredIn
<1>9. Handled(w, l, n)'
  BY <1>6, <1>7, <1>8 DEF Handled
<1>10. QED
  BY <1>1, <1>9

-----------------------------------------------------------------------------
(* The nodes that a plan is made of *)
\* A part of a sequence, and the element in front of it or behind it.
LEMMA PartCons ==
    ASSUME NEW I, NEW p \in Seq(I), NEW i \in 1 .. Len(p), NEW j \in 0 .. Len(p), i <= j
    PROVE  /\ p[i] \in I /\ SubSeq(p, i + 1, j) \in Seq(I)
           /\ <<p[i]>> \o SubSeq(p, i + 1, j) = SubSeq(p, i, j)
<1>1. j \in i .. Len(p) /\ p[i] \in I
  OBVIOUS
<1>2. SubSeq(p, i, j) = <<p[i]>> \o SubSeq(p, i + 1, j)
  BY <1>1, SubSeqRecursiveFirst
<1>3. SubSeq(p, i + 1, j) \in Seq(I)
  <2>1. i + 1 \in Int /\ j \in Int /\ \A k \in i + 1 .. j : p[k] \in I
    OBVIOUS
  <2>2. QED
    BY <2>1, SubSeqProperties
<1>4. QED
  BY <1>1, <1>2, <1>3

\* The part of a plan that is one operator longer.
LEMMA PartAppend ==
    ASSUME NEW I, NEW p \in Seq(I), NEW j \in 0 .. Len(p) - 1
    PROVE  /\ p[j + 1] \in I /\ SubSeq(p, 1, j) \in Seq(I)
           /\ Append(SubSeq(p, 1, j), p[j + 1]) = SubSeq(p, 1, j + 1)
<1>1. Len(p) \in Nat /\ j \in Nat /\ j + 1 \in 1 .. Len(p) /\ p[j + 1] \in I
  OBVIOUS
<1>2. PICK r, s : r = SubSeq(p, 1, j) /\ s = SubSeq(p, 1, j + 1)
  OBVIOUS
<1>3. r \in Seq(I) /\ Len(r) = j /\ \A k \in 1 .. j : r[k] = p[k]
  BY <1>1, <1>2
<1>4. s \in Seq(I) /\ Len(s) = j + 1 /\ \A k \in 1 .. j + 1 : s[k] = p[k]
  BY <1>1, <1>2
<1>5. Append(r, p[j + 1]) \in Seq(I) /\ Len(Append(r, p[j + 1])) = j + 1
  BY <1>1, <1>3
<1>6. ASSUME NEW k \in 1 .. j + 1 PROVE Append(r, p[j + 1])[k] = s[k]
  BY <1>1, <1>3, <1>4
<1>7. Append(r, p[j + 1]) = s
  BY <1>1, <1>4, <1>5, <1>6
<1>8. QED
  BY <1>1, <1>2, <1>3, <1>7

\* The whole and the empty part.
LEMMA PartEnds ==
    ASSUME NEW I, NEW p \in Seq(I)
    PROVE  /\ SubSeq(p, 1, Len(p)) = p /\ SubSeq(p, 1, 0) = <<>>
           /\ \A j \in 0 .. Len(p) : SubSeq(p, j + 1, j) = <<>>
<1>1. \A j \in Int : SubSeq(p, j + 1, j) = <<>>
  BY SubSeqEmpty
<1>2. SubSeq(p, 1, 0) = <<>>
  BY SubSeqEmpty
<1>3. QED
  BY <1>1, <1>2, SubSeqFull

\* What the plan goes through in front of place i, and behind place j, is closed.
TracedTo(w, l, i) == \A k \in 0 .. i - 1 : w[k] \in closed["fw"][l[k]]
TracedFrom(w, l, n, j) == \A k \in j + 1 .. n : w[k] \in closed["bw"][l[n] - l[k]]

\* If plans are to be simple, no state outside of the places i to j has been visited.
UnseenBut(node, w, n, i, j) ==
    task.simple => \A k \in 0 .. n : k \notin i .. j => w[k] \notin node.visited

\* In the first phase, a node has the operators of a plan from place i to place j,
CoversFwd(node, p, w, l, i, j) ==
    /\ node.fwd /\ i <= j
    /\ "bw" \notin Searches => j = Len(p)
    /\ Bidirectional => i > 0
    /\ node.prefix = SubSeq(p, i + 1, j) /\ node.suffix = <<>>
    /\ PlanCost(node.prefix) = l[j] - l[i]
    /\ w[i] \in node.states /\ node.g = l[i] /\ node.h = l[Len(p)] - l[j]
    /\ TracedTo(w, l, i) /\ TracedFrom(w, l, Len(p), j)

\* ... in the second phase, it has those up to place j.
CoversBwd(node, p, w, l, j) ==
    /\ ~node.fwd /\ node.g = 0
    /\ node.prefix \o node.suffix = SubSeq(p, 1, j)
    /\ PlanCost(node.prefix \o node.suffix) = l[j]
    /\ w[j] \in node.states /\ node.h = l[Len(p)] - l[j]
    /\ TracedFrom(w, l, Len(p), j)

\* So the plan is among those that the node will become.
Covers(node, p, w, l) ==
    \/ \E i, j \in 0 .. Len(p) : CoversFwd(node, p, w, l, i, j) /\ UnseenBut(node, w, Len(p), i + 1, j)
    \/ \E j \in 0 .. Len(p) : CoversBwd(node, p, w, l, j) /\ UnseenBut(node, w, Len(p), 0, j)

\* The same of a node that has been narrowed to the state at place i or j.
CoversTaken(node, p, w, l) ==
    \/ \E i, j \in 0 .. Len(p) : CoversFwd(node, p, w, l, i, j) /\ UnseenBut(node, w, Len(p), i, j)
    \/ \E j \in 0 .. Len(p) : CoversBwd(node, p, w, l, j) /\ UnseenBut(node, w, Len(p), 0, j)

\* The first of the layers of a direction are its sources.
LEMMA SourcesAreStarts ==
    ASSUME Searched, NEW d \in Searches
    PROVE  Source(task, d) \subseteq StartStates(d)
<1>1. EngineInv /\ ListInv
  BY DEF Searched
<1>2. d \in Dir
  BY SearchesAssumption
<1>3. CASE HasZeroCost(task)
  BY <1>1, <1>3 DEF EngineInv, LayerInv, StartStates
<1>4. CASE ~HasZeroCost(task)
  <2>1. StartStates(d) = closed[d][0]
    BY <1>1, <1>4 DEF EngineInv, LayerInv, StartStates
  <2>2. QED
    BY <1>1, <1>2, <2>1 DEF ListInv
<1>5. QED
  BY <1>3, <1>4

\* A search starts where the plan does, or where it may end.
LEMMA StartsOfBoth ==
    ASSUME Searched
    PROVE  /\ "fw" \in Searches => StartStates("fw") = {task.init}
           /\ "bw" \in Searches => StartStates("bw") = task.goal
<1>1. Found
  BY SearchedFacts
<1>2. ASSUME "fw" \in Searches PROVE StartStates("fw") = {task.init}
  BY <1>1, <1>2, FoundFacts, SourcesAreStarts DEF Source
<1>3. ASSUME "bw" \in Searches PROVE StartStates("bw") = task.goal
  BY <1>1, <1>3, FoundFacts, SourcesAreStarts DEF Source
<1>4. QED
  BY <1>2, <1>3

\* A node that is split for simple plans: the part with the state of the plan
\* covers it, or the rest does.
LEMMA SplitCovers ==
    ASSUME Searched, NEW p, NEW w, NEW l, Course(p, w, l), NEW f \in Nat,
           NEW top \in queue, NodeInv(top, f), Covers(top, p, w, l), NEW states \in Picked(top)
    PROVE  \/ CoversTaken(Narrowed(top, states), p, w, l)
           \/ \E node \in Waiting(top, states) : Covers(node, p, w, l)
<1>1. PICK n : n = Len(p)
  OBVIOUS
<1>2. PICK node : node = Narrowed(top, states)
  OBVIOUS
<1>3. PICK rest : rest = [top EXCEPT !.states = @ \ states]
  OBVIOUS
<1>4. top \in NodeType
  BY DEF NodeInv
<1>5. /\ node.fwd = top.fwd /\ node.prefix = top.prefix /\ node.suffix = top.suffix
      /\ node.g = top.g /\ node.h = top.h /\ node.states = states
      /\ node.visited = IF task.simple THEN top.visited \cup states ELSE top.visited
  BY <1>2, <1>4 DEF Narrowed, NodeType
<1>6. /\ rest.fwd = top.fwd /\ rest.prefix = top.prefix /\ rest.suffix = top.suffix
      /\ rest.g = top.g /\ rest.h = top.h /\ rest.states = top.states \ states
      /\ rest.visited = top.visited
  BY <1>3, <1>4 DEF NodeType
<1>7. rest.states # {} => rest \in Waiting(top, states)
  BY <1>3 DEF Waiting
<1>8. n \in Nat
  BY <1>1, SearchedFacts, CourseIsWalk
<1>9. task.simple => \E s \in top.states : states = {s}
  BY DEF Picked
<1>10. ~task.simple => states = top.states
  BY DEF Picked
<1>11. task.simple => \A i, j \in 0 .. n : w[i] = w[j] => i = j
  BY <1>1 DEF Course
<1>12. CASE \E i, j \in 0 .. n : CoversFwd(top, p, w, l, i, j) /\ UnseenBut(top, w, n, i + 1, j)
  <2>1. PICK i \in 0 .. n, j \in 0 .. n : CoversFwd(top, p, w, l, i, j) /\ UnseenBut(top, w, n, i + 1, j)
    BY <1>12
  <2>2. w[i] \in top.states
    BY <2>1 DEF CoversFwd
  <2>3. CASE w[i] \in states
    <3>1. CoversFwd(node, p, w, l, i, j)
      BY <1>5, <2>1, <2>3 DEF CoversFwd
    <3>2. UnseenBut(node, w, n, i, j)
      <4>1. SUFFICES ASSUME task.simple, NEW k \in 0 .. n, k \notin i .. j PROVE w[k] \notin node.visited
        BY DEF UnseenBut
      <4>2. k \notin i + 1 .. j /\ k # i
        <5>1. i <= j
          BY <2>1 DEF CoversFwd
        <5>2. QED
          BY <1>8, <4>1, <5>1
      <4>3. w[k] \notin top.visited
        BY <2>1, <4>1, <4>2 DEF UnseenBut
      <4>4. states = {w[i]}
        BY <1>9, <2>3, <4>1
      <4>5. w[k] # w[i]
        BY <1>11, <4>1, <4>2
      <4>6. QED
        BY <1>5, <4>1, <4>3, <4>4, <4>5
    <3>3. QED
      BY <1>1, <1>2, <3>1, <3>2 DEF CoversTaken
  <2>4. CASE w[i] \notin states
    <3>1. w[i] \in rest.states
      BY <1>6, <2>2, <2>4
    <3>2. CoversFwd(rest, p, w, l, i, j) /\ UnseenBut(rest, w, n, i + 1, j)
      BY <1>6, <2>1, <3>1 DEF CoversFwd, UnseenBut
    <3>3. Covers(rest, p, w, l)
      BY <1>1, <3>2 DEF Covers
    <3>4. QED
      BY <1>7, <3>1, <3>3
  <2>5. QED
    BY <2>3, <2>4
<1>13. CASE \E j \in 0 .. n : CoversBwd(top, p, w, l, j) /\ UnseenBut(top, w, n, 0, j)
  <2>1. PICK j \in 0 .. n : CoversBwd(top, p, w, l, j) /\ UnseenBut(top, w, n, 0, j)
    BY <1>13
  <2>2. w[j] \in top.states
    BY <2>1 DEF CoversBwd
  <2>3. CASE w[j] \in states
    <3>1. CoversBwd(node, p, w, l, j)
      BY <1>5, <2>1, <2>3 DEF CoversBwd
    <3>2. UnseenBut(node, w, n, 0, j)
      <4>1. SUFFICES ASSUME task.simple, NEW k \in 0 .. n, k \notin 0 .. j PROVE w[k] \notin node.visited
        BY DEF UnseenBut
      <4>2. k # j
        BY <1>8, <4>1
      <4>3. w[k] \notin top.visited
        BY <2>1, <4>1 DEF UnseenBut
      <4>4. states = {w[j]}
        BY <1>9, <2>3, <4>1
      <4>5. w[k] # w[j]
        BY <1>11, <4>1, <4>2
      <4>6. QED
        BY <1>5, <4>1, <4>3, <4>4, <4>5
    <3>3. QED
      BY <1>1, <1>2, <3>1, <3>2 DEF CoversTaken
  <2>4. CASE w[j] \notin states
    <3>1. w[j] \in rest.states
      BY <1>6, <2>2, <2>4
    <3>2. CoversBwd(rest, p, w, l, j) /\ UnseenBut(rest, w, n, 0, j)
      BY <1>6, <2>1, <3>1 DEF CoversBwd, UnseenBut
    <3>3. Covers(rest, p, w, l)
      BY <1>1, <3>2 DEF Covers
    <3>4. QED
      BY <1>7, <3>1, <3>3
  <2>5. QED
    BY <2>3, <2>4
<1>14. QED
  BY <1>1, <1>12, <1>13 DEF Covers

\* If plans are to be simple and two directions are searched, free operators
\* may lead the first phase to the initial state with more operators to come.
AllPlansKept == task.simple /\ Bidirectional => ~HasZeroCost(task)

\* The operator in front of what a node has is tried, and leads to the state of
\* the plan before it.
LEMMA GoesBack ==
    ASSUME Searched, NEW p, NEW w, NEW l, Course(p, w, l), NEW f \in Nat, NEW node, NodeInv(node, f),
           NEW i \in 1 .. Len(p), NEW j \in 0 .. Len(p), CoversFwd(node, p, w, l, i, j),
           UnseenBut(node, w, Len(p), i, j), NEW new, new = NewNode(node, p[i])
    PROVE  /\ NodeInv(new, f)
           /\ p[i] \in DOMAIN task.operators
           /\ Unvisited(node, ClosedStep(node, p[i])) # {}
           /\ new.fwd /\ new.suffix = <<>> /\ new.prefix = SubSeq(p, i, j)
           /\ new.prefix \in OperatorSeqs
           /\ PlanCost(new.prefix) = l[j] - l[i - 1]
           /\ new.g = l[i - 1] /\ new.h = l[Len(p)] - l[j] /\ w[i - 1] \in new.states
           /\ new.visited = node.visited
<1>1. Found /\ TaskOK /\ IsTask(task)
  BY SearchedFacts
<1>2. p \in Seq(Operators) /\ Len(p) \in Nat
  BY <1>1, CourseIsWalk DEF Course, OperatorSeqs
<1>3. i <= j
  BY DEF CoversFwd
<1>4. PICK op, before : op = p[i] /\ before = i - 1
  OBVIOUS
<1>5. op \in Operators /\ before \in 0 .. Len(p) /\ before \notin i .. j
  BY <1>2, <1>4, PartCons
<1>6. /\ <<w[before], w[i]>> \in task.operators[op].rel
      /\ l[i] = l[before] + task.operators[op].cost
  BY <1>4 DEF Course
<1>7. l[before] \in Nat /\ l[i] \in Nat /\ l[j] \in Nat /\ w[before] \in State /\ l[Len(p)] \in Nat
  BY <1>2, <1>5 DEF Course
<1>8. task.operators[op].cost \in Nat
  BY <1>1, <1>5, OperatorFacts
<1>9. w[before] \in closed["fw"][l[before]]
  <2>1. before \in 0 .. i - 1
    BY <1>2, <1>4
  <2>2. QED
    BY <2>1 DEF CoversFwd, TracedTo
<1>10. node.g - task.operators[op].cost = l[before]
  BY <1>6, <1>7, <1>8 DEF CoversFwd
<1>11. w[before] \in ClosedStep(node, op)
  <2>1. node.fwd /\ w[i] \in node.states
    BY DEF CoversFwd
  <2>2. w[before] \in RegressOperator(op, node.states)
    BY <1>6, <1>7, <2>1 DEF RegressOperator
  <2>3. ~(l[before] < 0)
    BY <1>7
  <2>4. QED
    BY <1>9, <1>10, <2>1, <2>2, <2>3 DEF ClosedStep
<1>12. w[before] \in Unvisited(node, ClosedStep(node, op))
  BY <1>5, <1>11 DEF Unvisited, UnseenBut
<1>13. /\ new.fwd = node.fwd /\ new.visited = node.visited
       /\ new.states = Unvisited(node, ClosedStep(node, op))
       /\ new.g = node.g - task.operators[op].cost /\ new.h = node.h
       /\ new.prefix = <<op>> \o node.prefix /\ new.suffix = node.suffix
  <2>1. node.fwd /\ ClosedStep(node, op) # {} /\ new = NewNode(node, op)
    BY <1>4, <1>11 DEF CoversFwd
  <2>2. PICK m : m = NewNode(node, op)
    OBVIOUS
  <2>3. /\ m.fwd = node.fwd /\ m.visited = node.visited
        /\ m.states = Unvisited(node, ClosedStep(node, op))
        /\ m.g = node.g - task.operators[op].cost /\ m.h = node.h
        /\ m.prefix = <<op>> \o node.prefix /\ m.suffix = node.suffix
    BY <1>1, <1>5, <2>1, <2>2, NewNodeFields
  <2>4. QED
    BY <2>1, <2>2, <2>3
<1>14. NodeInv(new, f)
  BY <1>1, <1>4, <1>5, <1>11, NewNodeInv
<1>15. new.prefix = SubSeq(p, i, j) /\ node.prefix \in Seq(Operators)
  <2>1. node.prefix = SubSeq(p, i + 1, j)
    BY DEF CoversFwd
  <2>2. QED
    BY <1>2, <1>3, <1>4, <1>13, <2>1, PartCons
<1>16. PlanCost(new.prefix) = PlanCost(node.prefix) + task.operators[op].cost
  <2>1. {task.init} \in StateSets
    BY <1>1, FoundFacts
  <2>2. QED
    BY <1>1, <1>5, <1>13, <1>15, <2>1, ConsRun
<1>17. PlanCost(new.prefix) = l[j] - l[before]
  <2>1. PlanCost(node.prefix) = l[j] - l[i]
    BY DEF CoversFwd
  <2>2. QED
    BY <1>6, <1>7, <1>8, <1>16, <2>1
<1>18. new.prefix \in OperatorSeqs
  BY <1>14 DEF NodeInv, NodeType
<1>19. node.fwd /\ node.suffix = <<>> /\ node.h = l[Len(p)] - l[j]
  BY DEF CoversFwd
<1>20. w[before] \in new.states /\ new.g = l[before]
  BY <1>10, <1>12, <1>13
<1>21. /\ op \in DOMAIN task.operators /\ Unvisited(node, ClosedStep(node, op)) # {}
  BY <1>5, <1>12 DEF Operators
<1>22. QED
  BY <1>4, <1>13, <1>14, <1>15, <1>17, <1>18, <1>19, <1>20, <1>21, Zenon

\* A plan leads to the states on its course.
LEMMA CoursePlaces ==
    ASSUME Searched, NEW p, NEW w, NEW l, Course(p, w, l), NEW j \in 0 .. Len(p)
    PROVE  w[j] \in RunPlan({task.init}, SubSeq(p, 1, j))
<1>1. Found /\ TaskOK /\ IsTask(task)
  BY SearchedFacts
<1>2. p \in Seq(Operators) /\ Len(p) \in Nat
  BY <1>1, CourseIsWalk DEF Course, OperatorSeqs
<1>3. {task.init} \in StateSets
  BY <1>1, FoundFacts
<1>4. PICK f : Chain(f, StateSets, Applying, {task.init}, p)
  BY <1>1, <1>2, <1>3, RunPlanChain
<1>5. RunPlan({task.init}, SubSeq(p, 1, j)) = f[j]
  BY <1>1, <1>2, <1>3, <1>4, PartOfRun
<1>6. \A k \in 0 .. Len(p) : w[k] \in f[k]
  <2>1. SUFFICES ASSUME \E k \in Nat : k \in 0 .. Len(p) /\ w[k] \notin f[k] PROVE FALSE
    BY <1>2
  <2>2. PICK k \in Nat : /\ k \in 0 .. Len(p) /\ w[k] \notin f[k]
                         /\ \A m \in Nat : m \in 0 .. Len(p) /\ w[m] \notin f[m] => k <= m
    <3>1. PICK S : S = {k \in Nat : k \in 0 .. Len(p) /\ w[k] \notin f[k]}
      OBVIOUS
    <3>2. S \in SUBSET Nat /\ S # {}
      BY <2>1, <3>1
    <3>3. \E k \in S : \A m \in S : k <= m
      BY <3>2, NatHasLeast
    <3>4. QED
      BY <3>1, <3>3
  <2>3. f[0] = {task.init} /\ w[0] = task.init
    BY <1>4 DEF Chain, Course
  <2>4. k # 0
    BY <2>2, <2>3
  <2>5. k \in 1 .. Len(p) /\ k - 1 \in Nat /\ k - 1 \in 0 .. Len(p)
    BY <1>2, <2>2, <2>4
  <2>6. w[k - 1] \in f[k - 1]
    BY <2>2, <2>5
  <2>7. f[k] = Applying[p[k]][f[k - 1]] /\ f[k - 1] \in StateSets
    BY <1>4, <2>5 DEF Chain
  <2>8. p[k] \in Operators
    BY <1>2, <2>5
  <2>9. f[k] = ApplyOperator(p[k], f[k - 1])
    BY <2>7, <2>8 DEF Applying
  <2>10. <<w[k - 1], w[k]>> \in task.operators[p[k]].rel /\ w[k] \in State
    BY <2>2, <2>5 DEF Course
  <2>11. w[k] \in f[k]
    BY <2>6, <2>9, <2>10 DEF ApplyOperator
  <2>12. QED
    BY <2>2, <2>11
<1>7. QED
  BY <1>5, <1>6

\* So a node of the first phase is extended to one that still covers the plan.
LEMMA FwdExtends ==
    ASSUME Searched, AllPlansKept, NEW p, NEW w, NEW l, Course(p, w, l), NEW f \in Nat,
           NEW node, NodeInv(node, f),
           NEW i \in 1 .. Len(p), NEW j \in 0 .. Len(p), CoversFwd(node, p, w, l, i, j),
           UnseenBut(node, w, Len(p), i, j)
    PROVE  \E n \in ExpandAllActions(node) : Covers(n, p, w, l)
<1>1. PICK new, before : new = NewNode(node, p[i]) /\ before = i - 1
  OBVIOUS
<1>2. /\ NodeInv(new, f)
      /\ p[i] \in DOMAIN task.operators
      /\ Unvisited(node, ClosedStep(node, p[i])) # {}
      /\ new.fwd /\ new.suffix = <<>> /\ new.prefix = SubSeq(p, i, j)
      /\ new.prefix \in OperatorSeqs
      /\ PlanCost(new.prefix) = l[j] - l[before]
      /\ new.g = l[before] /\ new.h = l[Len(p)] - l[j] /\ w[before] \in new.states
      /\ new.visited = node.visited
  BY <1>1, GoesBack
<1>3. /\ Pushed(new) \in ExpandAllActions(node)
      /\ SwapToBwdPhase(new) /\ HasZeroCost(task) /\ ~task.simple => new \in ExpandAllActions(node)
  BY <1>1, <1>2 DEF ExpandAllActions
<1>4. Len(p) \in Nat /\ before \in 0 .. Len(p) /\ before + 1 = i /\ i \in Nat /\ i # 0 /\ j \in Nat
  BY <1>1, SearchedFacts, CourseIsWalk
<1>5. i <= j /\ ("bw" \notin Searches => j = Len(p)) /\ TracedFrom(w, l, Len(p), j)
  BY DEF CoversFwd
<1>6. TracedTo(w, l, before)
  <2>1. TracedTo(w, l, i)
    BY DEF CoversFwd
  <2>2. 0 .. before - 1 \subseteq 0 .. i - 1
    BY <1>1, <1>4
  <2>3. QED
    BY <2>1, <2>2 DEF TracedTo
<1>7. ASSUME Bidirectional => before > 0 PROVE Covers(new, p, w, l)
  <2>1. CoversFwd(new, p, w, l, before, j)
    <3>1. new.prefix = SubSeq(p, before + 1, j)
      BY <1>2, <1>4
    <3>2. before <= j
      BY <1>4, <1>5
    <3>3. QED
      BY <1>2, <1>5, <1>6, <1>7, <3>1, <3>2 DEF CoversFwd
  <2>2. UnseenBut(new, w, Len(p), before + 1, j)
    BY <1>2, <1>4 DEF UnseenBut
  <2>3. QED
    BY <1>4, <2>1, <2>2 DEF Covers
<1>8. CASE ~SwapToBwdPhase(new)
  <2>1. Pushed(new) = new
    BY <1>8 DEF Pushed
  <2>2. Bidirectional => before > 0
    <3>1. SUFFICES ASSUME Bidirectional, before = 0 PROVE FALSE
      BY <1>4
    <3>2. w[before] = task.init /\ l[before] = 0
      BY <3>1 DEF Course
    <3>3. task.init \in StartStates("fw")
      BY <3>1, StartsOfBoth DEF Bidirectional, Dir
    <3>4. SwapToBwdPhase(new)
      BY <1>2, <3>1, <3>2, <3>3 DEF SwapToBwdPhase
    <3>5. QED
      BY <1>8, <3>4
  <2>3. QED
    BY <1>3, <1>7, <2>1, <2>2
<1>9. CASE SwapToBwdPhase(new) /\ before > 0
  <2>1. Bidirectional /\ l[before] = 0
    BY <1>2, <1>9 DEF SwapToBwdPhase
  <2>2. HasZeroCost(task)
    <3>1. TaskOK /\ IsTask(task) /\ "fw" \in Dir
      BY SearchedFacts DEF Dir
    <3>2. Walk("fw", w, l, Len(p))
      BY <3>1, CourseIsWalk
    <3>3. 1 \in 0 .. Len(p) /\ 1 \in 1 .. Len(p) /\ 1 <= before /\ 0 \in 0 .. Len(p) /\ 1 - 1 = 0
      BY <1>4, <1>9
    <3>4. l[1] \in Nat /\ l[1] <= l[before]
      BY <1>4, <3>1, <3>2, <3>3, WalkFacts
    <3>5. l[1] = 0 /\ l[0] = 0
      BY <2>1, <3>4 DEF Course
    <3>6. PICK c \in DOMAIN task.ops : c \in Nat /\ l[1] = l[0] + c
      <4>1. \E c \in DOMAIN task.ops :
               c \in Nat /\ Edge(task, "fw", c, w[1 - 1], w[1]) /\ l[1] = l[1 - 1] + c
        BY <3>2, <3>3 DEF Walk
      <4>2. QED
        BY <3>3, <4>1
    <3>7. c = 0
      BY <3>5, <3>6
    <3>8. QED
      <4>1. MinTransitionCost(task) <= c /\ MinTransitionCost(task) \in Nat
        BY SearchedFacts
      <4>2. MinTransitionCost(task) = 0
        BY <3>7, <4>1
      <4>3. QED
        BY <4>2 DEF HasZeroCost
  <2>3. ~task.simple
    BY <2>1, <2>2 DEF AllPlansKept
  <2>4. QED
    BY <1>3, <1>7, <1>9, <2>2, <2>3
<1>10. CASE SwapToBwdPhase(new) /\ before = 0
  <2>1. PICK m : m = [new EXCEPT !.fwd = FALSE, !.layer = INT_MAX,
                          !.states = RunPlan(StartStates("fw"), new.prefix),
                          !.visited = IF task.simple THEN @ \cup StartStates("fw") ELSE @]
    OBVIOUS
  <2>2. Pushed(new) = m
    BY <1>10, <2>1 DEF Pushed
  <2>3. new \in NodeType
    BY <1>2 DEF NodeInv
  <2>4. /\ ~m.fwd /\ m.g = new.g /\ m.h = new.h /\ m.prefix = new.prefix /\ m.suffix = new.suffix
        /\ m.states = RunPlan(StartStates("fw"), new.prefix)
        /\ m.visited = IF task.simple THEN new.visited \cup StartStates("fw") ELSE new.visited
    BY <2>1, <2>3 DEF NodeType
  <2>5. w[before] = task.init /\ l[before] = 0 /\ i = 1
    BY <1>4, <1>10 DEF Course
  <2>6. StartStates("fw") = {task.init}
    BY <1>10, StartsOfBoth DEF SwapToBwdPhase, Bidirectional, Dir
  <2>7. w[j] \in RunPlan({task.init}, SubSeq(p, 1, j))
    BY CoursePlaces
  <2>8. m.prefix \o m.suffix = SubSeq(p, 1, j)
    <3>1. new.prefix \o <<>> = new.prefix
      BY <1>2, ConcatEmptySeq DEF OperatorSeqs
    <3>2. QED
      BY <1>2, <2>4, <2>5, <3>1
  <2>9. PlanCost(m.prefix \o m.suffix) = l[j]
    <3>1. l[j] \in Nat
      BY <1>4 DEF Course
    <3>2. PlanCost(SubSeq(p, 1, j)) = l[j] - 0
      BY <1>2, <2>5
    <3>3. QED
      BY <2>8, <3>1, <3>2
  <2>10. CoversBwd(m, p, w, l, j)
    BY <1>2, <1>5, <2>4, <2>5, <2>6, <2>7, <2>8, <2>9 DEF CoversBwd
  <2>11. UnseenBut(m, w, Len(p), 0, j)
    <3>1. SUFFICES ASSUME task.simple, NEW k \in 0 .. Len(p), k \notin 0 .. j PROVE w[k] \notin m.visited
      BY DEF UnseenBut
    <3>2. k \notin i .. j /\ k # before
      BY <1>4, <1>10, <2>5, <3>1
    <3>3. w[k] \notin node.visited
      BY <3>1, <3>2 DEF UnseenBut
    <3>4. w[k] # w[before]
      BY <1>4, <3>1, <3>2 DEF Course
    <3>5. QED
      BY <1>2, <2>4, <2>5, <2>6, <3>1, <3>3, <3>4
  <2>12. Covers(m, p, w, l)
    BY <2>10, <2>11 DEF Covers
  <2>13. QED
    BY <1>3, <2>2, <2>12
<1>11. QED
  BY <1>4, <1>8, <1>9, <1>10

\* A node of the second phase is extended by the next operator of the plan.
LEMMA BwdExtends ==
    ASSUME Searched, NEW p, NEW w, NEW l, Course(p, w, l), NEW f \in Nat,
           NEW node, NodeInv(node, f),
           NEW j \in 0 .. Len(p) - 1, CoversBwd(node, p, w, l, j), UnseenBut(node, w, Len(p), 0, j)
    PROVE  \E n \in ExpandAllActions(node) : Covers(n, p, w, l)
<1>1. Found /\ TaskOK /\ IsTask(task)
  BY SearchedFacts
<1>2. p \in Seq(Operators) /\ Len(p) \in Nat
  BY <1>1, CourseIsWalk DEF Course, OperatorSeqs
<1>3. PICK op, next, new : op = p[j + 1] /\ next = j + 1 /\ new = NewNode(node, op)
  OBVIOUS
<1>4. /\ op \in Operators /\ next \in 1 .. Len(p) /\ next \in 0 .. Len(p) /\ next - 1 = j
      /\ j \in 0 .. Len(p) /\ next \notin 0 .. j /\ j \in Nat
  BY <1>2, <1>3, PartAppend
<1>5. /\ <<w[j], w[next]>> \in task.operators[op].rel
      /\ l[next] = l[j] + task.operators[op].cost
  <2>1. /\ <<w[next - 1], w[next]>> \in task.operators[p[next]].rel
        /\ l[next] = l[next - 1] + task.operators[p[next]].cost
    BY <1>4 DEF Course
  <2>2. QED
    BY <1>3, <1>4, <2>1
<1>6. /\ l[j] \in Nat /\ l[next] \in Nat /\ l[Len(p)] \in Nat /\ w[next] \in State
      /\ task.operators[op].cost \in Nat /\ Len(p) \in 0 .. Len(p)
  BY <1>1, <1>2, <1>4, OperatorFacts DEF Course
<1>7. l[next] <= l[Len(p)]
  <2>1. Walk("fw", w, l, Len(p)) /\ "fw" \in Dir /\ next <= Len(p)
    BY <1>1, <1>2, <1>4, CourseIsWalk DEF Dir
  <2>2. QED
    BY <1>1, <1>2, <1>4, <1>6, <2>1, WalkFacts
<1>8. /\ ~node.fwd /\ node.g = 0 /\ node.prefix \o node.suffix = SubSeq(p, 1, j)
      /\ PlanCost(node.prefix \o node.suffix) = l[j]
      /\ w[j] \in node.states /\ node.h = l[Len(p)] - l[j]
      /\ TracedFrom(w, l, Len(p), j)
  BY DEF CoversBwd
<1>9. w[next] \in closed["bw"][l[Len(p)] - l[next]]
  <2>1. next \in j + 1 .. Len(p)
    BY <1>3, <1>4
  <2>2. QED
    BY <1>8, <2>1 DEF TracedFrom
<1>10. node.h - task.operators[op].cost = l[Len(p)] - l[next] /\ ~(l[Len(p)] - l[next] < 0)
  BY <1>5, <1>6, <1>7, <1>8
<1>11. w[next] \in ClosedStep(node, op)
  <2>1. w[next] \in ApplyOperator(op, node.states)
    BY <1>5, <1>6, <1>8 DEF ApplyOperator
  <2>2. QED
    BY <1>8, <1>9, <1>10, <2>1 DEF ClosedStep
<1>12. w[next] \in Unvisited(node, ClosedStep(node, op))
  BY <1>4, <1>11 DEF Unvisited, UnseenBut
<1>13. /\ new.fwd = node.fwd /\ new.visited = node.visited
       /\ new.states = Unvisited(node, ClosedStep(node, op))
       /\ new.h = node.h - task.operators[op].cost /\ new.g = node.g
       /\ new.suffix = Append(node.suffix, op) /\ new.prefix = node.prefix
  <2>1. ~node.fwd /\ ClosedStep(node, op) # {} /\ op \in Operators
    BY <1>4, <1>8, <1>11
  <2>2. PICK m : m = NewNode(node, op)
    OBVIOUS
  <2>3. /\ m.fwd = node.fwd /\ m.visited = node.visited
        /\ m.states = Unvisited(node, ClosedStep(node, op))
        /\ m.h = node.h - task.operators[op].cost /\ m.g = node.g
        /\ m.suffix = Append(node.suffix, op) /\ m.prefix = node.prefix
    BY <1>1, <2>1, <2>2, NewNodeFields
  <2>4. new = m
    BY <1>3, <2>2
  <2>5. QED
    BY <2>3, <2>4
<1>14. Pushed(new) = new
  BY <1>8, <1>13 DEF Pushed, SwapToBwdPhase
<1>15. new \in ExpandAllActions(node)
  BY <1>3, <1>4, <1>12, <1>14 DEF ExpandAllActions, Operators
<1>16. node.prefix \in Seq(Operators) /\ node.suffix \in Seq(Operators)
  BY DEF NodeInv, NodeType, OperatorSeqs
<1>17. new.prefix \o new.suffix = Append(node.prefix \o node.suffix, op)
  <2>1. op \in Operators
    BY <1>4
  <2>2. PICK a, b : a = node.prefix /\ b = node.suffix
    OBVIOUS
  <2>3. a \in Seq(Operators) /\ b \in Seq(Operators)
    BY <1>16, <2>2
  <2>4. a \o Append(b, op) = Append(a \o b, op)
    BY <2>1, <2>3, AppendToConcat
  <2>5. QED
    BY <1>13, <2>2, <2>4
<1>18. new.prefix \o new.suffix = SubSeq(p, 1, next)
  BY <1>2, <1>3, <1>8, <1>17, PartAppend
<1>19. PlanCost(new.prefix \o new.suffix) = l[next]
  <2>1. {task.init} \in StateSets /\ node.prefix \o node.suffix \in Seq(Operators)
    BY <1>1, <1>16, FoundFacts, ConcatProperties
  <2>2. PlanCost(Append(node.prefix \o node.suffix, op)) =
            PlanCost(node.prefix \o node.suffix) + task.operators[op].cost
    BY <1>1, <1>4, <2>1, AppendRun
  <2>3. QED
    BY <1>5, <1>8, <1>17, <2>2
<1>20. TracedFrom(w, l, Len(p), next)
  <2>1. next + 1 .. Len(p) \subseteq j + 1 .. Len(p)
    BY <1>2, <1>3, <1>4
  <2>2. QED
    BY <1>8, <2>1 DEF TracedFrom
<1>21. new.h = l[Len(p)] - l[next] /\ w[next] \in new.states /\ new.g = 0 /\ ~new.fwd
  BY <1>8, <1>10, <1>12, <1>13
<1>22. CoversBwd(new, p, w, l, next)
  BY <1>18, <1>19, <1>20, <1>21 DEF CoversBwd
<1>23. UnseenBut(new, w, Len(p), 0, next)
  <2>1. 0 .. j \subseteq 0 .. next
    BY <1>2, <1>3, <1>4
  <2>2. QED
    BY <1>13, <2>1 DEF UnseenBut
<1>24. Covers(new, p, w, l)
  BY <1>4, <1>22, <1>23 DEF Covers
<1>25. QED
  BY <1>15, <1>24

\* A node that covers a plan and has nothing left to add is that plan.
LEMMA CoveredToTheEnd ==
    ASSUME Searched, NEW p, NEW w, NEW l, Course(p, w, l), NEW node, node \in NodeType,
           \/ \E j \in 0 .. Len(p) : CoversFwd(node, p, w, l, 0, j)
           \/ CoversBwd(node, p, w, l, Len(p)) /\ "bw" \in Searches,
           node.fwd => "fw" \in Searches
    PROVE  IsSolution(node) /\ node.prefix \o node.suffix = p
<1>1. Found /\ TaskOK /\ IsTask(task)
  BY SearchedFacts
<1>2. p \in Seq(Operators) /\ Len(p) \in Nat
  BY <1>1, CourseIsWalk DEF Course, OperatorSeqs
<1>3. node.prefix \in Seq(Operators)
  BY DEF NodeType, OperatorSeqs
<1>4. l[0] = 0 /\ w[0] = task.init /\ w[Len(p)] \in task.goal /\ l[Len(p)] \in Nat
  BY <1>2 DEF Course
<1>5. CASE \E j \in 0 .. Len(p) : CoversFwd(node, p, w, l, 0, j)
  <2>1. PICK j \in 0 .. Len(p) : CoversFwd(node, p, w, l, 0, j)
    BY <1>5
  <2>2. ~Bidirectional /\ node.fwd
    BY <2>1 DEF CoversFwd
  <2>3. "bw" \notin Searches /\ j = Len(p)
    <3>1. "bw" \notin Searches
      BY <1>1, <2>2, FoundFacts
    <3>2. QED
      BY <2>1, <3>1 DEF CoversFwd
  <2>4. /\ node.g = 0 /\ node.h = l[Len(p)] - l[Len(p)] /\ w[0] \in node.states
        /\ node.prefix = SubSeq(p, 0 + 1, Len(p)) /\ node.suffix = <<>>
    BY <1>4, <2>1, <2>3 DEF CoversFwd
  <2>5. F(node) = 0
    BY <1>4, <2>4 DEF F
  <2>6. task.init \in StartStates("fw")
    BY <2>2, StartsOfBoth
  <2>7. IsSolution(node)
    BY <1>4, <2>2, <2>4, <2>5, <2>6 DEF IsSolution
  <2>8. node.prefix = p
    BY <1>2, <2>4, PartEnds
  <2>9. node.prefix \o node.suffix = p
    BY <1>3, <2>4, <2>8, ConcatEmptySeq
  <2>10. QED
    BY <2>7, <2>9
<1>6. CASE CoversBwd(node, p, w, l, Len(p)) /\ "bw" \in Searches
  <2>1. /\ ~node.fwd /\ node.g = 0 /\ node.h = l[Len(p)] - l[Len(p)] /\ w[Len(p)] \in node.states
        /\ node.prefix \o node.suffix = SubSeq(p, 1, Len(p))
    BY <1>6 DEF CoversBwd
  <2>2. F(node) = 0
    BY <1>4, <2>1 DEF F
  <2>3. w[Len(p)] \in StartStates("bw")
    BY <1>4, <1>6, StartsOfBoth
  <2>4. IsSolution(node)
    BY <2>1, <2>2, <2>3 DEF IsSolution
  <2>5. QED
    BY <1>2, <2>1, <2>4, PartEnds
<1>7. QED
  BY <1>5, <1>6

\* A node that has been taken and covers a plan is extended to one that does,
\* unless it is that plan.
LEMMA TakenExpands ==
    ASSUME Searched, AllPlansKept, NEW p, NEW w, NEW l, Course(p, w, l), NEW f \in Nat,
           NEW node, NodeInv(node, f), CoversTaken(node, p, w, l)
    PROVE  \/ \E n \in ExpandAllActions(node) : Covers(n, p, w, l)
           \/ IsSolution(node) /\ node.prefix \o node.suffix = p
<1>1. Len(p) \in Nat
  BY SearchedFacts, CourseIsWalk
<1>2. node \in NodeType /\ (node.fwd => "fw" \in Searches) /\ (~node.fwd => "bw" \in Searches)
  BY DEF NodeInv, FwdNode, BwdNode
<1>3. CASE \E i, j \in 0 .. Len(p) :
              CoversFwd(node, p, w, l, i, j) /\ UnseenBut(node, w, Len(p), i, j)
  <2>1. PICK i \in 0 .. Len(p), j \in 0 .. Len(p) :
           CoversFwd(node, p, w, l, i, j) /\ UnseenBut(node, w, Len(p), i, j)
    BY <1>3
  <2>2. CASE i = 0
    <3>1. \E k \in 0 .. Len(p) : CoversFwd(node, p, w, l, 0, k)
      BY <2>1, <2>2
    <3>2. QED
      BY <1>2, <3>1, CoveredToTheEnd
  <2>3. CASE i # 0
    <3>1. i \in 1 .. Len(p)
      BY <1>1, <2>3
    <3>2. QED
      BY <2>1, <3>1, FwdExtends
  <2>4. QED
    BY <2>2, <2>3
<1>4. CASE \E j \in 0 .. Len(p) :
              CoversBwd(node, p, w, l, j) /\ UnseenBut(node, w, Len(p), 0, j)
  <2>1. PICK j \in 0 .. Len(p) :
           CoversBwd(node, p, w, l, j) /\ UnseenBut(node, w, Len(p), 0, j)
    BY <1>4
  <2>2. CASE j = Len(p)
    <3>1. CoversBwd(node, p, w, l, Len(p)) /\ "bw" \in Searches
      <4>1. ~node.fwd
        BY <2>1 DEF CoversBwd
      <4>2. QED
        BY <1>2, <2>1, <2>2, <4>1
    <3>2. QED
      BY <1>2, <3>1, CoveredToTheEnd
  <2>3. CASE j # Len(p)
    <3>1. j \in 0 .. Len(p) - 1
      BY <1>1, <2>3
    <3>2. QED
      BY <2>1, <3>1, BwdExtends
  <2>4. QED
    BY <2>2, <2>3
<1>5. QED
  BY <1>3, <1>4 DEF CoversTaken

\* The cut of a plan is one of those that reconstruction starts from.
LEMMA CutIsCovered ==
    ASSUME Searched, NEW p, NEW w, NEW l, Course(p, w, l), NEW cuts, NEW sol \in cuts,
           NEW j \in Joints(Len(p)), TracedTo(w, l, j), TracedFrom(w, l, Len(p), j),
           sol.g = l[j], sol.h = l[Len(p)] - l[j], w[j] \in sol.cut
    PROVE  \E node \in InitialNodes(cuts) : Covers(node, p, w, l)
<1>1. PICK n : n = Len(p)
  OBVIOUS
<1>2. /\ Found /\ TaskOK /\ n \in Nat /\ p \in Seq(Operators)
      /\ l[0] = 0 /\ w[0] = task.init /\ l[n] \in Nat
  BY <1>1, SearchedFacts, CourseIsWalk DEF Course, OperatorSeqs
<1>3. /\ j \in 0 .. n /\ l[j] \in Nat
      /\ ~Bidirectional => j = (IF "fw" \in Searches THEN n ELSE 0)
  <2>1. j \in 0 .. n /\ (~Bidirectional => j = (IF "fw" \in Searches THEN n ELSE 0))
    BY <1>1, <1>2 DEF Joints
  <2>2. QED
    BY <1>1, <2>1 DEF Course
<1>4. PICK start : start = [g |-> sol.g, h |-> sol.h, layer |-> INT_MAX, states |-> sol.cut,
                            visited |-> {}, fwd |-> "fw" \in Searches,
                            prefix |-> <<>>, suffix |-> <<>>]
  OBVIOUS
<1>5. start \in InitialNodes(cuts)
  BY <1>4 DEF InitialNodes
<1>6. PlanCost(<<>>) = 0 /\ <<>> \o <<>> = <<>>
  <2>1. {task.init} \in StateSets
    BY <1>2, FoundFacts
  <2>2. PlanCost(<<>>) = 0
    BY <1>2, <2>1, EmptyRun
  <2>3. QED
    BY <2>2
<1>7. "fw" \in Searches /\ "bw" \in Searches <=> Bidirectional
  BY <1>2, FoundFacts
<1>8. CASE "fw" \in Searches /\ (Bidirectional => j > 0)
  <2>1. start.prefix = SubSeq(p, j + 1, j) /\ start.suffix = <<>>
    BY <1>1, <1>2, <1>3, <1>4, PartEnds
  <2>2. /\ start.fwd /\ start.g = l[j] /\ start.h = l[n] - l[j] /\ w[j] \in start.states
        /\ start.prefix = <<>>
    BY <1>1, <1>4, <1>8
  <2>3. PlanCost(start.prefix) = l[j] - l[j] /\ j <= j
    BY <1>3, <1>6, <2>2
  <2>4. "bw" \notin Searches => j = n
    BY <1>3, <1>7, <1>8
  <2>5. CoversFwd(start, p, w, l, j, j)
    BY <1>1, <1>8, <2>1, <2>2, <2>3, <2>4 DEF CoversFwd
  <2>6. UnseenBut(start, w, n, j + 1, j)
    BY <1>4 DEF UnseenBut
  <2>7. Covers(start, p, w, l)
    BY <1>1, <1>3, <2>5, <2>6 DEF Covers
  <2>8. QED
    BY <1>5, <2>7
<1>9. CASE "fw" \in Searches /\ Bidirectional /\ ~(j > 0)
  <2>1. j = 0 /\ sol.g = 0 /\ w[0] \in sol.cut
    BY <1>2, <1>3, <1>9
  <2>2. StartStates("fw") = {task.init}
    BY <1>9, StartsOfBoth
  <2>3. SwapToBwdPhase(start)
    <3>1. start.fwd /\ start.g = 0 /\ w[0] \in start.states
      BY <1>4, <1>9, <2>1
    <3>2. QED
      BY <1>2, <1>9, <2>2, <3>1 DEF SwapToBwdPhase
  <2>4. PICK node : node = [start EXCEPT !.states = StartStates("fw"),
                                         !.visited = StartStates("fw"), !.fwd = FALSE]
    OBVIOUS
  <2>5. node \in InitialNodes(cuts)
    BY <1>4, <2>3, <2>4 DEF InitialNodes
  <2>6. /\ ~node.fwd /\ node.g = 0 /\ node.h = l[n] - l[0] /\ node.states = {w[0]}
        /\ node.visited = {w[0]} /\ node.prefix = <<>> /\ node.suffix = <<>>
    BY <1>1, <1>2, <1>4, <2>1, <2>2, <2>4
  <2>7. SubSeq(p, 1, 0) = <<>>
    BY <1>2, PartEnds
  <2>8. PlanCost(node.prefix \o node.suffix) = l[0]
    BY <1>2, <1>6, <2>6
  <2>9. CoversBwd(node, p, w, l, 0)
    BY <1>1, <1>6, <2>1, <2>6, <2>7, <2>8 DEF CoversBwd
  <2>10. UnseenBut(node, w, n, 0, 0)
    <3>1. SUFFICES ASSUME task.simple, NEW k \in 0 .. n, k \notin 0 .. 0 PROVE w[k] \notin node.visited
      BY DEF UnseenBut
    <3>2. k # 0 /\ 0 \in 0 .. n
      BY <1>2, <3>1
    <3>3. w[k] # w[0]
      BY <1>1, <3>1, <3>2 DEF Course
    <3>4. QED
      BY <2>6, <3>3
  <2>11. Covers(node, p, w, l)
    BY <1>1, <1>3, <2>1, <2>9, <2>10 DEF Covers
  <2>12. QED
    BY <2>5, <2>11
<1>10. CASE "fw" \notin Searches
  <2>1. j = 0
    BY <1>3, <1>7, <1>10
  <2>2. /\ ~start.fwd /\ start.g = l[0] /\ start.h = l[n] - l[0] /\ w[0] \in start.states
        /\ start.prefix = <<>> /\ start.suffix = <<>>
    BY <1>1, <1>4, <1>10, <2>1
  <2>3. SubSeq(p, 1, 0) = <<>>
    BY <1>2, PartEnds
  <2>4. PlanCost(start.prefix \o start.suffix) = l[0]
    BY <1>2, <1>6, <2>2
  <2>5. CoversBwd(start, p, w, l, 0)
    BY <1>1, <1>2, <1>6, <2>1, <2>2, <2>3, <2>4 DEF CoversBwd
  <2>6. UnseenBut(start, w, n, 0, 0)
    BY <1>4 DEF UnseenBut
  <2>7. Covers(start, p, w, l)
    BY <1>1, <1>3, <2>1, <2>5, <2>6 DEF Covers
  <2>8. QED
    BY <1>5, <2>7
<1>11. QED
  BY <1>8, <1>9, <1>10

\* The plan data base does not want a plan that it has not wanted before.
LEMMA ConsideredStays ==
    ASSUME Driven, [TopKNext]_topkVars, NEW p, PlanCost(p) \in Int, Considered(p)
    PROVE  Considered(p)'
<1>0. EngineInv /\ PlansInv /\ IsFiniteSet(plan) /\ MostExpensiveIsLargest
  BY DEF Driven, Searched, ModeInv
<1>1. task' = task /\ plan \subseteq plan' /\ rejected \subseteq rejected'
  BY <1>0, PlanGrows, EveryStepIsOnward DEF Onward
<1>2. PlanCost(p)' = PlanCost(p)
  BY <1>1, Stable
<1>3. CASE HasAcceptedPlan(p)
  <2>1. PICK q \in plan : SamePlan(p, q)
    BY <1>3 DEF HasAcceptedPlan
  <2>2. SamePlan(p, q)' /\ q \in plan'
    BY <1>1, <2>1 DEF SamePlan
  <2>3. QED
    BY <2>2 DEF Considered, HasAcceptedPlan
<1>4. CASE p \in rejected
  BY <1>1, <1>4 DEF Considered
<1>5. CASE task.selector = "iterative_cost" /\ PlanCost(p) <= MostExpensive(plan)
  <2>1. PICK x, y : x = MostExpensive(plan) /\ y = MostExpensive(plan)'
    OBVIOUS
  <2>2. x \in Int /\ y \in Int /\ x <= y
    BY <1>0, <2>1, PlansStayFinite
  <2>3. PlanCost(p)' <= y
    BY <1>2, <1>5, <2>1, <2>2
  <2>4. QED
    BY <1>1, <1>5, <2>1, <2>3 DEF Considered
<1>6. QED
  BY <1>3, <1>4, <1>5 DEF Considered

\* A plan that the engine has just passed is cut.
LEMMA NewlyPassed ==
    ASSUME Driven, CutsKept, [TopKNext]_topkVars, GoingOn', NEW p, NEW w, NEW l, Course(p, w, l),
           l[Len(p)] < Passed', GoingOn => Passed <= l[Len(p)]
    PROVE  Handled(w, l, Len(p))' /\ l[Len(p)] < INT_MAX
<1>0. EngineInv /\ PlansInv /\ Searched /\ Begun /\ IsFiniteSet(plan) /\ ListInv
  BY DEF Driven, Searched, ModeInv
<1>1. PICK m \in Nat : /\ CutsInv(m)' /\ m <= Passed'
                       /\ GoingOn => m = Passed
                       /\ ~GoingOn => m = 0 /\ StartStep /\ pc = "init"
  BY CutsBehind
<1>2. PICK x : x = l[Len(p)]
  OBVIOUS
<1>3. x \in Nat
  BY <1>0, <1>2, SearchedFacts, CourseIsWalk DEF Course
<1>4. m <= x
  BY <1>1, <1>2, <1>3
<1>5. IsPassed(x)'
  BY <1>2, <1>3, RisingIsPassed
<1>6. Searched'
  BY <1>0, TopKInvNext, ListInvNext DEF Searched
<1>7. x < INT_MAX
  <2>1. /\ min_g' \in Nat /\ min_g' <= INT_MAX /\ lower_bound' \in Nat /\ lower_bound' <= INT_MAX
        /\ INT_MAX \in Nat
    <3>1. EngineTypeOK'
      BY <1>6 DEF Searched, EngineInv, TypeOK
    <3>2. QED
      BY <3>1, LevelFacts DEF EngineTypeOK
  <2>2. x < Passed'
    BY <1>2
  <2>3. QED
    BY <1>3, <2>1, <2>2 DEF Passed, GreaterOf
<1>8. task' = task /\ Course(p, w, l)'
  BY <1>0, PlanGrows, StableCourse
<1>9. HandledIfPassed'
  BY HandledIfPassedHolds, PTL
<1>10. Handled(w, l, Len(p))'
  BY <1>1, <1>2, <1>4, <1>5, <1>6, <1>7, <1>8, <1>9 DEF HandledIfPassed
<1>11. QED
  BY <1>2, <1>7, <1>10

\* The cost of a plan is what its course says.
LEMMA CourseCost ==
    ASSUME Searched, NEW p, NEW w, NEW l, Course(p, w, l)
    PROVE  /\ Len(p) \in Nat /\ l[Len(p)] \in Nat /\ PlanCost(p) = l[Len(p)]
           /\ p \in OperatorSeqs
<1>1. Len(p) \in Nat
  BY SearchedFacts, CourseIsWalk
<1>2. QED
  BY <1>1 DEF Course

\* Nothing but the closed lists matters for what a node covers.
LEMMA StableCovers ==
    ASSUME UNCHANGED <<task, closed>>, NEW node, NEW p, NEW w, NEW l
    PROVE  Covers(node, p, w, l)' <=> Covers(node, p, w, l)
<1>1. \A ops : PlanCost(ops)' = PlanCost(ops)
  BY Stable
<1>2. \A i, j : /\ CoversFwd(node, p, w, l, i, j)' <=> CoversFwd(node, p, w, l, i, j)
                /\ CoversBwd(node, p, w, l, j)' <=> CoversBwd(node, p, w, l, j)
                /\ UnseenBut(node, w, Len(p), i, j)' <=> UnseenBut(node, w, Len(p), i, j)
  BY <1>1, ZenonT(30) DEF CoversFwd, CoversBwd, UnseenBut, TracedTo, TracedFrom
<1>3. QED
  BY <1>2 DEF Covers

\* A node that covers a plan is to become plans of its cost.
LEMMA CoversCost ==
    ASSUME Searched, NEW p, NEW w, NEW l, Course(p, w, l), NEW f \in Nat, NEW node,
           NodeInv(node, f), Covers(node, p, w, l)
    PROVE  l[Len(p)] = f
<1>1. PICK n : n = Len(p) /\ n \in Nat /\ l[n] \in Nat
  BY CourseCost
<1>2. \A i \in 0 .. n : l[i] \in Nat
  BY <1>1 DEF Course
<1>3. CASE \E i, j \in 0 .. n : CoversFwd(node, p, w, l, i, j)
  <2>1. PICK i \in 0 .. n, j \in 0 .. n : CoversFwd(node, p, w, l, i, j)
    BY <1>3
  <2>2. node.g + node.h + PlanCost(node.prefix) = f
    BY <2>1 DEF CoversFwd, NodeInv, FwdNode
  <2>3. node.g = l[i] /\ node.h = l[n] - l[j] /\ PlanCost(node.prefix) = l[j] - l[i]
    BY <1>1, <2>1 DEF CoversFwd
  <2>4. l[i] \in Nat /\ l[j] \in Nat
    BY <1>2
  <2>5. QED
    BY <1>1, <2>2, <2>3, <2>4
<1>4. CASE \E j \in 0 .. n : CoversBwd(node, p, w, l, j)
  <2>1. PICK j \in 0 .. n : CoversBwd(node, p, w, l, j)
    BY <1>4
  <2>2. node.h + PlanCost(node.prefix \o node.suffix) = f
    BY <2>1 DEF CoversBwd, NodeInv, BwdNode
  <2>3. node.h = l[n] - l[j] /\ PlanCost(node.prefix \o node.suffix) = l[j]
    BY <1>1, <2>1 DEF CoversBwd
  <2>4. l[j] \in Nat
    BY <1>2
  <2>5. QED
    BY <1>1, <2>2, <2>3, <2>4
<1>5. QED
  BY <1>1, <1>3, <1>4 DEF Covers

\* A plan that is added need not be seen again.
LEMMA AddedIsConsidered ==
    ASSUME Driven, [TopKNext]_topkVars, NEW p, PlanCost(p) \in Int, AddPlan(p)
    PROVE  Considered(p)'
<1>1. CASE Considered(p)
  BY <1>1, ConsideredStays
<1>2. CASE ~Considered(p)
  <2>1. ~HasAcceptedPlan(p) /\ task.selector \in Selectors
    <3>1. HasSelector(task)
      BY WhatHolds, OptionFacts DEF Driven, Searched
    <3>2. QED
      BY <1>2, <3>1 DEF Considered, HasSelector
  <2>2. CASE Acceptable(p)
    <3>1. p \in plan'
      BY <2>1, <2>2 DEF AddPlan
    <3>2. SamePlan(p, p)'
      BY DEF SamePlan
    <3>3. QED
      BY <3>1, <3>2 DEF Considered, HasAcceptedPlan
  <2>3. CASE ~Acceptable(p) /\ task.selector # "iterative_cost"
    <3>1. p \in rejected'
      BY <2>1, <2>3 DEF AddPlan
    <3>2. QED
      BY <3>1 DEF Considered
  <2>4. CASE ~Acceptable(p) /\ task.selector = "iterative_cost"
    <3>1. PICK x, y : x = PlanCost(p) /\ y = MostExpensive(plan)
      OBVIOUS
    <3>2. y \in Int /\ x \in Int
      BY <3>1, PlansStayFinite DEF Driven, Searched, ModeInv
    <3>3. ~(x > y)
      BY <2>4, <3>1 DEF Acceptable
    <3>4. x <= y
      BY <3>2, <3>3
    <3>5. QED
      BY <1>2, <2>4, <3>1, <3>4 DEF Considered
  <2>5. QED
    BY <2>2, <2>3, <2>4
<1>3. QED
  BY <1>1, <1>2

\* The cost of the most expensive plan that has been accepted in a step.
LEMMA MostExpensiveNext ==
    ASSUME task' = task
    PROVE  MostExpensive(plan)' = MostExpensive(plan')
<1>1. {PlanCost(p)' : p \in plan'} = {PlanCost(p) : p \in plan'}
  BY Stable
<1>2. QED
  BY <1>1 DEF MostExpensive

\* One iteration of reconstruct_plans takes the next step towards a plan that is
\* covered, adds it, or finds that no plan of its cost is wanted.
LEMMA CoveredGoesOn ==
    ASSUME Driven, AllPlansKept, ReconstructPlan, ~FoundEnoughPlans(plan)',
           NEW p, NEW w, NEW l, Course(p, w, l), NEW before \in queue, Covers(before, p, w, l)
    PROVE  Considered(p)' \/ \E node \in queue' : Covers(node, p, w, l)'
<1>0. EngineInv /\ PlansInv /\ Searched /\ [TopKNext]_topkVars
  BY DEF Driven, Searched, TopKNext
<1>1. /\ \E top \in {node \in Top(queue) : PlanLength(node) <= MaxPlanLength} :
            \E states \in Picked(top) : Reconstructs(top, states)
      /\ UNCHANGED <<vars, zeroCostClosed, last_g_cost, limit>>
  BY DEF ReconstructPlan, Reconstructs
<1>2. PICK top \in Top(queue) : \E states \in Picked(top) : Reconstructs(top, states)
  BY <1>1
<1>3. PICK states \in Picked(top) : Reconstructs(top, states)
  BY <1>2
<1>4. PICK node, found, goOn :
         /\ node = Narrowed(top, states)
         /\ found = node.prefix \o node.suffix
         /\ goOn = Waiting(top, states) \cup ExpandAllActions(node)
  OBVIOUS
<1>5. IF IsSolution(node)
      THEN /\ AddPlan(found)
           /\ queue' = IF ReconstructSolutions(plan', PlanCost(found)) THEN goOn ELSE {}
      ELSE /\ queue' = goOn
           /\ UNCHANGED <<plan, rejected>>
  BY <1>3, <1>4 DEF Reconstructs
<1>6. UNCHANGED <<task, closed>>
  BY <1>1 DEF vars, engine, search
<1>7. PICK f \in Nat : \A n \in queue : NodeInv(n, f)
  BY <1>0 DEF PlansInv, Promised
<1>8. top \in queue /\ Found
  BY <1>0, WhatHolds DEF Top
<1>9. NodeInv(node, f)
  BY <1>4, <1>7, <1>8, NarrowedNode
<1>10. l[Len(p)] = f /\ PlanCost(p) = f
  BY <1>0, <1>7, CoversCost, CourseCost
<1>11. (\E n \in goOn : Covers(n, p, w, l)) \/ (IsSolution(node) /\ found = p)
  <2>1. CASE before # top
    BY <1>4, <2>1 DEF Waiting
  <2>2. CASE before = top
    <3>1. \/ CoversTaken(node, p, w, l)
          \/ \E n \in Waiting(top, states) : Covers(n, p, w, l)
      BY <1>0, <1>4, <1>7, <1>8, <2>2, SplitCovers
    <3>2. CASE CoversTaken(node, p, w, l)
      <4>1. \/ \E n \in ExpandAllActions(node) : Covers(n, p, w, l)
            \/ IsSolution(node) /\ node.prefix \o node.suffix = p
        BY <1>0, <1>9, <3>2, TakenExpands
      <4>2. QED
        BY <1>4, <4>1
    <3>3. QED
      BY <1>4, <3>1, <3>2
  <2>3. QED
    BY <2>1, <2>2
<1>12. CASE IsSolution(node) /\ found = p
  <2>1. AddPlan(p)
    BY <1>5, <1>12
  <2>2. QED
    BY <1>0, <1>10, <2>1, AddedIsConsidered
<1>13. CASE queue' = goOn /\ \E n \in goOn : Covers(n, p, w, l)
  BY <1>6, <1>13, StableCovers
<1>14. CASE IsSolution(node) /\ ~ReconstructSolutions(plan', PlanCost(found))
  <2>1. PlanCost(found) = f
    BY <1>4, <1>8, <1>9, <1>14, SolutionsAreValid
  <2>2. ~FoundEnoughPlans(plan')
    BY <1>6 DEF FoundEnoughPlans
  <2>3. PICK y : y = MostExpensive(plan')
    OBVIOUS
  <2>4. task.selector = "iterative_cost" /\ ~(y < f)
    BY <1>14, <2>1, <2>2, <2>3 DEF ReconstructSolutions
  <2>5. MostExpensive(plan)' = y /\ y \in Int
    BY <1>0, <1>6, <2>3, MostExpensiveNext, PlansStayFinite DEF Driven, ModeInv
  <2>6. PlanCost(p)' = f
    BY <1>6, <1>10, Stable
  <2>7. f <= y
    BY <2>4, <2>5
  <2>8. QED
    BY <1>6, <2>4, <2>5, <2>6, <2>7 DEF Considered
<1>15. QED
  BY <1>5, <1>11, <1>12, <1>13, <1>14

\* The reconstruction of the cuts of one cost begins: a plan that is cut remains
\* so, or one of the first nodes covers it.
LEMMA HandledIsCovered ==
    ASSUME Driven, ConstructNext, NEW p, NEW w, NEW l, Course(p, w, l), l[Len(p)] < INT_MAX,
           Handled(w, l, Len(p))
    PROVE  Handled(w, l, Len(p))' \/ \E node \in queue' : Covers(node, p, w, l)'
<1>0. Searched
  BY DEF Driven
<1>1. PICK f, cuts : /\ f = Min({Cost(sol) : sol \in Due})
                     /\ cuts = {sol \in Due : Cost(sol) = f}
  OBVIOUS
<1>2. /\ queue' = InitialNodes(cuts) /\ sym_cuts' = sym_cuts \ cuts
      /\ UNCHANGED <<task, closed>>
  BY <1>1 DEF ConstructNext, search
<1>3. PICK n : n = Len(p)
  OBVIOUS
<1>4. PICK j \in Joints(n) :
          /\ \A i \in 0 .. j - 1 : w[i] \in closed["fw"][l[i]]
          /\ \A i \in j + 1 .. n : w[i] \in closed["bw"][l[n] - l[i]]
          /\ \E sol \in sym_cuts : sol.g = l[j] /\ sol.h = l[n] - l[j] /\ w[j] \in sol.cut
  BY <1>3 DEF Handled
<1>5. PICK sol \in sym_cuts : sol.g = l[j] /\ sol.h = l[n] - l[j] /\ w[j] \in sol.cut
  BY <1>4
<1>6. CASE sol \in cuts
  <2>1. TracedTo(w, l, j) /\ TracedFrom(w, l, n, j)
    BY <1>4 DEF TracedTo, TracedFrom
  <2>2. \E node \in InitialNodes(cuts) : Covers(node, p, w, l)
    BY <1>0, <1>3, <1>5, <1>6, <2>1, CutIsCovered
  <2>3. QED
    BY <1>2, <2>2, StableCovers
<1>7. CASE sol \notin cuts
  <2>1. sol \in sym_cuts'
    BY <1>2, <1>7
  <2>2. Handled(w, l, n)'
    BY <1>2, <1>4, <1>5, <2>1 DEF Handled
  <2>3. QED
    BY <1>3, <2>2
<1>8. QED
  BY <1>6, <1>7

-----------------------------------------------------------------------------
(* No plan is lost *)

\* A plan that is cut remains so while more plans are wanted, or is covered.
LEMMA HandledGoesOn ==
    ASSUME Driven, [TopKNext]_topkVars, ~FoundEnoughPlans(plan)', NEW p, NEW w, NEW l,
           Course(p, w, l), l[Len(p)] < INT_MAX, Handled(w, l, Len(p))
    PROVE  Handled(w, l, Len(p))' \/ \E node \in queue' : Covers(node, p, w, l)'
<1>0. Searched /\ EngineInv /\ PlansInv
  BY DEF Driven, Searched
<1>1. CASE ConstructNext
  BY <1>1, HandledIsCovered
<1>2. CASE ~ConstructNext
  <2>1. \A c \in sym_cuts : RegisteredIn(c, sym_cuts')
    <3>1. sym_cuts' = sym_cuts => \A c \in sym_cuts : RegisteredIn(c, sym_cuts')
      BY DEF RegisteredIn
    <3>2. CASE EndStep
      <4>1. ~FoundEnoughPlans(plan)
        BY <3>2 DEF EndStep, FoundEnoughPlans
      <4>2. sym_cuts' = sym_cuts
        BY <3>2, <4>1 DEF EndStep
      <4>3. QED
        BY <3>1, <4>2
    <3>3. CASE ReconstructPlan \/ UNCHANGED topkVars
      BY <3>1, <3>3 DEF ReconstructPlan, topkVars, allVars, vars, engine
    <3>4. CASE StartStep \/ SearchStep
      <4>1. registry = "idle"
        BY <3>4 DEF StartStep, SearchStep
      <4>2. CASE CutsStay
        BY <4>1, <4>2 DEF CutsStay
      <4>3. CASE \E d \in Searches : Filtered(d)
        BY <3>1, <4>3 DEF Filtered
      <4>4. CASE \E sols : ToldOf(sols)
        BY <4>4 DEF ToldOf
      <4>5. QED
        BY <1>0, <4>2, <4>3, <4>4, TopKStepKinds
    <3>5. QED
      BY <1>2, <3>2, <3>3, <3>4 DEF TopKNext, TopKDone
  <2>2. ClosedGrows
    BY <1>0, ClosedGrowsNext
  <2>3. QED
    BY <1>0, <2>1, <2>2, HandledStays
<1>3. QED
  BY <1>1, <1>2

\* Among the nodes that wait, one covers the plan.
Covered(p, w, l) == \E node \in queue : Covers(node, p, w, l)

\* A plan that has been passed has been seen, is cut, or is being put together.
Coming(p, w, l) == Considered(p) \/ Handled(w, l, Len(p)) \/ Covered(p, w, l)
NoneLost ==
    AllPlansKept /\ GoingOn =>
        \A p, w, l : Course(p, w, l) /\ l[Len(p)] < Passed => Coming(p, w, l)

\* What is coming keeps coming.
LEMMA ComingGoesOn ==
    ASSUME Driven, AllPlansKept, [TopKNext]_topkVars, ~FoundEnoughPlans(plan)',
           NEW p, NEW w, NEW l, Course(p, w, l), l[Len(p)] < INT_MAX, Coming(p, w, l)
    PROVE  Coming(p, w, l)'
<1>0. Searched /\ EngineInv /\ PlansInv
  BY DEF Driven, Searched
<1>1. CASE Considered(p)
  <2>1. PlanCost(p) \in Int
    BY <1>0, CourseCost
  <2>2. QED
    BY <1>1, <2>1, ConsideredStays DEF Coming
<1>2. CASE Handled(w, l, Len(p))
  <2>1. Handled(w, l, Len(p))' \/ \E node \in queue' : Covers(node, p, w, l)'
    BY <1>2, HandledGoesOn
  <2>2. QED
    BY <2>1 DEF Coming, Covered
<1>3. CASE Covered(p, w, l)
  <2>1. PICK node \in queue : Covers(node, p, w, l)
    BY <1>3 DEF Covered
  <2>2. registry = "reconstruct"
    BY <1>0, <2>1 DEF PlansInv
  <2>3. CASE ReconstructPlan
    <3>1. Considered(p)' \/ \E n \in queue' : Covers(n, p, w, l)'
      BY <2>1, <2>3, CoveredGoesOn
    <3>2. QED
      BY <3>1 DEF Coming, Covered
  <2>4. CASE UNCHANGED topkVars
    <3>1. UNCHANGED <<task, closed, queue>>
      BY <2>4 DEF topkVars, allVars, vars, engine, search, registryVars
    <3>2. Covers(node, p, w, l)' /\ node \in queue'
      BY <2>1, <3>1, StableCovers
    <3>3. QED
      BY <3>2 DEF Coming, Covered
  <2>5. QED
    BY <2>2, <2>3, <2>4 DEF TopKNext, TopKDone, StartStep, ConstructNext, EndStep, SearchStep
<1>4. QED
  BY <1>1, <1>2, <1>3 DEF Coming

\* NoneLost is inductive.
LEMMA NoneLostNext ==
    ASSUME Driven, CutsKept, NoneLost, [TopKNext]_topkVars
    PROVE  NoneLost'
<1>0. EngineInv /\ PlansInv /\ Begun /\ Searched /\ IsFiniteSet(plan)
  BY DEF Driven, Searched, ModeInv
<1>1. task' = task
  BY <1>0, PlanGrows
<1>2. SUFFICES ASSUME AllPlansKept', GoingOn', NEW p, NEW w, NEW l, Course(p, w, l)',
                      l[Len(p)] < Passed'
               PROVE  Coming(p, w, l)'
  BY DEF NoneLost
<1>3. AllPlansKept /\ Course(p, w, l)
  BY <1>1, <1>2, StableCourse DEF AllPlansKept
<1>4. PICK x, y : x = l[Len(p)] /\ y = Passed
  OBVIOUS
<1>5. x \in Nat /\ y \in Nat
  BY <1>0, <1>2, <1>3, <1>4, CourseCost, GoneOnBefore
<1>6. CASE GoingOn /\ x < y
  <2>1. Coming(p, w, l)
    BY <1>3, <1>4, <1>6 DEF NoneLost
  <2>2. l[Len(p)] < INT_MAX
    <3>1. /\ min_g \in Nat /\ min_g <= INT_MAX /\ lower_bound \in Nat /\ lower_bound <= INT_MAX
          /\ INT_MAX \in Nat
      BY <1>0, LevelFacts DEF EngineInv, TypeOK, EngineTypeOK
    <3>2. y <= INT_MAX
      BY <1>4, <3>1 DEF Passed, GreaterOf
    <3>3. QED
      BY <1>4, <1>5, <1>6, <3>1, <3>2
  <2>3. ~FoundEnoughPlans(plan)'
    BY <1>2 DEF GoingOn
  <2>4. QED
    BY <1>3, <2>1, <2>2, <2>3, ComingGoesOn
<1>7. CASE GoingOn => ~(x < y)
  <2>1. GoingOn => Passed <= l[Len(p)]
    BY <1>4, <1>5, <1>7
  <2>2. Handled(w, l, Len(p))'
    BY <1>2, <1>3, <2>1, NewlyPassed
  <2>3. QED
    BY <2>2 DEF Coming
<1>8. QED
  BY <1>6, <1>7

\* If the lower bound rises while the search runs, the driver is told.
LEMMA RisesAreTold ==
    ASSUME EngineInv, PlansInv, SearchStep, ~lower_bound_increased'
    PROVE  ~lower_bound_increased /\ (lower_bound' = lower_bound \/ lower_bound' = INT_MAX)
<1>1. INT_MAX \in Int
  BY LevelFacts
<1>2. CASE \E d \in Searches : NoMorePlans(d)
  BY <1>1, <1>2, SetLowerBoundRises DEF NoMorePlans
<1>3. CASE \E d \in Searches : PopBucket(d)
  BY <1>3, PopBounds
<1>4. CASE \E d \in Searches : ExpandFrontier(d)
  <2>1. PICK d \in Searches : ExpandFrontier(d)
    BY <1>4
  <2>2. PICK e \in Reported(d, AllImageCuts(d)) :
            /\ sym_cuts' = e.cuts /\ lower_bound' = e.lower /\ upper_bound' = e.upper
            /\ GoodCuts(AllImageCuts(d))
    BY <2>1, ExpandedTo
  <2>3. e \in Kept(AllImageCuts(d))
    BY <2>2, WhatHolds, ReportedFacts
  <2>4. lower_bound_increased' = lower_bound_increased
    BY <2>1 DEF ExpandFrontier
  <2>5. QED
    BY <2>2, <2>3, <2>4 DEF Kept
<1>5. CASE \E d \in Searches : Inherited(d)
  <2>1. PICK d \in Searches : Inherited(d)
    BY <1>5
  <2>2. CASE BucketReady(d) \/ Prepare(d) \/ PrepareTruncated(d) \/ ExpandTruncated(d)
    BY <2>2 DEF BucketReady, Prepare, PrepareTruncated, ExpandTruncated, engine
  <2>3. CASE Finish(d)
    BY <2>3, FinishBounds, SetLowerBoundRises
  <2>4. QED
    BY <2>1, <2>2, <2>3 DEF Inherited
<1>6. CASE Return
  BY <1>6, ReturnBounds, SetLowerBoundRises
<1>7. QED
  BY <1>2, <1>3, <1>4, <1>5, <1>6 DEF SearchStep

\* The engine has seen all plans of this cost: they cost less than the lower bound
\* that it has noticed, and than what is being constructed.
Sure(c) ==
    /\ c < lower_bound
    /\ IF registry = "idle" THEN ~lower_bound_increased ELSE ~(c < limit)
SureOfPlans ==
    AllPlansKept /\ GoingOn =>
        \A p, w, l : Course(p, w, l) /\ Sure(l[Len(p)]) => Considered(p)

\* When all cuts that are due have been taken apart, no plan of their costs is
\* missing.
LEMMA NoneLeftOver ==
    ASSUME Driven, AllPlansKept, GoingOn, NoneLost, registry = "construct", Due = {},
           NEW p, NEW w, NEW l, Course(p, w, l), l[Len(p)] < lower_bound, l[Len(p)] < limit
    PROVE  Considered(p)
<1>1. PICK n : n = Len(p)
  OBVIOUS
<1>2. /\ n \in Nat /\ l[n] \in Nat /\ Searched /\ EngineInv /\ PlansInv
      /\ \A k \in 0 .. n : l[k] \in Nat
  BY <1>1, CourseCost DEF Driven, Searched, Course
<1>3. l[n] < Passed
  <2>1. lower_bound \in Nat /\ min_g \in Nat
    BY <1>2, LevelFacts DEF EngineInv, TypeOK, EngineTypeOK
  <2>2. l[n] < lower_bound
    BY <1>1
  <2>3. QED
    BY <1>2, <2>1, <2>2 DEF Passed, GreaterOf
<1>4. Coming(p, w, l)
  BY <1>1, <1>3 DEF NoneLost
<1>5. ~Covered(p, w, l)
  BY <1>2 DEF Covered, PlansInv
<1>6. ~Handled(w, l, n)
  <2>1. SUFFICES ASSUME Handled(w, l, n) PROVE FALSE
    OBVIOUS
  <2>2. PICK j \in Joints(n) : \E sol \in sym_cuts : sol.g = l[j] /\ sol.h = l[n] - l[j]
    BY <2>1 DEF Handled
  <2>3. PICK sol \in sym_cuts : sol.g = l[j] /\ sol.h = l[n] - l[j]
    BY <2>2
  <2>4. j \in 0 .. n
    BY <1>2 DEF Joints
  <2>5. l[j] \in Nat
    BY <1>2, <2>4
  <2>6. Cost(sol) = l[n]
    BY <1>2, <2>3, <2>5 DEF Cost
  <2>7. sol \in Due
    BY <1>1, <2>3, <2>6 DEF Due
  <2>8. QED
    BY <2>7
<1>7. QED
  BY <1>1, <1>4, <1>5, <1>6 DEF Coming

\* SureOfPlans is inductive.
LEMMA SureOfPlansNext ==
    ASSUME Driven, NoneLost, SureOfPlans, [TopKNext]_topkVars
    PROVE  SureOfPlans'
<1>0. EngineInv /\ PlansInv /\ Begun /\ Searched /\ IsFiniteSet(plan) /\ ModeInv
  BY DEF Driven, Searched, ModeInv
<1>1. task' = task
  BY <1>0, PlanGrows
<1>2. SUFFICES ASSUME AllPlansKept', GoingOn', NEW p, NEW w, NEW l, Course(p, w, l)',
                      Sure(l[Len(p)])'
               PROVE  Considered(p)'
  BY DEF SureOfPlans
<1>3. AllPlansKept /\ Course(p, w, l)
  BY <1>1, <1>2, StableCourse DEF AllPlansKept
<1>4. PICK x : x = l[Len(p)]
  OBVIOUS
<1>5. x \in Nat /\ PlanCost(p) \in Int /\ Sure(x)'
  BY <1>0, <1>2, <1>3, <1>4, CourseCost
<1>6. /\ GoingOn \/ (StartStep /\ pc = "init")
      /\ lower_bound' # INT_MAX /\ lower_bound \in Nat
  BY <1>0, <1>2, GoneOnBefore
<1>7. GoingOn /\ (Sure(x) \/ Considered(p))
  <2>1. CASE StartStep
    <3>1. lower_bound' = lower_bound /\ registry = "idle" /\ registry' = "construct"
      BY <1>0, <1>6, <2>1, StartStepFacts
    <3>2. ~(lower_bound' >= upper_bound')
      <4>1. lower_bound' \in Nat /\ upper_bound' \in Nat
        BY <1>0, <2>1, StartStepFacts
      <4>2. lower_bound' < upper_bound'
        BY <1>2 DEF GoingOn
      <4>3. QED
        BY <4>1, <4>2
    <3>3. limit' = IF lower_bound_increased THEN lower_bound' ELSE 0
      BY <1>0, <2>1, <3>2, StartStepFacts
    <3>4. x < lower_bound' /\ ~(x < limit')
      BY <1>5, <3>1 DEF Sure
    <3>5. ~lower_bound_increased
      BY <3>3, <3>4
    <3>6. Sure(x)
      BY <3>1, <3>4, <3>5 DEF Sure
    <3>7. pc # "init"
      BY <1>0, <3>1, <3>5 DEF ModeInv, Fresh
    <3>8. QED
      BY <1>6, <3>6, <3>7
  <2>2. CASE ConstructNext \/ ReconstructPlan
    <3>1. UNCHANGED <<lower_bound, limit>> /\ registry # "idle" /\ registry' # "idle"
      BY <2>2 DEF ConstructNext, ReconstructPlan, vars, engine
    <3>2. ~StartStep
      BY <3>1 DEF StartStep
    <3>3. QED
      BY <1>5, <1>6, <3>1, <3>2 DEF Sure
  <2>3. CASE EndStep
    <3>1. /\ UNCHANGED <<lower_bound, plan, task>> /\ registry = "construct" /\ registry' = "idle"
          /\ Due = {} \/ FoundEnoughPlans(plan)
      BY <2>3 DEF EndStep
    <3>2. GoingOn /\ Due = {}
      <4>1. ~StartStep
        BY <3>1 DEF StartStep
      <4>2. QED
        BY <1>6, <3>1, <4>1 DEF GoingOn
    <3>3. x < lower_bound
      BY <1>5, <3>1 DEF Sure
    <3>4. CASE x < limit
      BY <1>3, <1>4, <3>1, <3>2, <3>3, <3>4, NoneLeftOver
    <3>5. CASE ~(x < limit)
      BY <3>1, <3>2, <3>3, <3>5 DEF Sure
    <3>6. QED
      BY <3>2, <3>4, <3>5
  <2>4. CASE SearchStep
    <3>1. registry = "idle" /\ registry' = "idle"
      BY <2>4 DEF SearchStep, registryVars
    <3>2. ~lower_bound_increased' /\ x < lower_bound'
      BY <1>5, <3>1 DEF Sure
    <3>3. ~lower_bound_increased /\ lower_bound' = lower_bound
      BY <1>0, <1>6, <2>4, <3>2, RisesAreTold
    <3>4. Sure(x)
      BY <3>1, <3>2, <3>3 DEF Sure
    <3>5. pc # "init"
      BY <1>0, <3>1, <3>3 DEF ModeInv, Fresh
    <3>6. QED
      BY <1>6, <3>4, <3>5
  <2>5. CASE UNCHANGED topkVars
    <3>1. UNCHANGED <<lower_bound, lower_bound_increased, limit, registry, pc, upper_bound, plan, task>>
      BY <2>5 DEF topkVars, allVars, vars, engine, control, registryVars
    <3>2. GoingOn /\ Sure(x)
      BY <1>2, <1>5, <3>1 DEF GoingOn, FoundEnoughPlans, Sure
    <3>3. QED
      BY <3>2
  <2>6. QED
    BY <2>1, <2>2, <2>3, <2>4, <2>5 DEF TopKNext, TopKDone
<1>8. Considered(p)
  BY <1>3, <1>4, <1>7 DEF SureOfPlans
<1>9. QED
  BY <1>5, <1>8, ConsideredStays

-----------------------------------------------------------------------------
(* The results *)

\* What makes NoPlanMissed inductive.
CompleteInv == Driven /\ CutsKept /\ NoneLost /\ SureOfPlans

\* The engine has not begun.
LEMMA CompleteInit == TopKInit => CompleteInv
<1> SUFFICES ASSUME TopKInit PROVE CompleteInv
  OBVIOUS
<1>1. Driven
  BY TopKInitInv, StartOfAll DEF Driven, Searched
<1>2. pc = "init" /\ registry = "idle"
  BY DEF TopKInit, RegistryInit, Init
<1>3. ~GoingOn
  BY <1>2 DEF GoingOn
<1>4. QED
  BY <1>1, <1>3 DEF CompleteInv, CutsKept, NoneLost, SureOfPlans

\* CompleteInv is inductive.
LEMMA CompleteNext == CompleteInv /\ [TopKNext]_topkVars => CompleteInv'
<1> SUFFICES ASSUME CompleteInv, [TopKNext]_topkVars PROVE CompleteInv'
  OBVIOUS
<1>1. /\ Driven /\ CutsKept /\ NoneLost /\ SureOfPlans
      /\ Searched /\ EngineInv /\ PlansInv /\ Begun /\ ModeInv
  BY DEF CompleteInv, Driven, Searched
<1>2. Driven'
  BY <1>1, TopKInvNext, ListInvNext, BegunNext, ModeInvNext DEF Driven, Searched
<1>3. CutsKept' /\ NoneLost' /\ SureOfPlans'
  BY <1>1, CutsKeptNext, NoneLostNext, SureOfPlansNext
<1>4. QED
  BY <1>2, <1>3 DEF CompleteInv

\* So it is an invariant.
LEMMA CompleteInvariant == TopKSpec => []CompleteInv
BY CompleteInit, CompleteNext, PTL DEF TopKSpec

\* The plans of the certificate are among those that the proofs speak of.
LEMMA WantedOfCertificate ==
    ASSUME Searched, NEW p \in WantedPlans
    PROVE  Wanted(p)
<1>1. HasEngine(task)
  BY WhatHolds, OptionFacts DEF Searched
<1>2. QED
  BY <1>1 DEF WantedPlans, HasEngine, Wanted, OperatorSeqs, Operators

\* Whenever symk or symq lets the search go on, every plan that costs less than
\* its lower bound has been offered to the plan data base, whatever the two
\* directions, the truncated steps, the mutexes and the selector are: each plan
\* is met by a cut before the lower bound passes its cost, the cut stays
\* registered until it is taken apart, and reconstruct_plans builds every plan of
\* it.  Only simple plans that two directions look for with free operators are
\* left out: the swap to the second phase drops the states next to the initial one.
THEOREM NoPlanIsMissed == TopKSpec => [](AllPlansKept => NoPlanMissed)
<1>1. ASSUME CompleteInv, AllPlansKept PROVE NoPlanMissed
  <2>1. /\ Driven /\ SureOfPlans /\ Searched /\ ModeInv /\ Found
    BY <1>1, SearchedFacts DEF CompleteInv, Driven
  <2>2. SUFFICES ASSUME registry = "idle", pc = "bucket", NEW p \in WantedPlans,
                        PlanCost(p) < lower_bound
                 PROVE  Considered(p)
    BY DEF NoPlanMissed
  <2>3. GoingOn /\ ~lower_bound_increased
    BY <2>1, <2>2 DEF ModeInv, GoingOn
  <2>4. Wanted(p)
    BY <2>1, WantedOfCertificate
  <2>5. PICK w, l : Course(p, w, l)
    BY <2>1, <2>4, CourseExists
  <2>6. l[Len(p)] = PlanCost(p)
    BY <2>5 DEF Course
  <2>7. Sure(l[Len(p)])
    BY <2>2, <2>3, <2>6 DEF Sure
  <2>8. QED
    BY <1>1, <2>1, <2>3, <2>5, <2>7 DEF SureOfPlans
<1>2. CompleteInv => (AllPlansKept => NoPlanMissed)
  BY <1>1
<1>3. QED
  BY <1>2, CompleteInvariant, PTL

-----------------------------------------------------------------------------
(* The order of the plans *)

\* What the plans that a node is to become cost.
NodeCost(node) ==
    IF node.fwd THEN node.g + node.h + PlanCost(node.prefix)
                ELSE node.h + PlanCost(node.prefix \o node.suffix)

\* That is the cost its cut had.
LEMMA NodeCostFacts ==
    ASSUME NEW node, NEW f, NodeInv(node, f)
    PROVE  NodeCost(node) = f
<1>1. CASE node.fwd
  BY <1>1 DEF NodeInv, FwdNode, NodeCost
<1>2. CASE ~node.fwd
  BY <1>2 DEF NodeInv, BwdNode, NodeCost
<1>3. QED
  BY <1>1, <1>2

\* A node costs what it did.
LEMMA StableNodeCost ==
    ASSUME task' = task, NEW node
    PROVE  NodeCost(node)' = NodeCost(node)
BY Stable DEF NodeCost

\* The nodes of one reconstruction have one cost, and so have the plans that it
\* accepts.
LEMMA OneCost ==
    ASSUME EngineInv, PlansInv, ReconstructPlan
    PROVE  \E f \in Nat :
              /\ queue # {} /\ \A n \in queue : NodeCost(n) = f
              /\ \A n \in queue' : NodeCost(n) = f
              /\ \A p \in plan' \ plan : /\ PlanCost(p) = f
                                         /\ ~HasAcceptedPlan(p) /\ Acceptable(p)
<1>1. \E top \in {node \in Top(queue) : PlanLength(node) <= MaxPlanLength} :
         \E states \in Picked(top) : Reconstructs(top, states)
  BY DEF ReconstructPlan, Reconstructs
<1>2. PICK top \in Top(queue) : \E states \in Picked(top) : Reconstructs(top, states)
  BY <1>1
<1>3. PICK states \in Picked(top) : Reconstructs(top, states)
  BY <1>2
<1>4. PICK node, found, goOn :
         /\ node = Narrowed(top, states)
         /\ found = node.prefix \o node.suffix
         /\ goOn = Waiting(top, states) \cup ExpandAllActions(node)
  OBVIOUS
<1>5. IF IsSolution(node)
      THEN /\ AddPlan(found)
           /\ queue' = IF ReconstructSolutions(plan', PlanCost(found)) THEN goOn ELSE {}
      ELSE /\ queue' = goOn
           /\ UNCHANGED <<plan, rejected>>
  BY <1>3, <1>4 DEF Reconstructs
<1>6. PICK f \in Nat : \A n \in queue : NodeInv(n, f)
  BY DEF PlansInv, Promised
<1>7. top \in queue /\ Found
  BY WhatHolds DEF Top
<1>8. NodeInv(node, f)
  BY <1>4, <1>6, <1>7, NarrowedNode
<1>9. ASSUME NEW n \in goOn PROVE NodeInv(n, f)
  <2>1. CASE n \in Waiting(top, states)
    BY <1>6, <1>7, <2>1, WaitingNodes
  <2>2. CASE n \in ExpandAllActions(node)
    <3>1. PICK i \in Operators : /\ Unvisited(node, ClosedStep(node, i)) # {}
                                 /\ n = NewNode(node, i) \/ n = Pushed(NewNode(node, i))
      BY <2>2 DEF ExpandAllActions, Operators
    <3>2. ClosedStep(node, i) # {}
      BY <3>1 DEF Unvisited
    <3>3. PICK new : new = NewNode(node, i)
      OBVIOUS
    <3>4. NodeInv(new, f)
      BY <1>7, <1>8, <3>2, <3>3, NewNodeInv
    <3>5. NodeInv(Pushed(new), f)
      BY <1>7, <3>4, PushedInv
    <3>6. QED
      BY <3>1, <3>3, <3>4, <3>5
  <2>3. QED
    BY <1>4, <2>1, <2>2
<1>10. \A n \in queue' : NodeInv(n, f)
  BY <1>5, <1>9
<1>11. ASSUME NEW p \in plan' \ plan
       PROVE  PlanCost(p) = f /\ ~HasAcceptedPlan(p) /\ Acceptable(p)
  <2>1. IsSolution(node) /\ AddPlan(found)
    BY <1>5
  <2>2. p = found /\ ~HasAcceptedPlan(p) /\ Acceptable(p)
    BY <2>1 DEF AddPlan
  <2>3. PlanCost(found) = f
    BY <1>4, <1>7, <1>8, <2>1, SolutionsAreValid
  <2>4. QED
    BY <2>2, <2>3
<1>12. (\A n \in queue : NodeCost(n) = f) /\ (\A n \in queue' : NodeCost(n) = f)
  BY <1>6, <1>10, NodeCostFacts
<1>13. QED
  BY <1>7, <1>11, <1>12

\* So have those that it begins with: it is the least that is due.
LEMMA FirstCost ==
    ASSUME EngineInv, PlansInv, ConstructNext
    PROVE  \E f \in Nat :
              /\ f < limit /\ \E sol \in Due : Cost(sol) = f
              /\ \A sol \in Due : f <= Cost(sol)
              /\ \A n \in queue' : NodeCost(n) = f
<1>1. PICK f, cuts : /\ f = Min({Cost(sol) : sol \in Due})
                     /\ cuts = {sol \in Due : Cost(sol) = f}
  OBVIOUS
<1>2. queue' = InitialNodes(cuts) /\ Due # {}
  BY <1>1 DEF ConstructNext
<1>3. /\ Found /\ sym_cuts \subseteq Cuts
      /\ \A sol \in sym_cuts : GoodCut(sol)
  BY WhatHolds DEF EngineInv
<1>4. /\ cuts \subseteq Cuts /\ Due \subseteq Cuts
      /\ \A sol \in cuts : GoodCut(sol) /\ Cost(sol) = f
  BY <1>1, <1>3 DEF Due
<1>5. PICK costs : costs = {Cost(sol) : sol \in Due}
  OBVIOUS
<1>6. costs \in SUBSET Nat /\ costs # {}
  BY <1>2, <1>4, <1>5, CutFacts
<1>7. f \in costs /\ \A y \in costs : f <= y
  BY <1>1, <1>5, <1>6, MinFacts
<1>8. PICK least \in Due : Cost(least) = f
  BY <1>5, <1>7
<1>9. f \in Nat /\ f < limit /\ \A sol \in Due : f <= Cost(sol)
  BY <1>5, <1>6, <1>7, <1>8 DEF Due
<1>10. \A sol \in cuts :
          /\ Cost(sol) = f
          /\ "fw" \notin Searches => sol.g = 0 /\ sol.cut \subseteq {task.init}
          /\ "bw" \notin Searches => sol.h = 0 /\ sol.cut \subseteq task.goal
  BY <1>4 DEF GoodCut
<1>11. \A n \in queue' : NodeInv(n, f)
  BY <1>2, <1>3, <1>4, <1>9, <1>10, InitialNodesInv
<1>12. QED
  BY <1>8, <1>9, <1>11, NodeCostFacts

\* All plans that are still to be reconstructed in this call cost at least c.
InTurn(c) ==
    /\ c < limit
    /\ \A sol \in Due : c <= Cost(sol)
    /\ \A n \in queue : c <= NodeCost(n)

\* They still do after an iteration.
LEMMA InTurnStays ==
    ASSUME EngineInv, PlansInv, ConstructNext \/ ReconstructPlan, NEW c \in Nat, InTurn(c)
    PROVE  InTurn(c)'
<1>1. /\ UNCHANGED <<task, limit>> /\ sym_cuts' \subseteq sym_cuts
  BY DEF ConstructNext, ReconstructPlan, vars, engine
<1>2. \A sol \in Due' : c <= Cost(sol)
  BY <1>1 DEF InTurn, Due
<1>3. \A n \in queue' : c <= NodeCost(n)
  <2>1. CASE ConstructNext
    BY <2>1, FirstCost DEF InTurn
  <2>2. CASE ReconstructPlan
    BY <2>2, OneCost DEF InTurn
  <2>3. QED
    BY <2>1, <2>2
<1>4. \A n \in queue' : c <= NodeCost(n)'
  BY <1>1, <1>3, StableNodeCost
<1>5. \A sol \in Due' : c <= Cost(sol)'
  BY <1>2 DEF Cost
<1>6. QED
  BY <1>1, <1>4, <1>5 DEF InTurn

\* What waits is in turn, and nothing waits unless the driver constructs plans.
NodesInTurn ==
    /\ \A n \in queue : NodeCost(n) \in Nat /\ InTurn(NodeCost(n))
    /\ registry # "idle" => status = "IN_PROGRESS"

\* Every step keeps the nodes in turn.
LEMMA NodesInTurnNext ==
    ASSUME EngineInv, PlansInv, NodesInTurn, [TopKNext]_topkVars
    PROVE  NodesInTurn'
<1>1. task' = task
  BY PlanGrows
<1>2. registry' # "idle" => status' = "IN_PROGRESS"
  BY DEF NodesInTurn, TopKNext, StartStep, ConstructNext, ReconstructPlan, EndStep, SearchStep,
     TopKDone, topkVars, allVars, vars, engine, registryVars
<1>3. CASE ConstructNext
  <2>1. PICK f \in Nat : /\ f < limit /\ (\E sol \in Due : Cost(sol) = f)
                         /\ \A sol \in Due : f <= Cost(sol)
                         /\ \A n \in queue' : NodeCost(n) = f
    BY <1>3, FirstCost
  <2>2. queue = {}
    BY <1>3 DEF ConstructNext, PlansInv
  <2>3. InTurn(f)'
    BY <1>3, <2>1, <2>2, InTurnStays DEF InTurn
  <2>4. \A n \in queue' : NodeCost(n)' = f
    BY <1>1, <2>1, StableNodeCost
  <2>5. QED
    BY <1>2, <2>3, <2>4 DEF NodesInTurn
<1>4. CASE ReconstructPlan
  <2>1. PICK f \in Nat : /\ queue # {} /\ \A n \in queue : NodeCost(n) = f
                         /\ \A n \in queue' : NodeCost(n) = f
    BY <1>4, OneCost
  <2>2. InTurn(f)'
    BY <1>4, <2>1, InTurnStays DEF NodesInTurn
  <2>3. \A n \in queue' : NodeCost(n)' = f
    BY <1>1, <2>1, StableNodeCost
  <2>4. QED
    BY <1>2, <2>2, <2>3 DEF NodesInTurn
<1>5. CASE StartStep \/ EndStep \/ SearchStep
  <2>1. queue' = {}
    BY <1>5 DEF StartStep, EndStep, SearchStep, registryVars, PlansInv
  <2>2. QED
    BY <1>2, <2>1 DEF NodesInTurn
<1>6. CASE UNCHANGED topkVars
  <2>1. UNCHANGED <<task, queue, limit, sym_cuts>>
    BY <1>6 DEF topkVars, allVars, vars, engine, registryVars
  <2>2. Due' = Due /\ \A sol : Cost(sol)' = Cost(sol)
    BY <2>1 DEF Due, Cost
  <2>3. \A n : NodeCost(n)' = NodeCost(n)
    BY <2>1, StableNodeCost
  <2>4. \A c : InTurn(c) => InTurn(c)'
    BY <2>1, <2>2, <2>3 DEF InTurn
  <2>5. QED
    BY <1>2, <2>1, <2>3, <2>4 DEF NodesInTurn
<1>7. QED
  BY <1>3, <1>4, <1>5, <1>6 DEF TopKNext, TopKDone

\* What has been rejected is never accepted.
RejectedForGood == \A p \in rejected : task.selector # "iterative_cost" /\ ~Acceptable(p)

\* Every step keeps that.
LEMMA RejectedForGoodNext ==
    ASSUME EngineInv, PlansInv, RejectedForGood, [TopKNext]_topkVars
    PROVE  RejectedForGood'
<1>1. task' = task /\ task.selector \in Selectors
  <2>1. HasSelector(task)
    BY WhatHolds, OptionFacts
  <2>2. QED
    BY <2>1, PlanGrows DEF HasSelector
<1>2. ASSUME NEW p \in rejected' PROVE task.selector # "iterative_cost" /\ ~Acceptable(p)
  <2>1. CASE p \in rejected
    BY <2>1 DEF RejectedForGood
  <2>2. CASE p \notin rejected
    <3>1. ReconstructPlan
      BY <2>2 DEF TopKNext, StartStep, ConstructNext, EndStep, SearchStep, TopKDone, topkVars
    <3>2. AddPlan(p)
      <4>1. \E top \in {node \in Top(queue) : PlanLength(node) <= MaxPlanLength} :
               \E states \in Picked(top) : Reconstructs(top, states)
        BY <3>1 DEF ReconstructPlan, Reconstructs
      <4>2. PICK top \in Top(queue) : \E states \in Picked(top) : Reconstructs(top, states)
        BY <4>1
      <4>3. PICK states \in Picked(top) : Reconstructs(top, states)
        BY <4>2
      <4>4. PICK node, found : node = Narrowed(top, states) /\ found = node.prefix \o node.suffix
        OBVIOUS
      <4>5. AddPlan(found)
        BY <2>2, <4>3, <4>4 DEF Reconstructs
      <4>6. p = found
        BY <2>2, <4>5 DEF AddPlan
      <4>7. QED
        BY <4>5, <4>6
    <3>3. QED
      BY <2>2, <3>2 DEF AddPlan
  <2>3. QED
    BY <2>1, <2>2
<1>3. ASSUME NEW p, task.selector # "iterative_cost" PROVE Acceptable(p)' <=> Acceptable(p)
  <2>1. CASE task.selector = "simple"
    <3>1. \A ops : RunPlan({task.init}, ops)' = RunPlan({task.init}, ops)
      BY <1>1, Stable
    <3>2. IsSimple(p)' <=> IsSimple(p)
      BY <3>1 DEF IsSimple, StatesOnPath
    <3>3. QED
      BY <1>1, <2>1, <3>2 DEF Acceptable
  <2>2. CASE task.selector = "validation"
    <3>1. IsValidPlan(p)' <=> IsValidPlan(p)
      BY <1>1 DEF IsValidPlan
    <3>2. QED
      BY <1>1, <2>2, <3>1 DEF Acceptable
  <2>3. CASE task.selector \in {"top_k", "unordered", "top_k_even"}
    BY <1>1, <2>3 DEF Acceptable
  <2>4. QED
    BY <1>1, <1>3, <2>1, <2>2, <2>3 DEF Selectors
<1>4. QED
  BY <1>1, <1>2, <1>3 DEF RejectedForGood

\* Accepted plans have costs.
LEMMA AcceptedCosts ==
    ASSUME EngineInv, PlansInv
    PROVE  \A q \in plan : PlanCost(q) \in Nat
<1>1. TaskOK /\ {task.init} \in StateSets
  BY WhatHolds, FoundFacts
<1>2. \A q \in plan : q \in OperatorSeqs
  BY DEF PlansInv, IsPlan
<1>3. QED
  BY <1>1, <1>2, RunTypes DEF OperatorSeqs

\* A plan that is accepted has not been considered before.
LEMMA AcceptedIsNew ==
    ASSUME Driven, RejectedForGood, NEW p, PlanCost(p) \in Int, ~HasAcceptedPlan(p), Acceptable(p)
    PROVE  ~Considered(p)
<1>1. p \notin rejected
  BY DEF RejectedForGood
<1>2. CASE task.selector = "iterative_cost"
  <2>1. PICK x, y : x = PlanCost(p) /\ y = MostExpensive(plan)
    OBVIOUS
  <2>2. MostExpensive(plan) \in Int
    <3>1. EngineInv /\ PlansInv /\ IsFiniteSet(plan) /\ MostExpensiveIsLargest
      BY DEF Driven, Searched, ModeInv
    <3>2. MostExpensive(plan) \in Costs(plan)
      BY <3>1 DEF MostExpensiveIsLargest, Largest
    <3>3. \A q \in plan : PlanCost(q) \in Nat
      BY <3>1, AcceptedCosts
    <3>4. task.plan_cost_bound \in Int
      BY <3>1, WhatHolds, OptionFacts DEF HasSelector
    <3>5. QED
      BY <3>2, <3>3, <3>4 DEF Costs
  <2>3. x > y
    BY <1>2, <2>1 DEF Acceptable
  <2>4. ~(x <= y)
    BY <2>1, <2>2, <2>3
  <2>5. QED
    BY <1>1, <2>1, <2>4 DEF Considered
<1>3. QED
  BY <1>1, <1>2 DEF Considered

\* All plans that cost less than c have been considered.
BelowSeen(c) == \A p, w, l : Course(p, w, l) /\ l[Len(p)] < c => Considered(p)

\* What has been considered stays so.
LEMMA BelowSeenStays ==
    ASSUME Driven, [TopKNext]_topkVars, NEW c, BelowSeen(c)
    PROVE  BelowSeen(c)'
<1>1. Searched /\ task' = task
  BY PlanGrows DEF Driven, Searched
<1>2. ASSUME NEW p, NEW w, NEW l, Course(p, w, l)', l[Len(p)] < c PROVE Considered(p)'
  <2>1. Course(p, w, l)
    BY <1>1, <1>2, StableCourse
  <2>2. Considered(p) /\ PlanCost(p) \in Int
    BY <1>1, <1>2, <2>1, CourseCost DEF BelowSeen
  <2>3. QED
    BY <2>2, ConsideredStays
<1>3. QED
  BY <1>2 DEF BelowSeen

\* When a plan has been accepted, cheaper ones have been considered, or none of
\* those that are still to be reconstructed in this call is cheaper.
Ordered(c) == BelowSeen(c) \/ (registry # "idle" /\ InTurn(c))
PlansOrdered == AllPlansKept /\ status = "IN_PROGRESS" => \A q \in plan : Ordered(PlanCost(q))

\* The turn of a plan is kept.
LEMMA OrderedStays ==
    ASSUME CompleteInv, AllPlansKept, NodesInTurn, [TopKNext]_topkVars, status' = "IN_PROGRESS",
           NEW c \in Nat, Ordered(c)
    PROVE  Ordered(c)'
<1>0. Driven /\ EngineInv /\ PlansInv /\ ModeInv /\ NoneLost
  BY DEF CompleteInv, Driven, Searched
<1>1. CASE BelowSeen(c)
  BY <1>0, <1>1, BelowSeenStays DEF Ordered
<1>2. CASE registry # "idle" /\ InTurn(c)
  <2>1. CASE ConstructNext \/ ReconstructPlan
    <3>1. registry' # "idle"
      BY <2>1 DEF ConstructNext, ReconstructPlan
    <3>2. QED
      BY <1>0, <1>2, <2>1, <3>1, InTurnStays DEF Ordered
  <2>2. CASE EndStep
    <3>1. /\ Due = {} \/ FoundEnoughPlans(plan)
          /\ registry = "construct"
          /\ ~(lower_bound >= upper_bound) /\ ~FoundEnoughPlans(plan)
      BY <2>2 DEF EndStep
    <3>2. GoingOn /\ Due = {}
      <4>1. lower_bound \in Nat /\ upper_bound \in Nat
        BY <1>0, LevelFacts DEF EngineInv, TypeOK, EngineTypeOK
      <4>2. lower_bound < upper_bound
        BY <3>1, <4>1
      <4>3. QED
        BY <3>1, <4>2 DEF GoingOn
    <3>3. limit <= lower_bound /\ c < limit /\ limit \in Nat /\ lower_bound \in Nat
      BY <1>0, <1>2, <3>2, LevelFacts DEF ModeInv, InTurn, EngineInv, TypeOK, EngineTypeOK
    <3>4. ASSUME NEW p, NEW w, NEW l, Course(p, w, l), l[Len(p)] < c PROVE Considered(p)
      <4>1. PICK x : x = l[Len(p)]
        OBVIOUS
      <4>2. x \in Nat
        BY <1>0, <3>4, <4>1, CourseCost DEF Driven
      <4>3. x < limit /\ x < lower_bound
        BY <3>3, <3>4, <4>1, <4>2
      <4>4. QED
        BY <1>0, <3>1, <3>2, <3>4, <4>1, <4>3, NoneLeftOver
    <3>5. BelowSeen(c)
      BY <3>4 DEF BelowSeen
    <3>6. QED
      BY <1>0, <3>5, BelowSeenStays DEF Ordered
  <2>3. CASE UNCHANGED topkVars
    <3>1. UNCHANGED <<task, queue, limit, sym_cuts, registry>>
      BY <2>3 DEF topkVars, allVars, vars, engine, registryVars
    <3>2. Due' = Due /\ \A sol : Cost(sol)' = Cost(sol)
      BY <3>1 DEF Due, Cost
    <3>3. \A n : NodeCost(n)' = NodeCost(n)
      BY <3>1, StableNodeCost
    <3>4. QED
      BY <1>2, <3>1, <3>2, <3>3 DEF Ordered, InTurn
  <2>4. QED
    BY <1>2, <2>1, <2>2, <2>3 DEF TopKNext, TopKDone, StartStep, SearchStep
<1>3. QED
  BY <1>1, <1>2 DEF Ordered

\* PlansOrdered is inductive.
LEMMA PlansOrderedNext ==
    ASSUME CompleteInv, NodesInTurn, PlansOrdered, [TopKNext]_topkVars
    PROVE  PlansOrdered'
<1>0. Driven /\ EngineInv /\ PlansInv
  BY DEF CompleteInv, Driven, Searched
<1>1. task' = task
  BY <1>0, PlanGrows
<1>2. SUFFICES ASSUME AllPlansKept', status' = "IN_PROGRESS", NEW q \in plan'
               PROVE  Ordered(PlanCost(q))'
  BY DEF PlansOrdered
<1>3. AllPlansKept /\ PlanCost(q)' = PlanCost(q)
  BY <1>1, <1>2, Stable DEF AllPlansKept
<1>4. SUFFICES ASSUME NEW c, c = PlanCost(q) PROVE Ordered(c)'
  BY <1>3 DEF Ordered, BelowSeen, InTurn
<1>5. status = "IN_PROGRESS"
  BY <1>2 DEF NodesInTurn, TopKNext, StartStep, ConstructNext, ReconstructPlan, EndStep, SearchStep,
     TopKDone, topkVars, allVars, vars, engine
<1>6. CASE q \in plan
  <2>1. c \in Nat
    BY <1>0, <1>4, <1>6, AcceptedCosts
  <2>2. Ordered(c)
    BY <1>3, <1>4, <1>5, <1>6 DEF PlansOrdered
  <2>3. QED
    BY <1>2, <1>3, <2>1, <2>2, OrderedStays
<1>7. CASE q \notin plan
  <2>1. ReconstructPlan
    BY <1>2, <1>7 DEF TopKNext, StartStep, ConstructNext, EndStep, SearchStep, TopKDone, topkVars,
       allVars, registryVars
  <2>2. PICK f \in Nat : /\ queue # {} /\ \A n \in queue : NodeCost(n) = f
                         /\ \A p \in plan' \ plan : PlanCost(p) = f
    BY <1>0, <2>1, OneCost
  <2>3. c = f /\ InTurn(f)
    BY <1>2, <1>4, <1>7, <2>2 DEF NodesInTurn
  <2>4. InTurn(c)' /\ registry' # "idle"
    BY <1>0, <2>1, <2>3, InTurnStays DEF ReconstructPlan
  <2>5. QED
    BY <2>4 DEF Ordered
<1>8. QED
  BY <1>6, <1>7

\* A step that accepts a plan accepts one that costs as much as all before.
LEMMA OrderedStep ==
    ASSUME CompleteInv, AllPlansKept, NodesInTurn, RejectedForGood, PlansOrdered, [TopKNext]_topkVars,
           NEW p \in plan' \ plan, NEW q \in plan
    PROVE  PlanCost(q) <= PlanCost(p)
<1>0. Driven /\ EngineInv /\ PlansInv /\ Found /\ Searched
  BY SearchedFacts DEF CompleteInv, Driven, Searched
<1>1. ReconstructPlan
  BY DEF TopKNext, StartStep, ConstructNext, EndStep, SearchStep, TopKDone, topkVars,
     allVars, registryVars
<1>2. PICK f \in Nat : /\ queue # {} /\ \A n \in queue : NodeCost(n) = f
                       /\ PlanCost(p) = f /\ ~HasAcceptedPlan(p) /\ Acceptable(p)
  BY <1>0, <1>1, OneCost
<1>3. PICK c : c = PlanCost(q)
  OBVIOUS
<1>4. c \in Nat
  BY <1>0, <1>3, AcceptedCosts
<1>5. status = "IN_PROGRESS"
  BY <1>1 DEF NodesInTurn, ReconstructPlan
<1>6. Ordered(c)
  BY <1>3, <1>5 DEF PlansOrdered
<1>7. CASE BelowSeen(c)
  <2>1. SUFFICES ASSUME f < c PROVE FALSE
    BY <1>2, <1>3, <1>4
  <2>2. IsPlan(p)
    <3>1. IsPlan(p)' /\ task' = task
      BY <1>0, TopKInvNext, PlanGrows DEF PlansInv
    <3>2. QED
      BY <3>1, StablePlans
  <2>3. Wanted(p)
    BY <2>2 DEF IsPlan, Wanted
  <2>4. PICK w, l : Course(p, w, l)
    BY <1>0, <2>3, CourseExists
  <2>5. l[Len(p)] = f
    BY <1>2, <2>4 DEF Course
  <2>6. Considered(p)
    BY <1>7, <2>1, <2>4, <2>5 DEF BelowSeen
  <2>7. QED
    BY <1>0, <1>2, <2>6, AcceptedIsNew
<1>8. CASE InTurn(c)
  <2>1. c <= f
    BY <1>2, <1>8 DEF InTurn
  <2>2. QED
    BY <1>2, <1>3, <2>1
<1>9. QED
  BY <1>6, <1>7, <1>8 DEF Ordered

\* What makes the order of the plans inductive.
InOrder == CompleteInv /\ NodesInTurn /\ RejectedForGood /\ PlansOrdered

\* Nothing has been found at the start.
LEMMA InOrderInit == TopKInit => InOrder
<1> SUFFICES ASSUME TopKInit PROVE InOrder
  OBVIOUS
<1>1. CompleteInv
  BY CompleteInit
<1>2. queue = {} /\ plan = {} /\ rejected = {} /\ registry = "idle"
  BY DEF TopKInit, RegistryInit
<1>3. QED
  BY <1>1, <1>2 DEF InOrder, NodesInTurn, RejectedForGood, PlansOrdered

\* InOrder is inductive.
LEMMA InOrderNext == InOrder /\ [TopKNext]_topkVars => InOrder'
<1> SUFFICES ASSUME InOrder, [TopKNext]_topkVars PROVE InOrder'
  OBVIOUS
<1>1. /\ CompleteInv /\ NodesInTurn /\ RejectedForGood /\ PlansOrdered
      /\ EngineInv /\ PlansInv
  BY DEF InOrder, CompleteInv, Driven, Searched
<1>2. CompleteInv'
  BY <1>1, CompleteNext
<1>3. NodesInTurn' /\ RejectedForGood' /\ PlansOrdered'
  BY <1>1, NodesInTurnNext, RejectedForGoodNext, PlansOrderedNext
<1>4. QED
  BY <1>2, <1>3 DEF InOrder

\* symk and symq accept plans in the order of their costs, also when the last
\* call of step constructs the plans of all cuts that are left: once a plan is
\* accepted, every cheaper one has been considered, or none of those that this
\* call still reconstructs is cheaper.  This is what get_first_plan_cost
\* relies on, which takes the first plan for the cheapest.
THEOREM PlansAreInOrder == TopKSpec /\ AllPlansKept => PlansInOrder
<1>1. InOrder /\ AllPlansKept /\ [TopKNext]_topkVars => AllPlansKept'
  <2> SUFFICES ASSUME InOrder, AllPlansKept, [TopKNext]_topkVars PROVE AllPlansKept'
    OBVIOUS
  <2>1. task' = task
    BY PlanGrows DEF InOrder, CompleteInv, Driven, Searched
  <2>2. QED
    BY <2>1 DEF AllPlansKept
<1>2. InOrder /\ AllPlansKept /\ [TopKNext]_topkVars
      => [\A p \in plan' \ plan : \A q \in plan : PlanCost(q) <= PlanCost(p)]_topkVars
  BY OrderedStep DEF InOrder
<1>3. QED
  BY <1>1, <1>2, InOrderInit, InOrderNext, PTL DEF TopKSpec, PlansInOrder

-----------------------------------------------------------------------------
(* A cheapest plan *)

\* A cheapest way from the initial state to x, on which no state is seen twice:
\* each state has a larger rank than those before it.
CheapestWay(p, w, l, x) ==
    /\ Route(p, w, l)
    /\ w[0] = task.init /\ w[Len(p)] = x
    /\ PlanCost(p) = task.dist["fw"][x]
    /\ \A i, j \in 0 .. Len(p) : i < j => task.rank["fw"][w[i]] < task.rank["fw"][w[j]]

\* A cheapest way is made longer by one operator of a cheapest walk.
LEMMA WayGoesOn ==
    ASSUME TaskOK, NEW p, NEW w, NEW l, NEW x, CheapestWay(p, w, l, x), x \in State,
           NEW y \in State, NEW i \in Operators,
           <<x, y>> \in task.operators[i].rel,
           task.dist["fw"][y] = task.dist["fw"][x] + task.operators[i].cost,
           task.rank["fw"][x] < task.rank["fw"][y]
    PROVE  \E q, v, m : CheapestWay(q, v, m, y)
<1>1. PICK n : n = Len(p)
  OBVIOUS
<1>2. /\ n \in Nat /\ w \in [0 .. n -> State] /\ w[n] = x /\ w[0] = task.init
      /\ PlanCost(p) = task.dist["fw"][x] /\ 0 \in 0 .. n /\ n \in 0 .. n
  BY <1>1, ElementFacts DEF CheapestWay, Route, OperatorSeqs
<1>3. PICK q, v, m : /\ Route(q, v, m) /\ Len(q) = n + 1
                     /\ PlanCost(q) = PlanCost(p) + task.operators[i].cost
                     /\ v[n + 1] = y /\ \A k \in 0 .. n : v[k] = w[k]
  BY <1>1, <1>2, RouteAppended DEF CheapestWay
<1>4. ASSUME NEW a \in 0 .. n + 1, NEW b \in 0 .. n + 1, a < b
      PROVE  task.rank["fw"][v[a]] < task.rank["fw"][v[b]]
  <2>1. a \in 0 .. n /\ v[a] = w[a]
    BY <1>2, <1>3, <1>4
  <2>2. CASE b \in 0 .. n
    <3>1. v[b] = w[b]
      BY <1>3, <2>2
    <3>2. QED
      BY <1>1, <1>4, <2>1, <2>2, <3>1 DEF CheapestWay
  <2>3. CASE b = n + 1
    <3>1. PICK r : r = task.rank["fw"]
      OBVIOUS
    <3>2. r \in [State -> Nat]
      BY <3>1, DistanceFacts DEF TaskOK, Dir
    <3>3. r[w[a]] \in Nat /\ r[x] \in Nat /\ r[y] \in Nat
      BY <1>2, <2>1, <3>2
    <3>4. r[w[a]] <= r[x]
      <4>1. CASE a = n
        BY <1>2, <3>3, <4>1
      <4>2. CASE a # n
        <5>1. a < n
          BY <1>2, <2>1, <4>2
        <5>2. r[w[a]] < r[w[n]]
          BY <1>1, <1>2, <2>1, <3>1, <5>1 DEF CheapestWay
        <5>3. QED
          BY <1>2, <3>3, <5>2
      <4>3. QED
        BY <4>1, <4>2
    <3>5. r[x] < r[y]
      BY <3>1
    <3>6. r[w[a]] < r[y]
      BY <3>3, <3>4, <3>5
    <3>7. QED
      BY <1>3, <2>1, <2>3, <3>1, <3>6
  <2>4. QED
    BY <1>2, <2>2, <2>3
<1>5. v[0] = task.init /\ PlanCost(q) = task.dist["fw"][y]
  BY <1>2, <1>3
<1>6. CheapestWay(q, v, m, y)
  BY <1>3, <1>4, <1>5 DEF CheapestWay
<1>7. QED
  BY <1>6

\* There is one to each state that can be reached: of the states without one,
\* one of least rank would be reached from a state with one.
LEMMA CheapestWayExists ==
    ASSUME TaskOK, NEW s \in State, task.dist["fw"][s] < INT_MAX
    PROVE  \E p, w, l : CheapestWay(p, w, l, s)
<1> DEFINE Lost == {x \in State : /\ task.dist["fw"][x] < INT_MAX
                                  /\ ~ \E p, w, l : CheapestWay(p, w, l, x)}
<1> SUFFICES ASSUME Lost # {} PROVE FALSE
  OBVIOUS
<1>1. IsTask(task) /\ "fw" \in Dir /\ task.init \in State /\ INT_MAX \in Nat
  BY IntMaxAssumption DEF TaskOK, IsTask, Dir
<1>2. task.rank["fw"] \in [State -> Nat]
  BY <1>1, DistanceFacts
<1>3. PICK x \in Lost : \A y \in Lost : task.rank["fw"][x] <= task.rank["fw"][y]
  BY <1>2, LeastRank
<1>4. x # task.init
  <2> SUFFICES ASSUME x = task.init PROVE FALSE
    OBVIOUS
  <2>1. PICK w, l : Route(<<>>, w, l) /\ Len(<<>>) = 0 /\ PlanCost(<<>>) = 0 /\ w[0] = x
    BY EmptyRoute
  <2>2. task.dist["fw"][x] = 0
    BY <1>1, DistanceFacts DEF Source
  <2>3. CheapestWay(<<>>, w, l, x)
    BY <2>1, <2>2 DEF CheapestWay
  <2>4. QED
    BY <2>3
<1>5. x \in State \ Source(task, "fw") /\ task.dist["fw"][x] < INT_MAX
  BY <1>4 DEF Source
<1>6. PICK c \in DOMAIN task.ops : \E p \in State :
         /\ c \in Nat
         /\ Edge(task, "fw", c, p, x)
         /\ task.dist["fw"][x] = task.dist["fw"][p] + c
         /\ task.rank["fw"][p] < task.rank["fw"][x]
  BY <1>1, <1>5, CheapestPredecessor
<1>7. PICK y \in State :
         /\ c \in Nat
         /\ Edge(task, "fw", c, y, x)
         /\ task.dist["fw"][x] = task.dist["fw"][y] + c
         /\ task.rank["fw"][y] < task.rank["fw"][x]
  BY <1>6
<1>8. task.dist["fw"][y] \in Nat /\ task.dist["fw"][x] \in Nat
  BY <1>1, DistanceFacts
<1>9. task.dist["fw"][y] < INT_MAX
  BY <1>1, <1>5, <1>7, <1>8
<1>10. y \notin Lost
  <2>1. task.rank["fw"][y] \in Nat /\ task.rank["fw"][x] \in Nat
    BY <1>2
  <2>2. QED
    BY <1>3, <1>7, <2>1
<1>11. PICK p, w, l : CheapestWay(p, w, l, y)
  BY <1>9, <1>10
<1>12. PICK i \in Operators : task.operators[i].cost = c /\ <<y, x>> \in task.operators[i].rel
  BY <1>7, EdgeIsOperator
<1>13. \E q, v, m : CheapestWay(q, v, m, x)
  <2>1. task.dist["fw"][x] = task.dist["fw"][y] + task.operators[i].cost
    BY <1>7, <1>12
  <2>2. QED
    BY <1>5, <1>7, <1>11, <1>12, <2>1, WayGoesOn
<1>14. QED
  BY <1>13

\* A task that can be solved has a plan that costs the optimum.
LEMMA OptimalCourse ==
    ASSUME TaskOK, Optimum < INT_MAX
    PROVE  \E p, w, l : Course(p, w, l) /\ l[Len(p)] = Optimum
<1>1. IsTask(task) /\ "bw" \in Dir /\ "fw" \in Dir /\ Opposite("bw") = "fw"
  BY DEF TaskOK, Dir, Opposite
<1>2. PICK s \in Source(task, "bw") : CostThrough(task, s) = OptimalCost(task)
  BY <1>1, CheapestSource DEF Optimum
<1>3. s \in task.goal /\ s \in State
  BY <1>1, <1>2 DEF Source, IsTask
<1>4. task.dist["bw"][s] = 0 /\ task.dist["fw"][s] \in Nat
  BY <1>1, <1>2, <1>3, DistanceFacts
<1>5. task.dist["fw"][s] = Optimum
  BY <1>2, <1>4 DEF CostThrough, Optimum
<1>6. PICK p, w, l : CheapestWay(p, w, l, s)
  BY <1>3, <1>5, CheapestWayExists
<1>7. \A i, j \in 0 .. Len(p) : w[i] = w[j] => i = j
  <2> SUFFICES ASSUME NEW i \in 0 .. Len(p), NEW j \in 0 .. Len(p), w[i] = w[j], i # j
               PROVE  FALSE
    OBVIOUS
  <2>1. task.rank["fw"] \in [State -> Nat]
    BY <1>1, <1>3, DistanceFacts
  <2>2. w \in [0 .. Len(p) -> State]
    BY <1>6 DEF CheapestWay, Route
  <2>3. PICK r : r = task.rank["fw"][w[i]] /\ r \in Nat
    BY <2>1, <2>2
  <2>4. i < j \/ j < i
    OBVIOUS
  <2>5. r < r
    BY <1>6, <2>3, <2>4 DEF CheapestWay
  <2>6. QED
    BY <2>3, <2>5
<1>8. Course(p, w, l)
  BY <1>3, <1>6, <1>7 DEF CheapestWay, Route, Course
<1>9. QED
  BY <1>5, <1>6, <1>8 DEF CheapestWay, Route

-----------------------------------------------------------------------------
(* The upper bound follows the cuts *)

\* The option quality excludes plans.
QualityAsked == task.engine = "symq" /\ task.quality.by # 0

\* The bound admits no more than any of the cuts would.
GradedBy(upper, cuts) == QualityAsked => \A sol \in cuts : upper <= QualityBound(Cost(sol))

CutsGraded == GradedBy(upper_bound, sym_cuts)

\* No cut is cheaper than what cheapest_solution_cost_found returns.
LEMMA CheapestFoundIsLeast ==
    ASSUME Base, NEW cuts \in SUBSET Cuts, NEW sol \in cuts
    PROVE  CheapestFound(cuts) <= Cost(sol)
<1> DEFINE S == {Cost(c) : c \in cuts} \cup {PlanCost(p) : p \in plan} \cup {INT_MAX}
<1>1. \A c \in cuts : Cost(c) \in Nat
  BY CutFacts
<1>2. \A p \in plan : PlanCost(p) \in Nat
  <2>1. {} \in StateSets
    BY DEF StateSets
  <2>2. \A p \in plan : p \in Seq(Operators)
    BY DEF Base, OperatorSeqs
  <2>3. QED
    BY <2>1, <2>2, OptionFacts, RunTypes
<1>3. S \in SUBSET Nat /\ S # {}
  BY <1>1, <1>2, OptionFacts
<1>4. Cost(sol) \in S
  OBVIOUS
<1> HIDE DEF S
<1>5. \A y \in S : Min(S) <= y
  BY <1>3, MinFacts
<1>6. CheapestFound(cuts) = Min(S)
  BY DEF CheapestFound, S
<1>7. QED
  BY <1>4, <1>5, <1>6

\* new_solution keeps the bound so.
LEMMA NewSolutionGraded ==
    ASSUME Base, NEW sols, GoodCuts(sols), NEW e \in Kept(sols), NEW sol \in sols,
           GradedBy(e.upper, e.cuts), NEW new, new = NewSolution(e, sol)
    PROVE  GradedBy(new.upper, new.cuts)
<1>1. /\ e \in Fields /\ e.cuts \subseteq Cuts /\ e.upper \in Level
      /\ GoodCuts(e.cuts)
  BY DEF Kept, Fields
<1>2. sol \in Cuts /\ GoodCut(sol)
  BY DEF GoodCuts
<1>3. INT_MAX \in Level /\ \A k \in Level : k \in Nat /\ k <= INT_MAX
  BY LevelFacts
<1>4. CASE FoundEnoughPlans(plan) \/ BeyondQuality(e.lower, CheapestFound(e.cuts))
  <2>1. new = [e EXCEPT !.lower = INT_MAX]
    BY <1>4 DEF NewSolution
  <2>2. new.cuts = e.cuts /\ new.upper = e.upper
    BY <1>1, <2>1 DEF Fields
  <2>3. QED
    BY <2>2
<1>5. CASE ~ (FoundEnoughPlans(plan) \/ BeyondQuality(e.lower, CheapestFound(e.cuts)))
  <2> SUFFICES ASSUME QualityAsked, NEW c \in new.cuts
               PROVE  new.upper <= QualityBound(Cost(c))
    BY DEF GradedBy
  <2>1. PICK cuts : cuts = Merged(e.cuts, sol)
    OBVIOUS
  <2>2. PICK r : r = QualityBound(CheapestFound(cuts))
    OBVIOUS
  <2>3. new = [e EXCEPT !.cuts = cuts, !.upper = LesserOf(e.upper, r)]
    BY <1>1, <1>5, <2>1, <2>2 DEF NewSolution, Fields, QualityAsked
  <2>4. new.cuts = cuts /\ new.upper = LesserOf(e.upper, r)
    BY <1>1, <2>3 DEF Fields
  <2>5. GoodCuts(cuts) /\ cuts \in SUBSET Cuts
    BY <1>1, <1>2, <2>1, MergedFacts DEF GoodCuts
  <2>6. CheapestFound(cuts) \in Nat
    BY <2>5, CheapestFoundFacts DEF GoodCuts, GoodCut
  <2>7. CheapestFound(cuts) <= Cost(c) /\ Cost(c) \in Nat
    BY <2>4, <2>5, CheapestFoundIsLeast, CutFacts
  <2>8. PICK q : q = QualityBound(Cost(c))
    OBVIOUS
  <2>9. r \in Nat /\ q \in Nat /\ r <= q
    BY <2>2, <2>6, <2>7, <2>8, QualityBoundFacts DEF QualityAsked
  <2>10. LesserOf(e.upper, r) <= r
    BY <1>1, <1>3, <2>9 DEF LesserOf
  <2>11. LesserOf(e.upper, r) \in Nat
    BY <1>1, <1>3, <2>9 DEF LesserOf
  <2>12. QED
    BY <2>4, <2>8, <2>9, <2>10, <2>11
<1>6. QED
  BY <1>4, <1>5

\* So does a report.
LEMMA ReportedGraded ==
    ASSUME Base, CutsGraded, NEW sols, GoodCuts(sols), NEW d, NEW e \in Reported(d, sols)
    PROVE  GradedBy(e.upper, e.cuts)
<1>1. IsFiniteSet(sols)
  BY ApartIsFinite DEF GoodCuts
<1>2. PICK I : I = {b \in Kept(sols) : GradedBy(b.upper, b.cuts)}
  OBVIOUS
<1>3. Now \in I
  <2>1. Now \in Fields
    BY DEF Now, Fields, Base, TypeOK, EngineTypeOK
  <2>2. /\ GoodCuts(Now.cuts) /\ Now.cuts = sym_cuts
        /\ Now.lower = lower_bound /\ Now.upper = upper_bound
    BY DEF Now, Base
  <2>3. \A c \in sym_cuts : RegisteredIn(c, sym_cuts)
    BY DEF RegisteredIn
  <2>4. \A b \in sym_cuts : MadeOf(b, sym_cuts \cup sols)
    BY DEF MadeOf
  <2>5. Now.upper <= upper_bound
    BY <2>2, OptionFacts
  <2>6. Now \in Kept(sols)
    BY <2>1, <2>2, <2>3, <2>4, <2>5 DEF Kept
  <2>7. GradedBy(Now.upper, Now.cuts)
    BY <2>2 DEF CutsGraded
  <2>8. QED
    BY <1>2, <2>6, <2>7
<1>4. KeptBy(I, sols)
  <2>1. ASSUME NEW b \in I, NEW sol \in sols PROVE NewSolution(b, sol) \in I
    <3>1. b \in Kept(sols) /\ GradedBy(b.upper, b.cuts)
      BY <1>2
    <3>2. PICK new : new = NewSolution(b, sol)
      OBVIOUS
    <3>3. new \in Kept(sols)
      BY <3>1, <3>2, NewSolutionKept
    <3>4. GradedBy(new.upper, new.cuts)
      BY <3>1, <3>2, NewSolutionGraded
    <3>5. QED
      BY <1>2, <3>2, <3>3, <3>4
  <2>2. QED
    BY <1>3, <2>1 DEF KeptBy
<1>5. e \in I
  BY <1>1, <1>4, ReportedStays
<1>6. QED
  BY <1>2, <1>5

\* A step reports cuts, or at most erases some.
Reporting ==
    \E sols, d : \E e \in Reported(d, sols) :
        GoodCuts(sols) /\ sym_cuts' = e.cuts /\ upper_bound' = e.upper

\* A step reports cuts, or adds none and leaves the upper bound.
LEMMA CutsChange ==
    ASSUME EngineInv, PlansInv, [TopKNext]_topkVars
    PROVE  Reporting \/ (sym_cuts' \subseteq sym_cuts /\ upper_bound' = upper_bound)
<1>1. TypeOK
  BY DEF EngineInv
<1>2. CASE StartStep
  BY <1>1, <1>2, EmptyPlanIsGood DEF StartStep, Reporting
<1>3. CASE ConstructNext
  BY <1>3 DEF ConstructNext
<1>4. CASE ReconstructPlan
  BY <1>4 DEF ReconstructPlan, vars, engine
<1>5. CASE EndStep
  BY <1>5 DEF EndStep
<1>6. CASE SearchStep
  <2>1. CASE \E d \in Searches : NoMorePlans(d)
    BY <2>1 DEF NoMorePlans
  <2>2. CASE \E d \in Searches : PopBucket(d)
    <3>1. PICK d \in Searches : PopBucket(d)
      BY <2>2
    <3>2. PICK e, new : PoppedTo(d, e, new) /\ PopReady(d)
      BY <3>1, PopBucketFacts
    <3>3. PICK g, sols : g = MinG(open[d]) /\ sols = AllCuts(d, g, open[d][g])
      OBVIOUS
    <3>4. GoodCuts(sols) /\ e \in Reported(d, sols)
      <4>1. GoodCuts(AllCuts(d, MinG(open[d]), open[d][MinG(open[d])]))
        BY <3>2, PoppedFacts
      <4>2. e \in Reported(d, AllCuts(d, MinG(open[d]), open[d][MinG(open[d])]))
        BY <3>2 DEF PoppedTo
      <4>3. QED
        BY <3>3, <4>1, <4>2, Zenon
    <3>5. sym_cuts' = e.cuts /\ upper_bound' = e.upper
      BY <3>2, PoppedFacts
    <3>6. QED
      BY <3>4, <3>5 DEF Reporting
  <2>3. CASE \E d \in Searches : ExpandFrontier(d)
    BY <2>3, ExpandedTo DEF Reporting
  <2>4. CASE \E d \in Searches : Inherited(d)
    BY <2>4 DEF Inherited, BucketReady, Prepare, PrepareTruncated, ExpandTruncated, Finish, engine
  <2>5. CASE Return
    BY <2>5 DEF Return
  <2>6. QED
    BY <1>6, <2>1, <2>2, <2>3, <2>4, <2>5 DEF SearchStep
<1>7. CASE UNCHANGED topkVars
  BY <1>7 DEF topkVars, allVars, vars, engine
<1>8. QED
  BY <1>2, <1>3, <1>4, <1>5, <1>6, <1>7 DEF TopKNext, TopKDone

\* CutsGraded is inductive.
LEMMA CutsGradedNext ==
    ASSUME EngineInv, PlansInv, CutsGraded, [TopKNext]_topkVars
    PROVE  CutsGraded'
<1>1. task' = task
  BY PlanGrows
<1>2. /\ QualityAsked' = QualityAsked
      /\ \A x : QualityBound(x)' = QualityBound(x)
  BY <1>1 DEF QualityAsked, QualityBound
<1>3. CASE sym_cuts' \subseteq sym_cuts /\ upper_bound' = upper_bound
  BY <1>2, <1>3 DEF CutsGraded, GradedBy, Cost
<1>4. CASE Reporting
  <2>1. PICK sols, d : \E e \in Reported(d, sols) :
                          GoodCuts(sols) /\ sym_cuts' = e.cuts /\ upper_bound' = e.upper
    BY <1>4 DEF Reporting
  <2>2. PICK e \in Reported(d, sols) :
           GoodCuts(sols) /\ sym_cuts' = e.cuts /\ upper_bound' = e.upper
    BY <2>1
  <2>3. GradedBy(e.upper, e.cuts)
    BY <2>2, WhatHolds, ReportedGraded
  <2>4. QED
    BY <1>2, <2>2, <2>3 DEF CutsGraded, GradedBy, Cost
<1>5. QED
  BY <1>3, <1>4, CutsChange

-----------------------------------------------------------------------------
(* The cut of a cheapest plan *)

\* What a bound computed from some cost admits.
LEMMA QualityAdmits ==
    ASSUME Base, QualityAsked, NEW x \in Nat, NEW c \in Nat
    PROVE  /\ x < QualityBound(x) /\ QualityBound(x) \in Nat
           /\ c < QualityBound(x) <=> ~BeyondQuality(c, x)
           /\ c <= x => ~BeyondQuality(c, x)
<1>1. PICK a, b, m : a = task.quality.of /\ b = task.quality.by /\ m = x * a
  OBVIOUS
<1>2. a \in Nat /\ b \in Nat /\ b # 0 /\ b <= a
  BY <1>1, OptionFacts DEF QualityAsked
<1>3. m \in Nat /\ x * b <= m /\ x * b \in Nat
  <2>1. b * x <= a * x /\ b * x \in Nat /\ a * x \in Nat
    BY <1>2, ProductsAreMonotone
  <2>2. b * x = x * b /\ a * x = x * a
    BY <1>2
  <2>3. QED
    BY <1>1, <2>1, <2>2
<1>4. PICK q : q = m \div b
  OBVIOUS
<1>5. q \in Nat /\ q * b <= m /\ m < (q + 1) * b /\ q * b \in Nat /\ (q + 1) * b \in Nat
  BY <1>2, <1>3, <1>4, QuotientFacts
<1>6. QualityBound(x) = q + 1
  BY <1>1, <1>4 DEF QualityBound
<1>7. x < q + 1
  <2>1. ASSUME q + 1 <= x PROVE FALSE
    <3>1. (q + 1) * b <= x * b
      BY <1>2, <1>5, <2>1, ProductsAreMonotone
    <3>2. QED
      BY <1>3, <1>5, <3>1
  <2>2. QED
    BY <1>5, <2>1
<1>8. \A k \in Nat : k * b <= m <=> ~BeyondQuality(k, x)
  BY <1>1, <1>2, <1>3 DEF BeyondQuality, QualityAsked
<1>9. c < QualityBound(x) <=> c * b <= m
  <2>1. ASSUME c <= q PROVE c * b <= m
    <3>1. c * b <= q * b /\ c * b \in Nat
      BY <1>2, <1>5, <2>1, ProductsAreMonotone
    <3>2. QED
      BY <1>3, <1>5, <3>1
  <2>2. ASSUME q + 1 <= c PROVE ~(c * b <= m)
    <3>1. (q + 1) * b <= c * b /\ c * b \in Nat
      BY <1>2, <1>5, <2>2, ProductsAreMonotone
    <3>2. QED
      BY <1>3, <1>5, <3>1
  <2>3. QED
    BY <1>5, <1>6, <2>1, <2>2
<1>10. ASSUME c <= x PROVE c * b <= m
  <2>1. c * b <= x * b /\ c * b \in Nat
    BY <1>2, <1>10, ProductsAreMonotone
  <2>2. QED
    BY <1>3, <2>1
<1>11. QED
  BY <1>5, <1>6, <1>7, <1>8, <1>9, <1>10

\* A direction that takes its open states for useless has closed the states of
\* a cheapest plan: on such a plan, no state has been closed before its turn.
LEMMA CheapestIsClosed ==
    ASSUME Searched, NEW d \in Searches, NoMorePlans(d),
           NEW n \in Nat, NEW v, NEW l, Walk(d, v, l, n),
           l[n] = Optimum, Optimum < INT_MAX, NEW i \in 0 .. n
    PROVE  v[i] \in closed[d][l[i]]
<1>1. d \in Dir /\ IsTask(task) /\ Source(task, d) \subseteq closed[d][0]
  BY SearchedFacts DEF Searched, ListInv
<1>2. v[0] \in closed[d][l[0]]
  BY <1>1 DEF Walk
<1>3. \A k \in 0 .. n : l[k] \in Nat /\ l[k] \in Level
  BY <1>1, WalksAreUseful, SearchedFacts
<1>4. frontier[d].phase = "empty" /\ ProvableNoMorePlans(d)
  BY DEF NoMorePlans
<1>5. GetG(frontier[d], open[d]) = MinG(open[d])
  BY <1>4 DEF GetG
<1>6. /\ last_g_cost[d] \in Nat
      /\ MinG(open[d]) \in Nat /\ \A k \in Keys(open[d]) : MinG(open[d]) <= k
  <2>1. last_g_cost[d] \in Level /\ MinG(open[d]) \in Level
        /\ \A k \in Keys(open[d]) : MinG(open[d]) <= k
    BY SearchedFacts, MinGFacts DEF Searched, EngineInv
  <2>2. QED
    BY <2>1, SearchedFacts
<1> DEFINE Bad == {k \in 0 .. n : v[k] \notin closed[d][l[k]]}
           b == Least(Bad)
<1>7. ASSUME Bad # {} PROVE FALSE
  <2>1. Bad \in SUBSET Nat
    OBVIOUS
  <2> HIDE DEF Bad
  <2>2. b \in Bad /\ \A y \in Bad : b <= y
    BY <1>7, <2>1, NatHasLeast
  <2> HIDE DEF b
  <2>3. b \in 0 .. n /\ v[b] \notin closed[d][l[b]]
    BY <2>2 DEF Bad
  <2>4. b # 0
    BY <1>2, <2>3
  <2>5. b \in 1 .. n /\ b - 1 \in 0 .. n /\ ~ (b <= b - 1)
    BY <2>3, <2>4
  <2>6. v[b - 1] \in closed[d][l[b - 1]]
    BY <2>2, <2>5 DEF Bad
  <2>7. v[b] \in open[d][l[b]]
    <3>1. v[b] \in closed[d][l[b]] \cup open[d][l[b]]
      BY <1>4, <2>5, <2>6, NextIsListed
    <3>2. QED
      BY <2>3, <3>1
  <2>8. l[b] \in Keys(open[d]) /\ l[b] \in Level /\ l[b] \in Nat
    BY <1>3, <2>3, <2>7 DEF Keys
  <2>9. last_g_cost[d] < MinG(open[d]) /\ v[b] \in NoGoalPathStates(d)
    BY <1>4, <1>5, <2>7, <2>8 DEF ProvableNoMorePlans
  <2>10. PICK g \in Level : g < last_g_cost[d] /\ v[b] \in closed[d][g]
    BY <2>9 DEF NoGoalPathStates
  <2>11. v[b] \in State /\ g \in Nat
    BY <2>3, <2>10, SearchedFacts DEF Walk
  <2>12. /\ task.dist[d][v[b]] \in Nat /\ task.dist[Opposite(d)][v[b]] \in Nat
         /\ OptimalCost(task) <= task.dist[d][v[b]] + task.dist[Opposite(d)][v[b]]
    <3>1. Opposite(d) \in Dir
      BY <1>1, OppositeFacts
    <3>2. OptimalCost(task) <= CostThrough(task, v[b])
      BY <1>1, <2>11, OptimumIsLeast
    <3>3. QED
      BY <1>1, <2>11, <3>1, <3>2, DistanceFacts
  <2>13. task.dist[Opposite(d)][v[b]] + l[b] <= l[n]
    <3>1. n \in 0 .. n /\ b <= n
      BY <2>3
    <3>2. QED
      BY <1>1, <2>3, <3>1, WalkFacts
  <2>14. Optimum = OptimalCost(task) /\ OptimalCost(task) \in Nat
    BY <1>1, <2>11, DistanceFacts DEF Optimum
  <2>15. l[b] <= task.dist[d][v[b]]
    BY <2>8, <2>12, <2>13, <2>14
  <2>16. task.dist[d][v[b]] <= g
    BY <1>1, <2>10 DEF Searched, EngineInv, LevelInv
  <2>17. MinG(open[d]) <= l[b]
    BY <1>6, <2>8
  <2>18. QED
    BY <1>6, <2>8, <2>9, <2>10, <2>11, <2>12, <2>15, <2>16, <2>17
<1>8. QED
  BY <1>7

\* So it has cut it, if it has not passed it before.
LEMMA CheapestIsCut ==
    ASSUME Searched, NEW d \in Searches, NoMorePlans(d), Optimum < INT_MAX,
           NEW m \in Nat, CutsInv(m), m <= Optimum
    PROVE  \E sol \in sym_cuts : Cost(sol) = Optimum
<1>1. d \in Dir /\ TaskOK /\ IsTask(task) /\ Opposite(d) \in Dir /\ 0 \in Level
  BY SearchedFacts
<1>2. PICK p, w, h : Course(p, w, h) /\ h[Len(p)] = Optimum
  BY <1>1, OptimalCourse
<1>3. PICK n : n = Len(p) /\ n \in Nat
  BY <1>1, <1>2, CourseIsWalk
<1>4. \E v, l : Walk(d, v, l, n) /\ l[n] = Optimum
  <2>1. CASE d = "fw"
    BY <1>1, <1>2, <1>3, <2>1, CourseIsWalk
  <2>2. CASE d = "bw"
    <3>1. Walk("bw", Reversed(w, n), Left(h, n), n)
      BY <1>1, <1>2, <1>3, CourseIsWalk
    <3>2. Left(h, n)[n] = h[n] - h[0] /\ h[0] = 0 /\ h[n] \in Nat
      BY <1>2, <1>3 DEF Left, Course
    <3>3. Left(h, n)[n] = Optimum
      BY <1>2, <1>3, <3>2
    <3>4. QED
      BY <2>2, <3>1, <3>3
  <2>3. QED
    BY <1>1, <2>1, <2>2 DEF Dir
<1>5. PICK v, l : Walk(d, v, l, n) /\ l[n] = Optimum
  BY <1>4
<1>6. n \in 0 .. n
  BY <1>3
<1>7. v[n] \in closed[d][l[n]]
  BY <1>3, <1>5, <1>6, CheapestIsClosed
<1>8. v[n] \in closed[Opposite(d)][0]
  BY <1>1, <1>5 DEF Walk, Searched, ListInv
<1>9. l[n] \in Level /\ l[n] \in Nat
  BY <1>1, <1>3, <1>5, <1>6, WalksAreUseful, SearchedFacts
<1>10. Cut(d, m, l[n], 0, v[n])
  BY <1>1, <1>7, <1>8, <1>9 DEF CutsInv, MetIn
<1>11. ~ (l[n] + 0 < m)
  BY <1>5, <1>9
<1>12. PICK sol \in sym_cuts : /\ sol.g = (IF d = "fw" THEN l[n] ELSE 0)
                               /\ sol.h = (IF d = "fw" THEN 0 ELSE l[n])
  BY <1>10, <1>11 DEF Cut
<1>13. Cost(sol) = l[n]
  BY <1>9, <1>12 DEF Cost
<1>14. QED
  BY <1>5, <1>13

\* The first step registers the empty plan, if it is one: nothing has been found
\* yet that it could be too dear for.
LEMMA EmptyPlanIsRegistered ==
    ASSUME EngineInv, PlansInv, StartStep, pc = "init", plan = {}, sym_cuts = {},
           task.init \in task.goal
    PROVE  \E sol \in sym_cuts' : sol.g = 0 /\ sol.h = 0 /\ task.init \in sol.cut
<1>1. Base /\ TypeOK
  BY WhatHolds DEF EngineInv
<1>2. PICK s0 : s0 = [g |-> 0, h |-> 0, cut |-> {task.init}]
  OBVIOUS
<1>3. PICK sols : sols = {s0}
  OBVIOUS
<1>4. EmptyPlan = sols
  BY <1>2, <1>3 DEF EmptyPlan
<1>5. GoodCuts(sols) /\ IsFiniteSet(sols)
  <2>1. GoodCuts(sols)
    BY <1>1, <1>4, EmptyPlanIsGood
  <2>2. QED
    BY <2>1, ApartIsFinite DEF GoodCuts
<1>6. PICK e \in Reported("fw", sols) : sym_cuts' = e.cuts
  BY <1>4 DEF StartStep
<1>7. PICK I : I = {b \in Kept(sols) : b = Now \/ RegisteredIn(s0, b.cuts)}
  OBVIOUS
<1>8. Now \in Fields /\ Now.cuts = {} /\ Now.lower = lower_bound /\ Now.upper = upper_bound
  BY <1>1 DEF Now, Fields, TypeOK, EngineTypeOK
<1>9. Now \in Kept(sols)
  <2>1. GoodCuts({})
    BY DEF GoodCuts, Apart
  <2>2. Now.upper <= upper_bound
    BY <1>1, <1>8, OptionFacts
  <2>3. QED
    BY <1>8, <2>1, <2>2 DEF Kept
<1>10. s0 \in Cuts /\ GoodCut(s0)
  BY <1>3, <1>5 DEF GoodCuts
<1>11. ASSUME NEW b \in I PROVE RegisteredIn(s0, NewSolution(b, s0).cuts)
  <2>1. b \in Kept(sols) /\ b \in Fields /\ GoodCuts(b.cuts)
    BY <1>7 DEF Kept
  <2>2. PICK cuts : cuts = Merged(b.cuts, s0)
    OBVIOUS
  <2>3. RegisteredIn(s0, cuts)
    BY <1>10, <2>1, <2>2, MergedFacts
  <2>4. CASE FoundEnoughPlans(plan) \/ BeyondQuality(b.lower, CheapestFound(b.cuts))
    <3>1. NewSolution(b, s0).cuts = b.cuts
      BY <2>1, <2>4 DEF NewSolution, Fields
    <3>2. b # Now
      <4> SUFFICES ASSUME b = Now PROVE FALSE
        OBVIOUS
      <4>1. ~FoundEnoughPlans(plan)
        BY <1>1, FS_EmptySet, OptionFacts DEF FoundEnoughPlans, HasSelector
      <4>2. CheapestFound({}) = INT_MAX
        <5>1. PICK S : S = {Cost(sol) : sol \in {}} \cup {PlanCost(p) : p \in plan} \cup {INT_MAX}
          OBVIOUS
        <5>2. S = {INT_MAX} /\ INT_MAX \in Nat
          BY <5>1, IntMaxAssumption
        <5>3. Min(S) \in S
          BY <5>2, MinFacts
        <5>4. CheapestFound({}) = Min(S)
          BY <5>1 DEF CheapestFound
        <5>5. QED
          BY <5>2, <5>3, <5>4
      <4>3. BeyondQuality(lower_bound, INT_MAX)
        BY <1>8, <2>4, <4>1, <4>2
      <4>4. QualityAsked
        <5>1. task.quality.by # 0
          <6>1. lower_bound * 0 = 0 /\ INT_MAX * task.quality.of \in Nat
            BY <1>1, OptionFacts
          <6>2. QED
            BY <4>3, <6>1 DEF BeyondQuality
        <5>2. QED
          BY <4>3, <5>1 DEF QualityAsked, BeyondQuality
      <4>5. QED
        BY <1>1, <4>3, <4>4, QualityAdmits, OptionFacts
    <3>3. QED
      BY <1>7, <3>1, <3>2
  <2>5. CASE ~ (FoundEnoughPlans(plan) \/ BeyondQuality(b.lower, CheapestFound(b.cuts)))
    <3>1. NewSolution(b, s0).cuts = cuts
      BY <2>1, <2>2, <2>5 DEF NewSolution, Fields
    <3>2. QED
      BY <2>3, <3>1
  <2>6. QED
    BY <2>4, <2>5
<1>12. KeptBy(I, sols)
  <2>1. ASSUME NEW b \in I, NEW sol \in sols PROVE NewSolution(b, sol) \in I
    <3>1. b \in Kept(sols) /\ sol = s0
      BY <1>3, <1>7
    <3>2. PICK new : new = NewSolution(b, s0)
      OBVIOUS
    <3>3. new \in Kept(sols)
      BY <1>1, <1>3, <1>5, <3>1, <3>2, NewSolutionKept
    <3>4. RegisteredIn(s0, new.cuts)
      BY <1>11, <3>2
    <3>5. QED
      BY <1>7, <3>1, <3>2, <3>3, <3>4
  <2>2. Now \in I
    BY <1>7, <1>9
  <2>3. QED
    BY <2>1, <2>2 DEF KeptBy
<1>13. PICK C : C = {p \in sols \X I : RegisteredIn(p[1], p[2].cuts)}
  OBVIOUS
<1>14. HoldsOnceTold(C, I, sols)
  <2>1. ASSUME NEW b \in I, NEW sol \in sols PROVE <<sol, NewSolution(b, sol)>> \in C
    <3>1. NewSolution(b, sol) \in I
      BY <1>12 DEF KeptBy
    <3>2. sol = s0
      BY <1>3
    <3>3. RegisteredIn(sol, NewSolution(b, sol).cuts)
      BY <1>11, <3>2
    <3>4. PICK new : new = NewSolution(b, sol)
      OBVIOUS
    <3>5. new \in I /\ RegisteredIn(sol, new.cuts)
      BY <3>1, <3>3, <3>4
    <3>6. <<sol, new>> \in C
      BY <1>13, <3>5
    <3>7. QED
      BY <3>4, <3>6
  <2>2. \A s \in sols : s = s0
    BY <1>3
  <2>3. QED
    BY <2>1, <2>2 DEF HoldsOnceTold
<1>15. <<s0, e>> \in C
  <2>1. s0 \in sols
    BY <1>3
  <2>2. QED
    BY <1>5, <1>6, <1>12, <1>14, <2>1, ReportedAll
<1>16. RegisteredIn(s0, e.cuts)
  BY <1>13, <1>15
<1>17. QED
  BY <1>2, <1>6, <1>16 DEF RegisteredIn

-----------------------------------------------------------------------------
(* The upper bound knows the optimum *)

\* Nothing has been found before the first step.
NothingFound == pc = "init" /\ registry = "idle" => plan = {}

\* It stays so until the first step, which finds no plan.
LEMMA NothingFoundNext ==
    ASSUME EngineInv, PlansInv, Begun, NothingFound, [TopKNext]_topkVars
    PROVE  NothingFound'
<1> SUFFICES ASSUME pc' = "init", registry' = "idle" PROVE plan' = {}
  BY DEF NothingFound
<1>1. pc = "init" /\ registry = "idle"
  BY EveryStepIsOnward DEF Onward
<1>2. StartStep \/ UNCHANGED topkVars
  BY <1>1, FreshStep DEF Begun
<1>3. UNCHANGED topkVars
  BY <1>2 DEF StartStep
<1>4. QED
  BY <1>1, <1>3 DEF NothingFound, topkVars, allVars, registryVars

\* The upper bound excludes what costs more than the quality of the optimum admits.
QualityKnown == upper_bound <= QualityBound(Optimum)

\* It does so once all plans of the cost of the optimum have been passed.
OptimumSeen ==
    /\ QualityAsked
    /\ pc # "init" \/ registry # "idle"
    /\ Optimum < Passed
    => FoundEnoughPlans(plan) \/ QualityKnown

\* What the quality is judged by belongs to the task.
LEMMA StableQuality ==
    ASSUME task' = task
    PROVE  /\ QualityAsked' = QualityAsked /\ Optimum' = Optimum
           /\ \A x : QualityBound(x)' = QualityBound(x)
           /\ QualityKnown' <=> upper_bound' <= QualityBound(Optimum)
           /\ \A c : BeyondQuality(c, Optimum)' <=> BeyondQuality(c, Optimum)
BY DEF QualityAsked, Optimum, QualityBound, QualityKnown, BeyondQuality

\* A cut of that cost has lowered the bound.
LEMMA CutTellsQuality ==
    ASSUME task' = task, CutsGraded', QualityAsked, NEW sol \in sym_cuts', Cost(sol) = Optimum
    PROVE  QualityKnown'
<1>1. QualityAsked' = QualityAsked /\ \A x : QualityBound(x)' = QualityBound(x)
  BY StableQuality
<1>2. upper_bound' <= QualityBound(Cost(sol))
  BY <1>1 DEF CutsGraded, GradedBy, Cost
<1>3. QED
  BY <1>2, StableQuality

\* The first step passes the cost of the empty plan only.
LEMMA FirstStepSees ==
    ASSUME Driven, CutsGraded', NothingFound, StartStep, pc = "init", QualityAsked,
           Optimum < Passed', ~FoundEnoughPlans(plan)
    PROVE  QualityKnown'
<1>1. EngineInv /\ PlansInv /\ Fresh /\ Searched
  BY DEF Driven, Searched, ModeInv
<1>2. registry = "idle" /\ task' = task /\ min_g' = min_g
      /\ (lower_bound' = lower_bound \/ (Over /\ lower_bound' = INT_MAX))
  BY <1>1, StartStepFacts
<1>3. sym_cuts = {} /\ min_g = 0 /\ lower_bound = MinTransitionCost(task) /\ plan = {}
  BY <1>1, <1>2 DEF Fresh, NothingFound
<1>4. Base /\ IsTask(task) /\ Optimum \in Nat /\ Optimum <= INT_MAX /\ INT_MAX \in Nat
      /\ lower_bound \in Nat
  BY <1>1, WhatHolds, OptionFacts
<1>5. CASE task.init \in task.goal
  <2>1. PICK sol \in sym_cuts' : Cost(sol) = 0
    BY <1>1, <1>3, <1>5, EmptyPlanIsRegistered DEF Cost
  <2>2. Optimum = 0
    <3>1. "bw" \in Dir /\ task.init \in State
      BY <1>4 DEF Dir, IsTask
    <3>2. task.dist["bw"][task.init] = 0
      BY <1>4, <1>5, <3>1, DistanceFacts DEF Source
    <3>3. QED
      BY <3>2 DEF Optimum, OptimalCost
  <2>3. QED
    BY <1>2, <2>1, <2>2, CutTellsQuality
<1>6. CASE task.init \notin task.goal
  <2>1. lower_bound <= Optimum
    <3>1. "bw" \in Dir /\ task.init \in State \ Source(task, "bw")
      BY <1>4, <1>6 DEF Dir, IsTask, Source
    <3>2. Optimum = task.dist["bw"][task.init]
      BY DEF Optimum, OptimalCost
    <3>3. CASE Optimum < INT_MAX
      <4>1. PICK c \in DOMAIN task.ops : \E x \in State :
               /\ c \in Nat
               /\ task.dist["bw"][task.init] = task.dist["bw"][x] + c
        BY <1>4, <3>1, <3>2, <3>3, CheapestPredecessor
      <4>2. PICK x \in State : c \in Nat /\ Optimum = task.dist["bw"][x] + c
        BY <3>2, <4>1
      <4>3. task.dist["bw"][x] \in Nat
        BY <1>4, <3>1, DistanceFacts
      <4>4. MinTransitionCost(task) <= c
        BY <1>4, MinTransitionCostFacts
      <4>5. QED
        BY <1>3, <1>4, <4>2, <4>3, <4>4
    <3>4. CASE Optimum = INT_MAX
      BY <1>3, <1>4, <3>4, OptionFacts
    <3>5. QED
      BY <1>4, <3>3, <3>4
  <2>2. ~Over
    BY <1>4, <2>1, QualityAdmits DEF Over
  <2>3. lower_bound' = lower_bound /\ min_g' = 0
    BY <1>2, <1>3, <2>2
  <2>4. ~ (Optimum < Passed')
    BY <1>4, <2>1, <2>3 DEF Passed, GreaterOf
  <2>5. QED
    BY <2>4
<1>7. QED
  BY <1>5, <1>6

\* A later step passes the optimum when a cut of its cost is there.
LEMMA LaterStepSees ==
    ASSUME Driven, CutsKept, CutsGraded', [TopKNext]_topkVars, QualityAsked,
           GoingOn, Passed <= Optimum, Optimum < Passed'
    PROVE  QualityKnown'
<1>1. EngineInv /\ PlansInv /\ Begun /\ IsFiniteSet(plan) /\ ListInv /\ Searched
  BY DEF Driven, Searched, ModeInv
<1>2. task' = task /\ Base
  BY <1>1, PlanGrows, WhatHolds
<1>3. /\ Passed \in Nat /\ Passed' \in Nat /\ lower_bound \in Nat /\ lower_bound <= Passed
      /\ INT_MAX \in Nat /\ Passed' <= INT_MAX
  BY <1>1, BoundsRise
<1>4. Optimum \in Nat /\ Optimum < INT_MAX
  BY <1>2, <1>3, OptionFacts
<1>5. ~Deaf
  <2>1. ~FoundEnoughPlans(plan)
    BY DEF GoingOn
  <2>2. lower_bound <= Optimum
    BY <1>3, <1>4
  <2>3. ~BeyondQuality(lower_bound, Optimum)
    BY <1>2, <1>3, <1>4, <2>2, QualityAdmits
  <2>4. QED
    BY <1>3, <1>4, <2>1, <2>2, <2>3 DEF Deaf, Over
<1>6. PICK m : m = Passed
  OBVIOUS
<1>7. CutsInv(m)'
  BY <1>5, <1>6, CutsGoOn DEF CutsKept
<1>8. PICK x : x = Optimum
  OBVIOUS
<1>9. IsPassed(x)' \/ \E d \in Searches : NoMorePlans(d)
  BY <1>4, <1>5, <1>8, RaisedIsPassed
<1>10. CASE \E d \in Searches : NoMorePlans(d)
  <2>1. PICK d \in Searches : NoMorePlans(d)
    BY <1>10
  <2>2. CutsInv(m)
    BY <1>6 DEF CutsKept
  <2>3. PICK sol \in sym_cuts : Cost(sol) = Optimum
    BY <1>1, <1>3, <1>4, <1>6, <2>1, <2>2, CheapestIsCut
  <2>4. sym_cuts' = sym_cuts
    BY <2>1 DEF NoMorePlans
  <2>5. QED
    BY <1>2, <2>3, <2>4, CutTellsQuality
<1>11. CASE IsPassed(x)'
  <2>1. PICK p, w, l : Course(p, w, l) /\ l[Len(p)] = x
    BY <1>1, <1>4, <1>8, SearchedFacts, OptimalCourse
  <2>2. Searched'
    BY <1>1, TopKInvNext, ListInvNext DEF Searched
  <2>3. Course(p, w, l)'
    BY <1>2, <2>1, StableCourse
  <2>4. HandledIfPassed'
    BY HandledIfPassedHolds, PTL
  <2>5. m \in Nat /\ m <= x /\ x < INT_MAX
    BY <1>3, <1>4, <1>6, <1>8
  <2>6. Handled(w, l, Len(p))'
    BY <1>7, <1>11, <2>1, <2>2, <2>3, <2>4, <2>5 DEF HandledIfPassed
  <2>7. PICK j \in Joints(Len(p)), sol \in sym_cuts' : sol.g = l[j] /\ sol.h = x - l[j]
    BY <2>1, <2>6 DEF Handled, Joints
  <2>8. l[j] \in Nat
    <3>1. j \in 0 .. Len(p)
      <4>1. Len(p) \in Nat
        BY <1>1, <2>1, SearchedFacts, CourseIsWalk
      <4>2. QED
        BY <4>1 DEF Joints
    <3>2. QED
      BY <2>1, <3>1 DEF Course
  <2>9. Cost(sol) = Optimum
    BY <1>4, <1>8, <2>7, <2>8 DEF Cost
  <2>10. QED
    BY <1>2, <2>9, CutTellsQuality
<1>12. QED
  BY <1>9, <1>10, <1>11

\* OptimumSeen is inductive.
LEMMA OptimumSeenNext ==
    ASSUME Driven, CutsKept, CutsGraded', NothingFound, OptimumSeen, [TopKNext]_topkVars
    PROVE  OptimumSeen'
<1>1. EngineInv /\ PlansInv /\ Begun /\ IsFiniteSet(plan) /\ Searched
  BY DEF Driven, Searched, ModeInv
<1>2. task' = task /\ Base
  BY <1>1, PlanGrows, WhatHolds
<1>3. SUFFICES ASSUME QualityAsked, pc' # "init" \/ registry' # "idle",
                      Optimum < Passed', ~FoundEnoughPlans(plan)', ~QualityKnown'
               PROVE  FALSE
  BY <1>2, StableQuality DEF OptimumSeen
<1>4. ~FoundEnoughPlans(plan)
  BY <1>1, <1>3, EnoughStays
<1>5. /\ Passed \in Nat /\ Passed' \in Nat
      /\ lower_bound \in Nat /\ lower_bound <= Passed
      /\ upper_bound \in Nat /\ upper_bound' \in Nat /\ upper_bound' <= upper_bound
  BY <1>1, BoundsRise
<1>6. Optimum \in Nat
  BY <1>2, OptionFacts
<1>7. PICK q : q = QualityBound(Optimum)
  OBVIOUS
<1>8. q \in Nat /\ Optimum < q
  BY <1>2, <1>3, <1>6, <1>7, QualityAdmits
<1>9. ~(upper_bound' <= q) /\ ~(upper_bound <= q)
  <2>1. ~(upper_bound' <= q)
    BY <1>2, <1>3, <1>7, StableQuality
  <2>2. QED
    BY <1>5, <1>8, <2>1
<1>10. CASE pc # "init" \/ registry # "idle"
  <2>1. ~QualityKnown
    BY <1>7, <1>9 DEF QualityKnown
  <2>2. Passed <= Optimum
    BY <1>3, <1>4, <1>5, <1>6, <1>10, <2>1 DEF OptimumSeen
  <2>3. GoingOn
    BY <1>4, <1>5, <1>6, <1>8, <1>9, <1>10, <2>2 DEF GoingOn
  <2>4. QED
    BY <1>3, <2>2, <2>3, LaterStepSees
<1>11. CASE pc = "init" /\ registry = "idle"
  <2>1. StartStep \/ UNCHANGED topkVars
    BY <1>1, <1>11, FreshStep DEF Begun
  <2>2. ~UNCHANGED topkVars
    BY <1>3, <1>11 DEF topkVars, allVars, vars, control, registryVars
  <2>3. QED
    BY <1>3, <1>4, <1>11, <2>1, <2>2, FirstStepSees
<1>12. QED
  BY <1>10, <1>11

-----------------------------------------------------------------------------
(* The quality of the plans *)

\* What symq constructs plans of costs less than both bounds.
LimitBelowBounds ==
    QualityAsked /\ registry # "idle" => limit <= lower_bound /\ limit <= upper_bound

\* Every step keeps that.
LEMMA LimitBelowBoundsNext ==
    ASSUME EngineInv, PlansInv, LimitBelowBounds, [TopKNext]_topkVars
    PROVE  LimitBelowBounds'
<1>1. task' = task
  BY PlanGrows
<1>2. SUFFICES ASSUME QualityAsked, registry' # "idle"
               PROVE  limit' <= lower_bound' /\ limit' <= upper_bound'
  BY <1>1, StableQuality DEF LimitBelowBounds
<1>3. CASE StartStep
  <2>1. /\ limit' = IF lower_bound' >= upper_bound' THEN Remaining(upper_bound')
                    ELSE IF lower_bound_increased THEN lower_bound' ELSE 0
        /\ lower_bound' \in Nat /\ upper_bound' \in Nat
    BY <1>3, StartStepFacts
  <2>2. Remaining(upper_bound') = upper_bound'
    BY <1>2 DEF QualityAsked, Remaining
  <2>3. QED
    BY <2>1, <2>2
<1>4. CASE registry # "idle" /\ UNCHANGED <<limit, lower_bound, upper_bound>>
  BY <1>2, <1>4 DEF LimitBelowBounds
<1>5. CASE ConstructNext
  BY <1>4, <1>5 DEF ConstructNext
<1>6. CASE ReconstructPlan
  BY <1>4, <1>6 DEF ReconstructPlan, vars, engine
<1>7. CASE EndStep
  BY <1>2, <1>7 DEF EndStep
<1>8. CASE SearchStep
  BY <1>2, <1>8 DEF SearchStep, registryVars
<1>9. CASE UNCHANGED topkVars
  BY <1>2, <1>4, <1>9 DEF topkVars, allVars, vars, engine, registryVars
<1>10. QED
  BY <1>3, <1>5, <1>6, <1>7, <1>8, <1>9 DEF TopKNext, TopKDone

\* The nodes that wait are to become plans within the quality.
NodesWithinQuality == \A n \in queue : ~BeyondQuality(NodeCost(n), Optimum)

\* So are the cuts that a reconstruction starts from: what costs less than the
\* limit has been passed, so the bound that it costs less than knows the optimum.
LEMMA DueWithinQuality ==
    ASSUME Driven, OptimumSeen, LimitBelowBounds, registry # "idle",
           ~FoundEnoughPlans(plan), NEW sol \in Due
    PROVE  ~BeyondQuality(Cost(sol), Optimum)
<1>1. EngineInv /\ PlansInv
  BY DEF Driven, Searched
<1>2. Base /\ Optimum \in Nat /\ Optimum <= Cost(sol) /\ Cost(sol) \in Nat
  BY <1>1, WhatHolds, OptionFacts, CutFacts DEF Due, GoodCut
<1>3. CASE ~QualityAsked
  <2>1. Cost(sol) * 0 = 0 /\ Optimum * task.quality.of \in Nat
    BY <1>2, OptionFacts
  <2>2. QED
    BY <1>3, <2>1 DEF QualityAsked, BeyondQuality
<1>4. CASE QualityAsked
  <2>1. limit <= lower_bound /\ limit <= upper_bound /\ Cost(sol) < limit
    BY <1>4 DEF LimitBelowBounds, Due
  <2>2. lower_bound \in Nat /\ upper_bound \in Nat /\ min_g \in Nat /\ limit \in Nat
    BY <1>1, <1>2, OptionFacts, LevelFacts DEF EngineInv, TypeOK, EngineTypeOK
  <2>3. Optimum < Passed
    BY <1>2, <2>1, <2>2 DEF Passed, GreaterOf
  <2>4. QualityKnown
    BY <1>4, <2>3 DEF OptimumSeen
  <2>5. PICK q : q = QualityBound(Optimum) /\ q \in Nat
    BY <1>2, <1>4, QualityAdmits
  <2>6. Cost(sol) < q
    BY <1>2, <2>1, <2>2, <2>4, <2>5 DEF QualityKnown
  <2>7. QED
    BY <1>2, <1>4, <2>5, <2>6, QualityAdmits
<1>5. QED
  BY <1>3, <1>4

\* The quality is kept by every step.
LEMMA QualityNext ==
    ASSUME Driven, OptimumSeen, LimitBelowBounds, NodesWithinQuality, PlansWithinQuality,
           [TopKNext]_topkVars
    PROVE  NodesWithinQuality' /\ PlansWithinQuality'
<1>1. EngineInv /\ PlansInv
  BY DEF Driven, Searched
<1>2. /\ task' = task
      /\ \A n : NodeCost(n)' = NodeCost(n)
      /\ \A c : BeyondQuality(c, Optimum)' <=> BeyondQuality(c, Optimum)
      /\ \A p : PlanCost(p)' = PlanCost(p)
  BY <1>1, PlanGrows, StableNodeCost, StableQuality DEF PlanCost
<1>3. SUFFICES /\ \A n \in queue' : ~BeyondQuality(NodeCost(n), Optimum)
               /\ \A p \in plan' : ~BeyondQuality(PlanCost(p), Optimum)
  <2>1. ASSUME \A n \in queue' : ~BeyondQuality(NodeCost(n), Optimum)
        PROVE  NodesWithinQuality'
    <3>1. SUFFICES ASSUME NEW n \in queue' PROVE ~BeyondQuality(NodeCost(n), Optimum)'
      BY DEF NodesWithinQuality
    <3>2. QED
      BY <1>2, <2>1 DEF BeyondQuality
  <2>2. ASSUME \A p \in plan' : ~BeyondQuality(PlanCost(p), Optimum)
        PROVE  PlansWithinQuality'
    <3>1. SUFFICES ASSUME NEW p \in plan' PROVE ~BeyondQuality(PlanCost(p), Optimum)'
      BY DEF PlansWithinQuality
    <3>2. QED
      BY <1>2, <2>2 DEF BeyondQuality
  <2>3. QED
    BY <2>1, <2>2
<1>4. CASE ConstructNext
  <2>1. PICK f \in Nat : /\ \E sol \in Due : Cost(sol) = f
                         /\ \A n \in queue' : NodeCost(n) = f
    BY <1>1, <1>4, FirstCost
  <2>2. registry # "idle" /\ ~FoundEnoughPlans(plan) /\ plan' = plan
    BY <1>4 DEF ConstructNext
  <2>3. ~BeyondQuality(f, Optimum)
    BY <2>1, <2>2, DueWithinQuality
  <2>4. QED
    BY <2>1, <2>2, <2>3 DEF PlansWithinQuality
<1>5. CASE ReconstructPlan
  <2>1. PICK f \in Nat :
              /\ queue # {} /\ \A n \in queue : NodeCost(n) = f
              /\ \A n \in queue' : NodeCost(n) = f
              /\ \A p \in plan' \ plan : PlanCost(p) = f
    BY <1>1, <1>5, OneCost
  <2>2. ~BeyondQuality(f, Optimum)
    BY <2>1 DEF NodesWithinQuality
  <2>3. QED
    BY <2>1, <2>2 DEF PlansWithinQuality
<1>6. CASE queue' = queue /\ plan' = plan
  BY <1>6 DEF NodesWithinQuality, PlansWithinQuality
<1>7. CASE StartStep
  BY <1>6, <1>7 DEF StartStep
<1>8. CASE EndStep
  BY <1>6, <1>8 DEF EndStep
<1>9. CASE SearchStep
  BY <1>6, <1>9 DEF SearchStep, registryVars
<1>10. CASE UNCHANGED topkVars
  BY <1>6, <1>10 DEF topkVars, allVars, registryVars
<1>11. QED
  BY <1>4, <1>5, <1>7, <1>8, <1>9, <1>10 DEF TopKNext, TopKDone

\* What makes the quality of the plans inductive.
QualityInv ==
    /\ Driven /\ CutsKept /\ CutsGraded /\ NothingFound /\ OptimumSeen
    /\ LimitBelowBounds /\ NodesWithinQuality /\ PlansWithinQuality

\* At the start there is no cut, no node and no plan.
LEMMA QualityInit == TopKInit => QualityInv
<1> SUFFICES ASSUME TopKInit PROVE QualityInv
  OBVIOUS
<1>1. Driven /\ CutsKept
  BY CompleteInit DEF CompleteInv
<1>2. sym_cuts = {} /\ pc = "init" /\ registry = "idle" /\ queue = {} /\ plan = {}
  BY DEF TopKInit, RegistryInit, Init
<1>3. QED
  BY <1>1, <1>2 DEF QualityInv, CutsGraded, GradedBy, NothingFound, OptimumSeen, LimitBelowBounds,
                    NodesWithinQuality, PlansWithinQuality

\* QualityInv is inductive.
LEMMA QualityInvNext == QualityInv /\ [TopKNext]_topkVars => QualityInv'
<1> SUFFICES ASSUME QualityInv, [TopKNext]_topkVars PROVE QualityInv'
  OBVIOUS
<1>1. /\ Driven /\ CutsKept /\ CutsGraded /\ NothingFound /\ OptimumSeen
      /\ LimitBelowBounds /\ NodesWithinQuality /\ PlansWithinQuality
      /\ Searched /\ EngineInv /\ PlansInv /\ Begun /\ ModeInv
  BY DEF QualityInv, Driven, Searched
<1>2. Driven'
  BY <1>1, TopKInvNext, ListInvNext, BegunNext, ModeInvNext DEF Driven, Searched
<1>3. CutsKept' /\ CutsGraded' /\ NothingFound'
  BY <1>1, CutsKeptNext, CutsGradedNext, NothingFoundNext
<1>4. OptimumSeen' /\ LimitBelowBounds'
  BY <1>1, <1>3, OptimumSeenNext, LimitBelowBoundsNext
<1>5. NodesWithinQuality' /\ PlansWithinQuality'
  BY <1>1, QualityNext
<1>6. QED
  BY <1>2, <1>3, <1>4, <1>5 DEF QualityInv

\* Every plan that symq reports is within the quality asked for, measured by the
\* optimum and not by what it has found first: before a cut costs less than the
\* lower bound, a cheapest plan has been cut too, also where a direction gives up
\* because its open states are on no goal path, and that cut has lowered the upper
\* bound to what the quality of the optimum admits.
THEOREM ReportedPlansAreWithinQuality == TopKSpec => []PlansWithinQuality
<1>1. QualityInv => PlansWithinQuality
  BY DEF QualityInv
<1>2. QED
  BY <1>1, QualityInit, QualityInvNext, PTL DEF TopKSpec

-----------------------------------------------------------------------------
(* Where the closed states come from *)

\* A state that is closed or open is a source, or the end of an operator that
\* begins in a closed state.
TracedBack == \A d \in Searches : \A g \in Level :
    \A s \in closed[d][g] \cup open[d][g] : Traceable(d, g, s)

\* What has been traced back can be traced further on.
LEMMA TraceStays ==
    ASSUME task' = task, \A b \in Dir : \A k \in Level : closed[b][k] \subseteq closed'[b][k],
           NEW d \in Dir, NEW g \in Level, NEW s, Traceable(d, g, s), IsTask(task)
    PROVE  Traceable(d, g, s)'
<1>1. CASE g = 0 /\ s \in Source(task, d)
  BY <1>1 DEF Traceable
<1>2. CASE \E c \in DOMAIN task.ops : c <= g /\ \E r \in closed[d][g - c] : Edge(task, d, c, r, s)
  <2>1. PICK c \in DOMAIN task.ops : c <= g /\ \E r \in closed[d][g - c] : Edge(task, d, c, r, s)
    BY <1>2
  <2>2. c \in Nat /\ g - c \in Level
    <3>1. c \in Nat /\ g \in Nat
      BY MinTransitionCostFacts, LevelFacts
    <3>2. QED
      BY <2>1, <3>1, IntMaxAssumption DEF Level
  <2>3. closed[d][g - c] \subseteq closed'[d][g - c]
    BY <2>2
  <2>4. QED
    BY <2>1, <2>3 DEF Traceable
<1>3. QED
  BY <1>1, <1>2 DEF Traceable

\* TracedBack is inductive.
LEMMA TracedBackNext ==
    ASSUME Searched, TracedBack, [TopKNext]_topkVars
    PROVE  TracedBack'
<1>1. EngineInv /\ PlansInv /\ ListInv /\ IsTask(task) /\ \A d \in Searches : d \in Dir
  BY SearchedFacts DEF Searched
<1>2. task' = task
  BY <1>1, PlanGrows
<1>3. \A b \in Dir : \A k \in Level : closed[b][k] \subseteq closed'[b][k]
  BY <1>1, ClosedGrowsNext DEF ClosedGrows
<1>4. SUFFICES ASSUME NEW d \in Searches, NEW g \in Level, NEW s \in closed'[d][g] \cup open'[d][g]
               PROVE  Traceable(d, g, s) \/ Traceable(d, g, s)'
  BY <1>1, <1>2, <1>3, TraceStays DEF TracedBack
<1>5. SUFFICES ASSUME s \notin closed[d][g] \cup open[d][g]
               PROVE  Traceable(d, g, s) \/ Traceable(d, g, s)'
  BY DEF TracedBack
<1>6. CASE Resting
  BY <1>4, <1>5, <1>6 DEF Resting
<1>7. CASE \E b \in Searches : Filtered(b)
  BY <1>4, <1>5, <1>7 DEF Filtered
<1>8. CASE \E b \in Searches : \E k, new : Popping(b, k, new)
  <2>1. PICK b, k, new : b \in Searches /\ Popping(b, k, new)
    BY <1>8
  <2>2. /\ k \in Level /\ new \subseteq open[b][k]
        /\ \A j \in Level : open'[b][j] = IF j = k THEN {} ELSE open[b][j]
        /\ \A e \in Searches \ {b} : open'[e] = open[e]
        /\ s \in closed'[d][g] <=> s \in closed[d][g] \/ (d = b /\ g = k /\ s \in new)
    BY <1>1, <2>1 DEF Popping
  <2>3. QED
    BY <1>4, <1>5, <2>2
<1>9. CASE \E b \in Searches : Imaging(b)
  <2>1. PICK b \in Searches : Imaging(b)
    BY <1>9
  <2>2. /\ closed' = closed /\ \A e \in Searches \ {b} : open'[e] = open[e]
        /\ \A y \in open'[b][g] \ open[b][g] :
              \E c \in CostsOf(frontier[b].phase) : /\ g = frontier[b].g + c
                                                    /\ y \in Image(task, b, c, frontier[b].states)
    BY <2>1 DEF Imaging
  <2>3. d = b /\ s \in open'[d][g] \ open[d][g]
    BY <1>4, <1>5, <2>2
  <2>4. PICK c \in CostsOf(frontier[d].phase) : /\ g = frontier[d].g + c
                                                /\ s \in Image(task, d, c, frontier[d].states)
    BY <2>2, <2>3
  <2>5. PICK r \in frontier[d].states : Edge(task, d, c, r, s)
    BY <2>4 DEF Image
  <2>6. c \in DOMAIN task.ops /\ c \in Nat /\ frontier[d].g \in Nat
    BY <1>1, SearchedFacts DEF CostsOf
  <2>7. r \in closed[d][frontier[d].g]
    BY <1>1, <2>5 DEF EngineInv
  <2>8. g - c = frontier[d].g /\ c <= g
    BY <2>4, <2>6
  <2>9. Traceable(d, g, s)
    BY <2>5, <2>6, <2>7, <2>8 DEF Traceable
  <2>10. QED
    BY <2>9
<1>10. QED
  BY <1>1, <1>6, <1>7, <1>8, <1>9, TopKStepKinds

-----------------------------------------------------------------------------
(* The lists when no operator is free *)

\* The image of the frontier does not fit an int.
TooFar(d) == \E c \in DOMAIN task.ops : frontier[d].g + c >= INT_MAX

\* Without free operators a direction closes one level after the other: what it
\* has closed is no dearer than its frontier, what is open is dearer, and the
\* lower bound is above the frontier.
Upwards ==
    ~HasZeroCost(task) => \A d \in Searches :
        /\ \A g \in Level : closed[d][g] # {} => g <= frontier[d].g
        /\ \A k \in Keys(open[d]) : frontier[d].g < k
        /\ frontier[d].phase # "empty" => frontier[d].g < lower_bound \/ TooFar(d)

\* A bucket is popped by PopBucket alone.
LEMMA PoppingIsPopBucket ==
    ASSUME EngineInv, [TopKNext]_topkVars, NEW d \in Searches, NEW g, NEW new, Popping(d, g, new)
    PROVE  PopBucket(d)
<1>1. PopReady(d) /\ g \in Level /\ open[d][g] # {} /\ open'[d][g] = {}
  BY DEF Popping, Keys
<1>2. open' # open /\ pc # "expand" /\ dir = d
  BY <1>1 DEF PopReady
<1>3. SearchStep
  BY <1>2 DEF TopKNext, TopKDone, StartStep, ConstructNext, ReconstructPlan, EndStep, topkVars, allVars,
     vars, search
<1>4. PICK b \in Searches : PopBucket(b)
  BY <1>2, <1>3 DEF SearchStep, NoMorePlans, ExpandFrontier, Inherited, BucketReady, Prepare,
     PrepareTruncated, ExpandTruncated, Finish, Return, search
<1>5. dir = b
  BY <1>4, PopBucketFacts DEF PopReady
<1>6. QED
  BY <1>2, <1>4, <1>5

\* The frontier that has just been popped is below the lower bound.
LEMMA PoppedIsBelow ==
    ASSUME Searched, TracedBack, Upwards, ~HasZeroCost(task), [TopKNext]_topkVars,
           NEW d \in Searches, NEW g, NEW new, Popping(d, g, new)
    PROVE  g < lower_bound' \/ TooFar(d)'
<1>1. EngineInv /\ PlansInv /\ d \in Dir
  BY SearchedFacts DEF Searched
<1>2. PICK m : m = MinTransitionCost(task)
  OBVIOUS
<1>3. /\ m \in Nat /\ m \in Level /\ m # 0 /\ INT_MAX \in Nat
      /\ \A k : k \in Level <=> k \in Nat /\ k <= INT_MAX
      /\ frontier[d].g \in Nat /\ IsTask(task)
  BY <1>2, SearchedFacts DEF HasZeroCost
<1>4. /\ g \in Level /\ g \in Nat /\ g \in Keys(open[d]) /\ \A k \in Keys(open[d]) : g <= k
      /\ frontier'[d].g = g /\ task' = task
      /\ \A k \in Level : open'[d][k] = IF k = g THEN {} ELSE open[d][k]
  BY <1>3 DEF Popping
<1>5. frontier[d].g < g
  BY <1>4 DEF Upwards
<1>6. PICK c \in DOMAIN task.ops : TRUE
  <2>1. PICK s \in open[d][g] : TRUE
    BY <1>4 DEF Keys
  <2>2. Traceable(d, g, s) /\ g # 0
    BY <1>3, <1>4, <1>5, <2>1 DEF TracedBack
  <2>3. QED
    BY <2>2 DEF Traceable
<1>7. SUFFICES ASSUME ~TooFar(d)' PROVE g < lower_bound'
  OBVIOUS
<1>8. \A k \in DOMAIN task.ops : g + k < INT_MAX
  <2>1. \A k \in DOMAIN task.ops : k \in Nat
    BY SearchedFacts
  <2>2. QED
    BY <1>3, <1>4, <1>7, <2>1 DEF TooFar
<1>9. g + m < INT_MAX
  <2>1. m <= c /\ c \in Nat /\ g + c < INT_MAX
    BY <1>2, <1>6, <1>8, SearchedFacts
  <2>2. QED
    BY <1>3, <1>4, <2>1
<1>10. PICK x : x = GetF(frontier'[d], open'[d])
  OBVIOUS
<1>11. lower_bound' = GreaterOf(lower_bound, x) \/ lower_bound' = INT_MAX
  BY <1>1, <1>10, PoppingIsPopBucket, PopBounds
<1>12. lower_bound' \in Nat /\ lower_bound \in Nat /\ x \in Int
  BY <1>1, <1>10, PoppingIsPopBucket, PopBounds, LevelFacts DEF EngineInv, TypeOK, EngineTypeOK
<1>13. g < x
  <2>1. EngineInv'
    BY <1>1, TopKInvNext
  <2>2. open'[d] \in Levels
    BY <2>1 DEF EngineInv, TypeOK
  <2>3. MinG(open'[d]) \in Nat /\ g < MinG(open'[d])
    <3>1. CASE Keys(open'[d]) = {}
      BY <1>3, <1>4, <1>9, <3>1 DEF MinG
    <3>2. CASE Keys(open'[d]) # {}
      <4>1. MinG(open'[d]) \in Keys(open'[d])
        BY <2>2, <3>2, MinGFacts
      <4>2. \A k \in Keys(open'[d]) : k \in Level /\ k # g /\ k \in Keys(open[d])
        BY <1>4 DEF Keys
      <4>3. g <= MinG(open'[d]) /\ MinG(open'[d]) # g /\ MinG(open'[d]) \in Nat
        BY <1>3, <1>4, <4>1, <4>2
      <4>4. QED
        BY <1>4, <4>3
    <3>3. QED
      BY <3>1, <3>2
  <2>4. Plus(g, m) = g + m
    BY <1>3, <1>4, <1>9, PlusFacts
  <2>5. GetF(frontier'[d], open'[d]) =
            LesserOf(MinG(open'[d]), IF frontier'[d].phase = "empty" THEN INT_MAX ELSE g + m)
    BY <1>2, <1>4, <2>4 DEF GetF
  <2>6. QED
    BY <1>3, <1>4, <1>9, <1>10, <2>3, <2>5 DEF LesserOf
<1>14. QED
  BY <1>3, <1>4, <1>9, <1>11, <1>12, <1>13 DEF GreaterOf

\* Upwards is inductive.
LEMMA UpwardsNext ==
    ASSUME Searched, TracedBack, Upwards, [TopKNext]_topkVars
    PROVE  Upwards'
<1>1. EngineInv /\ PlansInv /\ ListInv /\ IsTask(task)
  BY SearchedFacts DEF Searched
<1>2. task' = task
  BY <1>1, PlanGrows
<1>3. SUFFICES ASSUME ~HasZeroCost(task), NEW d \in Searches
               PROVE  /\ \A g \in Level : closed'[d][g] # {} => g <= frontier'[d].g
                      /\ \A k \in Keys(open'[d]) : frontier'[d].g < k
                      /\ frontier'[d].phase # "empty" => frontier'[d].g < lower_bound' \/ TooFar(d)'
  BY <1>2 DEF Upwards
<1>4. /\ frontier[d].g \in Nat /\ d \in Dir
      /\ \A k : k \in Level <=> k \in Nat /\ k <= INT_MAX
  BY SearchedFacts
<1>5. /\ \A g \in Level : closed[d][g] # {} => g <= frontier[d].g
      /\ \A k \in Keys(open[d]) : frontier[d].g < k
      /\ frontier[d].phase # "empty" => frontier[d].g < lower_bound \/ TooFar(d)
  BY <1>3 DEF Upwards
<1>6. lower_bound \in Nat /\ lower_bound' \in Nat /\ lower_bound <= lower_bound'
  BY <1>1, BoundsRise
<1>7. ASSUME frontier'[d].g = frontier[d].g, frontier'[d].phase # "empty" => frontier[d].phase # "empty"
      PROVE  frontier'[d].phase # "empty" => frontier'[d].g < lower_bound' \/ TooFar(d)'
  <2>1. TooFar(d)' = TooFar(d)
    BY <1>2, <1>7 DEF TooFar
  <2>2. QED
    BY <1>4, <1>5, <1>6, <1>7, <2>1
<1>8. CASE Resting
  BY <1>5, <1>7, <1>8 DEF Resting
<1>9. CASE \E b \in Searches : Filtered(b)
  <2>1. PICK b \in Searches : Filtered(b)
    BY <1>9
  <2>2. /\ open' = open /\ closed' = closed /\ frontier'[d].g = frontier[d].g
        /\ frontier'[d].phase # "empty" => frontier[d].phase # "empty"
    BY <2>1 DEF Filtered
  <2>3. QED
    BY <1>5, <1>7, <2>2
<1>10. CASE \E b \in Searches : \E k, new : Popping(b, k, new)
  <2>1. PICK b, k, new : b \in Searches /\ Popping(b, k, new)
    BY <1>10
  <2>2. CASE b # d
    <3>1. open'[d] = open[d] /\ frontier'[d] = frontier[d]
          /\ \A g \in Level : \A s : s \in closed'[d][g] <=> s \in closed[d][g]
      BY <1>4, <2>1, <2>2 DEF Popping
    <3>2. \A g \in Level : closed'[d][g] # {} => closed[d][g] # {}
      BY <3>1
    <3>3. QED
      BY <1>5, <1>7, <3>1, <3>2
  <2>3. CASE b = d
    <3>1. /\ k \in Level /\ k \in Keys(open[d]) /\ \A j \in Keys(open[d]) : k <= j
          /\ frontier'[d].g = k
          /\ \A j \in Level : open'[d][j] = IF j = k THEN {} ELSE open[d][j]
          /\ \A g \in Level : \A s :
                s \in closed'[d][g] <=> s \in closed[d][g] \/ (g = k /\ s \in new)
      BY <1>4, <2>1, <2>3 DEF Popping
    <3>2. frontier[d].g < k /\ k \in Nat
      BY <1>4, <1>5, <3>1
    <3>3. ASSUME NEW g \in Level, closed'[d][g] # {} PROVE g <= k
      <4>1. closed[d][g] # {} \/ g = k
        BY <3>1, <3>3
      <4>2. QED
        BY <1>4, <1>5, <3>2, <4>1
    <3>4. ASSUME NEW j \in Keys(open'[d]) PROVE k < j
      <4>1. j \in Level /\ j # k /\ j \in Keys(open[d])
        BY <3>1 DEF Keys
      <4>2. k <= j /\ j \in Nat
        BY <1>4, <3>1, <4>1
      <4>3. QED
        BY <3>2, <4>1, <4>2
    <3>5. k < lower_bound' \/ TooFar(d)'
      BY <1>3, <2>1, <2>3, PoppedIsBelow
    <3>6. QED
      BY <3>1, <3>3, <3>4, <3>5
  <2>4. QED
    BY <2>2, <2>3
<1>11. CASE \E b \in Searches : Imaging(b)
  <2>1. PICK b \in Searches : Imaging(b)
    BY <1>11
  <2>2. /\ closed' = closed /\ frontier'[d].g = frontier[d].g
        /\ frontier'[d].phase # "empty" => frontier[d].phase # "empty"
    <3>1. CASE b = d
      <4>1. Placed(d)
        BY <1>1 DEF ListInv
      <4>2. QED
        BY <2>1, <3>1, <4>1 DEF Imaging, Placed
    <3>2. CASE b # d
      BY <2>1, <3>2 DEF Imaging
    <3>3. QED
      BY <3>1, <3>2
  <2>3. ASSUME NEW k \in Keys(open'[d]), k \notin Keys(open[d]) PROVE frontier[d].g < k
    <3>1. PICK y \in open'[d][k] \ open[d][k] : k \in Level
      BY <2>3 DEF Keys
    <3>2. b = d
      BY <2>1, <3>1 DEF Imaging
    <3>3. PICK c \in CostsOf(frontier[d].phase) : k = frontier[d].g + c
      BY <2>1, <3>1, <3>2 DEF Imaging
    <3>4. c \in DOMAIN task.ops /\ c \in Nat /\ MinTransitionCost(task) <= c
          /\ MinTransitionCost(task) \in Nat /\ MinTransitionCost(task) # 0
      BY <1>3, <3>3, SearchedFacts DEF CostsOf
    <3>5. QED
      BY <1>4, <3>3, <3>4
  <2>4. \A k \in Keys(open'[d]) : frontier'[d].g < k
    BY <1>5, <2>2, <2>3
  <2>5. \A g \in Level : closed'[d][g] # {} => g <= frontier'[d].g
    BY <1>5, <2>2
  <2>6. QED
    BY <1>7, <2>2, <2>4, <2>5
<1>12. QED
  BY <1>1, <1>8, <1>9, <1>10, <1>11, TopKStepKinds

\* While a direction is about to expand its frontier, the driver has been told
\* of the lower bound, and has not to stop.
Attentive ==
    pc \in {"prepare", "expand"} =>
        ~lower_bound_increased /\ lower_bound < upper_bound /\ ~FoundEnoughPlans(plan)

\* Attentive is inductive.
LEMMA AttentiveNext ==
    ASSUME Driven, Attentive, [TopKNext]_topkVars
    PROVE  Attentive'
<1>1. EngineInv /\ PlansInv /\ ListInv /\ ModeInv
  BY DEF Driven, Searched
<1>2. task' = task
  BY <1>1, PlanGrows
<1>3. SUFFICES ASSUME pc' \in {"prepare", "expand"}
               PROVE  /\ ~lower_bound_increased' /\ lower_bound' < upper_bound'
                      /\ ~FoundEnoughPlans(plan)'
  BY DEF Attentive
<1>4. ASSUME pc \in {"bucket", "prepare", "expand"},
             UNCHANGED <<lower_bound_increased, lower_bound, upper_bound, plan>>
      PROVE  /\ ~lower_bound_increased' /\ lower_bound' < upper_bound'
             /\ ~FoundEnoughPlans(plan)'
  BY <1>1, <1>2, <1>4 DEF ModeInv, Attentive, FoundEnoughPlans
<1>5. CASE StartStep \/ ConstructNext \/ ReconstructPlan \/ EndStep
  <2>1. pc' \in {"init", "step", "bucket"}
    BY <1>1, <1>5 DEF StartStep, ConstructNext, ReconstructPlan, EndStep, control, vars, ListInv
  <2>2. QED
    BY <1>3, <2>1
<1>6. CASE SearchStep
  <2>1. UNCHANGED plan
    BY <1>6 DEF SearchStep, registryVars
  <2>2. CASE \E d \in Searches : NoMorePlans(d) \/ ExpandFrontier(d) \/ ExpandTruncated(d) \/ Finish(d)
    BY <1>3, <2>2 DEF NoMorePlans, ExpandFrontier, ExpandTruncated, Finish, ReturnPoint
  <2>3. CASE \E d \in Searches : PopBucket(d)
    <3>1. PICK d \in Searches : PopBucket(d)
      BY <2>3
    <3>2. PopReady(d) /\ Placed(d)
      BY <1>1, <3>1, PopBucketFacts DEF ListInv
    <3>3. pc = "drain"
      BY <3>2 DEF PopReady, Placed, Stocked
    <3>4. pc' = "drain"
      BY <3>1, <3>3 DEF PopBucket
    <3>5. QED
      BY <1>3, <3>4
  <2>4. CASE \E d \in Searches : BucketReady(d) \/ Prepare(d) \/ PrepareTruncated(d)
    BY <1>4, <2>1, <2>4 DEF BucketReady, Prepare, PrepareTruncated, engine
  <2>5. CASE Return
    BY <1>3, <2>5 DEF Return
  <2>6. QED
    BY <1>6, <2>2, <2>3, <2>4, <2>5 DEF SearchStep, Inherited
<1>7. CASE UNCHANGED topkVars
  <2>1. UNCHANGED <<pc, lower_bound_increased, lower_bound, upper_bound, plan>>
    BY <1>7 DEF topkVars, allVars, vars, engine, control, registryVars
  <2>2. QED
    BY <1>3, <1>4, <2>1
<1>8. QED
  BY <1>5, <1>6, <1>7 DEF TopKNext, TopKDone

\* Direction d has expanded what it has closed at cost g.
Explored(d, g) ==
    /\ g \in Level /\ closed[d][g] # {}
    /\ frontier[d].phase = "empty" \/ g < frontier[d].g

\* If no operator is free, the plans of a cost that a direction has explored have
\* been considered.
ExploredIsSeen ==
    ~HasZeroCost(task) => \A d \in Searches : \A g : Explored(d, g) => BelowSeen(g + 1)

\* A direction that expands its frontier has seen the plans of that cost.
LEMMA FrontierIsSeen ==
    ASSUME CompleteInv, Upwards, Attentive, ~HasZeroCost(task), NEW d \in Searches, Imaging(d)
    PROVE  frontier[d].phase = "cost" => BelowSeen(frontier[d].g + 1)
<1>1. SUFFICES ASSUME frontier[d].phase = "cost", NEW p, NEW w, NEW l, Course(p, w, l),
                      l[Len(p)] < frontier[d].g + 1
               PROVE  Considered(p)
  BY DEF BelowSeen
<1>2. Driven /\ SureOfPlans /\ ListInv /\ ModeInv /\ EngineInv /\ Searched
  BY DEF CompleteInv, Driven, Searched
<1>3. pc = "expand" /\ \A c \in CostsOf(frontier[d].phase) : frontier[d].g + c < INT_MAX
  BY DEF Imaging
<1>4. ~lower_bound_increased /\ GoingOn /\ registry = "idle" /\ AllPlansKept
  BY <1>2, <1>3 DEF Attentive, GoingOn, ListInv, AllPlansKept
<1>5. frontier[d].g \in Nat /\ INT_MAX \in Nat /\ \A c \in DOMAIN task.ops : c \in Nat
  BY <1>2, SearchedFacts
<1>6. ~TooFar(d)
  <2>1. ASSUME NEW c \in DOMAIN task.ops PROVE c \in CostsOf(frontier[d].phase)
    <3>1. c # 0
      BY <1>2, <2>1, SearchedFacts
    <3>2. QED
      BY <1>1, <3>1 DEF CostsOf
  <2>2. QED
    BY <1>3, <1>5, <2>1 DEF TooFar
<1>7. frontier[d].g < lower_bound
  BY <1>1, <1>6 DEF Upwards
<1>8. l[Len(p)] \in Nat /\ lower_bound \in Nat
  BY <1>1, <1>2, CourseCost, LevelFacts DEF EngineInv, TypeOK, EngineTypeOK
<1>9. Sure(l[Len(p)])
  BY <1>1, <1>4, <1>5, <1>7, <1>8 DEF Sure
<1>10. QED
  BY <1>1, <1>2, <1>4, <1>9 DEF SureOfPlans

\* ExploredIsSeen is inductive.
LEMMA ExploredIsSeenNext ==
    ASSUME CompleteInv, Upwards, Attentive, ExploredIsSeen, [TopKNext]_topkVars
    PROVE  ExploredIsSeen'
<1>1. Driven /\ EngineInv /\ PlansInv /\ ListInv /\ Searched /\ Searched'
  BY CompleteNext DEF CompleteInv, Driven, Searched
<1>2. task' = task
  BY <1>1, PlanGrows
<1>3. SUFFICES ASSUME ~HasZeroCost(task), NEW d \in Searches, NEW g, Explored(d, g)'
               PROVE  BelowSeen(g + 1)
  BY <1>1, <1>2, BelowSeenStays DEF ExploredIsSeen
<1>4. SUFFICES ASSUME ~Explored(d, g) PROVE BelowSeen(g + 1)
  BY <1>3 DEF ExploredIsSeen
<1>5. /\ g \in Level /\ g \in Nat /\ d \in Dir /\ frontier[d].g \in Nat
      /\ closed'[d][g] # {}
      /\ frontier'[d].phase = "empty" \/ g < frontier'[d].g
  BY <1>1, <1>3, SearchedFacts DEF Explored
<1>6. CASE Resting
  BY <1>3, <1>4, <1>6 DEF Resting, Explored
<1>7. CASE \E b \in Searches : Filtered(b)
  <2>1. PICK b \in Searches : Filtered(b)
    BY <1>7
  <2>2. /\ closed' = closed /\ frontier'[d].g = frontier[d].g
        /\ frontier'[d].phase = "empty" => frontier[d].phase = "empty"
    BY <2>1 DEF Filtered
  <2>3. QED
    BY <1>3, <1>4, <2>2 DEF Explored
<1>8. CASE \E b \in Searches : \E k, new : Popping(b, k, new)
  <2>1. PICK b, k, new : b \in Searches /\ Popping(b, k, new)
    BY <1>8
  <2>2. CASE b # d
    <3>1. /\ frontier'[d] = frontier[d]
          /\ \A s : s \in closed'[d][g] <=> s \in closed[d][g]
      BY <1>5, <2>1, <2>2 DEF Popping
    <3>2. closed[d][g] # {}
      BY <1>5, <3>1
    <3>3. QED
      BY <1>4, <1>5, <3>1, <3>2 DEF Explored
  <2>3. CASE b = d
    <3>1. /\ frontier[d].phase = "empty" /\ frontier'[d].g = k
          /\ frontier'[d].phase = IF new = {} THEN "empty" ELSE "filter"
          /\ \A s : s \in closed'[d][g] <=> s \in closed[d][g] \/ (g = k /\ s \in new)
      BY <1>5, <2>1, <2>3 DEF Popping
    <3>2. closed[d][g] # {}
      <4>1. CASE new = {}
        BY <1>5, <3>1, <4>1
      <4>2. CASE new # {}
        <5>1. g < k
          BY <1>5, <3>1, <4>2
        <5>2. g # k
          BY <1>5, <5>1
        <5>3. QED
          BY <1>5, <3>1, <5>2
      <4>3. QED
        BY <4>1, <4>2
    <3>3. QED
      BY <1>4, <1>5, <3>1, <3>2 DEF Explored
  <2>4. QED
    BY <2>2, <2>3
<1>9. CASE \E b \in Searches : Imaging(b)
  <2>1. PICK b \in Searches : Imaging(b)
    BY <1>9
  <2>2. closed' = closed /\ frontier'[d].g = frontier[d].g
    BY <2>1 DEF Imaging
  <2>3. frontier[d].phase # "empty" /\ ~ (g < frontier[d].g) /\ frontier'[d].phase = "empty"
    BY <1>4, <1>5, <2>2 DEF Explored
  <2>4. b = d /\ frontier[d].phase = "cost"
    <3>1. b = d
      BY <2>1, <2>3 DEF Imaging
    <3>2. dir = d /\ pc = "expand" /\ Placed(d)
      BY <1>1, <2>1, <3>1 DEF Imaging, ListInv
    <3>3. frontier[d].phase \in {"zero", "cost"}
      BY <3>2 DEF Placed
    <3>4. frontier[d].phase # "zero"
      BY <2>1, <2>3, <3>1 DEF Imaging
    <3>5. QED
      BY <3>1, <3>3, <3>4
  <2>5. g <= frontier[d].g
    BY <1>3, <1>5, <2>2 DEF Upwards
  <2>6. g = frontier[d].g
    BY <1>5, <2>3, <2>5
  <2>7. QED
    BY <1>3, <2>1, <2>4, <2>6, FrontierIsSeen
<1>10. QED
  BY <1>1, <1>6, <1>7, <1>8, <1>9, TopKStepKinds

-----------------------------------------------------------------------------
(* The plans that closed states are on *)

\* Operators of cost c lead between direction d's sources and s, past the state t.
Reaches(d, s, c, t) ==
    \E p, w, l : /\ Route(p, w, l) /\ PlanCost(p) = c
                 /\ \E k \in 0 .. Len(p) : w[k] = t
                 /\ IF d = "fw" THEN w[0] = task.init /\ w[Len(p)] = s
                                ELSE w[0] = s /\ w[Len(p)] \in task.goal

\* They can be followed by another operator.
LEMMA ReachesOn ==
    ASSUME TaskOK, NEW d \in Dir, NEW s, NEW c, NEW t, Reaches(d, s, c, t),
           NEW b \in DOMAIN task.ops, NEW y, Edge(task, d, b, s, y)
    PROVE  Reaches(d, y, c + b, t) /\ Reaches(d, y, c + b, y)
<1>1. PICK p, w, l : /\ Route(p, w, l) /\ PlanCost(p) = c
                     /\ \E k \in 0 .. Len(p) : w[k] = t
                     /\ IF d = "fw" THEN w[0] = task.init /\ w[Len(p)] = s
                                    ELSE w[0] = s /\ w[Len(p)] \in task.goal
  BY DEF Reaches
<1>2. PICK n : n = Len(p) /\ n \in Nat
  BY <1>1, ElementFacts DEF Route, OperatorSeqs
<1>3. 0 \in 0 .. n /\ n \in 0 .. n /\ 0 \in 0 .. n + 1 /\ n + 1 \in 0 .. n + 1
      /\ \A k \in 0 .. n : k \in 0 .. n + 1 /\ k + 1 \in 0 .. n + 1
  BY <1>2
<1>4. PICK j \in 0 .. n : w[j] = t
  BY <1>1, <1>2
<1>5. CASE d = "fw"
  <2>1. PICK i \in Operators : task.operators[i].cost = b /\ <<s, y>> \in task.operators[i].rel
    BY <1>5, EdgeIsOperator
  <2>2. y \in State
    BY <1>5, EdgeIsOperator
  <2>3. w[0] = task.init /\ w[n] = s
    BY <1>1, <1>2, <1>5
  <2>4. PICK q, v, m : /\ Route(q, v, m) /\ Len(q) = n + 1
                       /\ PlanCost(q) = PlanCost(p) + task.operators[i].cost
                       /\ v[n + 1] = y /\ \A k \in 0 .. n : v[k] = w[k]
    BY <1>1, <1>2, <2>1, <2>2, <2>3, RouteAppended
  <2>5. v[0] = task.init /\ v[Len(q)] = y /\ v[j] = t /\ PlanCost(q) = c + b
        /\ j \in 0 .. Len(q) /\ n + 1 \in 0 .. Len(q)
    BY <1>1, <1>3, <1>4, <2>1, <2>3, <2>4
  <2>6. QED
    BY <1>5, <2>4, <2>5 DEF Reaches
<1>6. CASE d = "bw"
  <2>1. Edge(task, "fw", b, y, s)
    BY <1>6 DEF Edge
  <2>2. PICK i \in Operators : task.operators[i].cost = b /\ <<y, s>> \in task.operators[i].rel
    BY <2>1, EdgeIsOperator
  <2>3. y \in State
    BY <2>1, EdgeIsOperator
  <2>4. w[0] = s /\ w[n] \in task.goal
    BY <1>1, <1>2, <1>6
  <2>5. PICK q, v, m : /\ Route(q, v, m) /\ Len(q) = n + 1
                       /\ PlanCost(q) = PlanCost(p) + task.operators[i].cost
                       /\ v[0] = y /\ \A k \in 0 .. n : v[k + 1] = w[k]
    BY <1>1, <1>2, <2>2, <2>3, <2>4, RoutePrepended
  <2>6. v[0] = y /\ v[Len(q)] \in task.goal /\ v[j + 1] = t /\ PlanCost(q) = c + b
        /\ j + 1 \in 0 .. Len(q) /\ 0 \in 0 .. Len(q)
    BY <1>1, <1>3, <1>4, <2>2, <2>4, <2>5
  <2>7. QED
    BY <1>6, <2>5, <2>6 DEF Reaches
<1>7. QED
  BY <1>5, <1>6 DEF Dir

\* A state that is closed at cost g can be reached at that cost: of the costs at
\* which it cannot, the least would have to be reached from a cheaper one.
LEMMA ClosedIsReached ==
    ASSUME Searched, TracedBack, ~HasZeroCost(task), NEW d \in Searches, NEW g \in Level,
           NEW s \in closed[d][g]
    PROVE  Reaches(d, s, g, s)
<1>1. TaskOK /\ IsTask(task) /\ d \in Dir /\ TypeOK /\ \A k : k \in Level <=> k \in Nat /\ k <= INT_MAX
  BY SearchedFacts
<1> DEFINE Bad == {k \in Level : \E x \in closed[d][k] : ~Reaches(d, x, k, x)}
<1> SUFFICES ASSUME Bad # {} PROVE FALSE
  OBVIOUS
<1>2. Bad \in SUBSET Nat
  BY <1>1
<1>3. PICK b \in Bad : \A y \in Bad : b <= y
  <2> HIDE DEF Bad
  <2>1. QED
    BY <1>2, NatHasLeast
<1>4. PICK x \in closed[d][b] : ~Reaches(d, x, b, x)
  OBVIOUS
<1>5. b \in Level /\ b \in Nat /\ x \in State
  BY <1>1 DEF TypeOK, EngineTypeOK, Levels
<1>6. CASE b = 0 /\ x \in Source(task, d)
  <2>1. PICK w, l : Route(<<>>, w, l) /\ Len(<<>>) = 0 /\ PlanCost(<<>>) = 0 /\ w[0] = x
    BY <1>1, <1>5, EmptyRoute
  <2>2. IF d = "fw" THEN x = task.init ELSE x \in task.goal
    BY <1>6 DEF Source
  <2>3. 0 \in 0 .. Len(<<>>)
    BY <2>1
  <2>4. Reaches(d, x, 0, x)
    BY <2>1, <2>2, <2>3 DEF Reaches
  <2>5. QED
    BY <1>4, <1>6, <2>4
<1>7. CASE \E c \in DOMAIN task.ops : c <= b /\ \E r \in closed[d][b - c] : Edge(task, d, c, r, x)
  <2>1. PICK c \in DOMAIN task.ops : c <= b /\ \E r \in closed[d][b - c] : Edge(task, d, c, r, x)
    BY <1>7
  <2>2. PICK r \in closed[d][b - c] : Edge(task, d, c, r, x)
    BY <2>1
  <2>3. c \in Nat /\ c # 0
    BY SearchedFacts
  <2>4. b - c \in Level /\ b - c < b /\ (b - c) + c = b
    <3>1. b - c \in Nat /\ b - c < b /\ (b - c) + c = b /\ b <= INT_MAX /\ INT_MAX \in Nat
      BY <1>1, <1>5, <2>1, <2>3, IntMaxAssumption
    <3>2. QED
      BY <1>1, <3>1
  <2>5. b - c \notin Bad
    BY <1>1, <1>3, <1>5, <2>4
  <2>6. Reaches(d, r, b - c, r)
    BY <2>4, <2>5
  <2>7. Reaches(d, x, b, x)
    BY <1>1, <2>2, <2>4, <2>6, ReachesOn
  <2>8. QED
    BY <1>4, <2>7
<1>8. Traceable(d, b, x)
  BY <1>5 DEF TracedBack
<1>9. QED
  BY <1>6, <1>7, <1>8 DEF Traceable

\* What is reached on the other side is a plan.
LEMMA ReachedIsCourse ==
    ASSUME Searched, ~task.simple, NEW d \in Dir, NEW s \in Source(task, Opposite(d)), NEW c, NEW t,
           Reaches(d, s, c, t)
    PROVE  \E p, w, l : Course(p, w, l) /\ l[Len(p)] = c /\ \E k \in 0 .. Len(p) : w[k] = t
<1>1. PICK p, w, l : /\ Route(p, w, l) /\ PlanCost(p) = c
                     /\ \E k \in 0 .. Len(p) : w[k] = t
                     /\ IF d = "fw" THEN w[0] = task.init /\ w[Len(p)] = s
                                    ELSE w[0] = s /\ w[Len(p)] \in task.goal
  BY DEF Reaches
<1>2. w[0] = task.init /\ w[Len(p)] \in task.goal
  BY <1>1 DEF Source, Opposite, Dir
<1>3. Course(p, w, l)
  BY <1>1, <1>2 DEF Route, Course
<1>4. QED
  BY <1>1, <1>3 DEF Route

-----------------------------------------------------------------------------
(* Useless states *)

\* Where plans that are left out are proved to be none: no operator is free, plans
\* may have loops, and the selector tells sorted plans apart.
SureToProve == ~HasZeroCost(task) /\ ~task.simple /\ task.selector # "unordered"

\* The states of a plan that has been considered are on goal paths.
LEMMA OnGoalPath ==
    ASSUME Searched, task.selector # "unordered", NEW p, NEW w, NEW l, Course(p, w, l),
           Considered(p), NEW j \in 0 .. Len(p)
    PROVE  w[j] \in StatesOnGoalPaths
<1>1. CASE task.selector = "iterative_cost"
  BY <1>1 DEF Course, StatesOnGoalPaths
<1>2. CASE task.selector # "iterative_cost"
  <2>1. p \in plan \cup rejected
    BY <1>2 DEF Considered, HasAcceptedPlan, SamePlan
  <2>2. w[j] \in RunPlan({task.init}, SubSeq(p, 1, j))
    BY CoursePlaces
  <2>3. w[j] \in StatesOnPath(p)
    BY <2>2 DEF StatesOnPath
  <2>4. QED
    BY <1>2, <2>1, <2>3 DEF StatesOnGoalPaths
<1>3. QED
  BY <1>1, <1>2

\* A walk from a state that has been closed at cost g before its turn on the walk,
\* and is open again, ends in a plan of another cost that has been considered, unless
\* a later state of the walk is open.
LEMMA ShortcutIsSeen ==
    ASSUME Searched, TracedBack, ExploredIsSeen, SureToProve,
           NEW d \in Searches, frontier[d].phase = "empty",
           NEW n \in Nat, NEW v, NEW l, Walk(d, v, l, n), l[n] < INT_MAX,
           NEW j \in 0 .. n, NEW g \in Level, g <= l[j], v[j] \in closed[d][g],
           \A k \in j + 1 .. n : \A m \in Level : v[k] \notin open[d][m]
    PROVE  v[j] \in StatesOnGoalPaths
<1>1. d \in Dir /\ TaskOK /\ IsTask(task) /\ \A x : x \in Level <=> x \in Nat /\ x <= INT_MAX
  BY SearchedFacts
<1>2. \A k \in 0 .. n : l[k] \in Nat /\ Useful(v[k]) /\ l[k] <= l[n]
  BY <1>1, WalksAreUseful, SearchedFacts
<1>3. \A k \in j .. n : l[j] <= l[k] /\ k \in 0 .. n
  BY <1>1, WalkFacts
<1>4. g \in Nat /\ l[j] \in Nat
  BY <1>1, <1>2
<1> DEFINE C(k) == g + (l[k] - l[j])
<1>5. \A k \in j .. n : C(k) \in Level /\ C(k) \in Nat
  <2> SUFFICES ASSUME NEW k \in j .. n PROVE C(k) \in Level /\ C(k) \in Nat
    OBVIOUS
  <2>1. l[k] \in Nat /\ l[j] <= l[k] /\ l[k] <= l[n] /\ l[n] \in Nat
    BY <1>2, <1>3
  <2>2. C(k) \in Nat /\ C(k) <= INT_MAX
    BY <1>4, <2>1, IntMaxAssumption
  <2> HIDE DEF C
  <2>3. QED
    BY <1>1, <2>2
<1> DEFINE Fine(k) == v[k] \in closed[d][C(k)] /\ Reaches(d, v[k], C(k), v[j])
           Bad == {k \in j .. n : ~Fine(k)}
<1>6. ASSUME Bad # {} PROVE FALSE
  <2>1. Bad \in SUBSET Nat
    OBVIOUS
  <2>2. PICK b \in Bad : \A y \in Bad : b <= y
    <3> HIDE DEF Bad
    <3>1. QED
      BY <1>6, <2>1, NatHasLeast
  <2>3. b \in j .. n /\ ~Fine(b)
    OBVIOUS
  <2>4. C(j) = g
    BY <1>4
  <2>5. Fine(j)
    <3> HIDE DEF C
    <3>1. Reaches(d, v[j], g, v[j])
      BY ClosedIsReached DEF SureToProve
    <3>2. QED
      BY <2>4, <3>1
  <2>6. b # j
    BY <2>3, <2>5
  <2>7. b \in j + 1 .. n /\ b - 1 \in j .. n /\ b \in 1 .. n /\ ~ (b <= b - 1)
    BY <2>3, <2>6
  <2>8. Fine(b - 1)
    <3> HIDE DEF Fine
    <3>1. QED
      BY <2>2, <2>7
  <2>9. PICK c \in DOMAIN task.ops :
                c \in Nat /\ Edge(task, d, c, v[b - 1], v[b]) /\ l[b] = l[b - 1] + c
    BY <2>7 DEF Walk
  <2>10. C(b - 1) + c = C(b)
    <3>1. l[b] \in Nat /\ l[b - 1] \in Nat
      BY <1>2, <1>3, <2>7
    <3>2. QED
      BY <1>4, <2>9, <3>1
  <2>11. /\ C(b) \in Level /\ C(b - 1) \in Level
         /\ Useful(v[b]) /\ Useful(v[b - 1])
    <3> HIDE DEF C
    <3>1. QED
      BY <1>2, <1>3, <1>5, <2>3, <2>7
  <2> HIDE DEF C
  <2>12. Expanded(d, C(b - 1), v[b - 1], c)
    BY DEF Expanded
  <2>13. v[b] \in closed[d][C(b)] \cup open[d][C(b)]
    BY <2>8, <2>9, <2>10, <2>11, <2>12 DEF Searched, ListInv, Lossless
  <2>14. v[b] \in closed[d][C(b)]
    BY <2>7, <2>11, <2>13
  <2>15. Reaches(d, v[b], C(b), v[j])
    BY <1>1, <2>8, <2>9, <2>10, ReachesOn
  <2>16. QED
    BY <2>3, <2>14, <2>15
<1>7. n \in j .. n /\ n \in 0 .. n
  OBVIOUS
<1> HIDE DEF C
<1>8. v[n] \in closed[d][C(n)] /\ Reaches(d, v[n], C(n), v[j]) /\ C(n) \in Level /\ C(n) \in Nat
  BY <1>5, <1>6, <1>7
<1>9. Explored(d, C(n))
  BY <1>8 DEF Explored
<1>10. BelowSeen(C(n) + 1)
  BY <1>9 DEF ExploredIsSeen, SureToProve
<1>11. v[n] \in Source(task, Opposite(d))
  BY DEF Walk
<1>12. PICK p, w, h : Course(p, w, h) /\ h[Len(p)] = C(n) /\ \E k \in 0 .. Len(p) : w[k] = v[j]
  BY <1>1, <1>8, <1>11, ReachedIsCourse DEF SureToProve
<1>13. Considered(p)
  BY <1>8, <1>10, <1>12 DEF BelowSeen
<1>14. QED
  BY <1>12, <1>13, OnGoalPath DEF SureToProve

\* A direction that takes its open states for useless has closed the states of every
\* plan: from the last state of the plan that is open, which it has closed cheaper
\* before, it has found a plan, so that state is on a goal path.
LEMMA UselessIsClosed ==
    ASSUME Searched, TracedBack, ExploredIsSeen, SureToProve,
           NEW d \in Searches, frontier[d].phase = "empty", ProvableNoMorePlans(d),
           NEW n \in Nat, NEW v, NEW l, Walk(d, v, l, n), l[n] < INT_MAX, NEW i \in 0 .. n
    PROVE  v[i] \in closed[d][l[i]]
<1>1. d \in Dir /\ IsTask(task) /\ Source(task, d) \subseteq closed[d][0]
  BY SearchedFacts DEF Searched, ListInv
<1>2. v[0] \in closed[d][l[0]]
  BY <1>1 DEF Walk
<1>3. \A k \in 0 .. n : l[k] \in Nat /\ l[k] \in Level
  BY <1>1, WalksAreUseful, SearchedFacts
<1>4. GetG(frontier[d], open[d]) = MinG(open[d])
  BY DEF GetG
<1>5. /\ last_g_cost[d] \in Nat
      /\ MinG(open[d]) \in Nat /\ \A k \in Keys(open[d]) : MinG(open[d]) <= k
  <2>1. last_g_cost[d] \in Level /\ MinG(open[d]) \in Level
        /\ \A k \in Keys(open[d]) : MinG(open[d]) <= k
    BY SearchedFacts, MinGFacts DEF Searched, EngineInv
  <2>2. QED
    BY <2>1, SearchedFacts
<1> DEFINE Bad == {k \in 0 .. n : v[k] \notin closed[d][l[k]]}
           Open == {k \in 0 .. n : \E m \in Level : v[n - k] \in open[d][m]}
<1>6. ASSUME Bad # {} PROVE FALSE
  <2>1. Bad \in SUBSET Nat /\ Open \in SUBSET Nat
    OBVIOUS
  <2>2. PICK b \in Bad : \A y \in Bad : b <= y
    <3> HIDE DEF Bad
    <3>1. QED
      BY <1>6, <2>1, NatHasLeast
  <2>3. b \in 0 .. n /\ v[b] \notin closed[d][l[b]] /\ b # 0
    BY <1>2
  <2>4. b \in 1 .. n /\ b - 1 \in 0 .. n /\ ~ (b <= b - 1)
    BY <2>3
  <2>5. v[b - 1] \in closed[d][l[b - 1]]
    BY <2>2, <2>4
  <2>6. v[b] \in open[d][l[b]] /\ l[b] \in Level
    BY <1>3, <2>3, <2>4, <2>5, NextIsListed
  <2>7. n - b \in Open /\ n - (n - b) = b
    BY <2>3, <2>6
  <2>8. PICK a \in Open : \A y \in Open : a <= y
    <3> HIDE DEF Open
    <3>1. QED
      BY <2>1, <2>7, NatHasLeast
  <2>9. PICK j \in 0 .. n : j = n - a /\ a = n - j
    OBVIOUS
  <2>10. PICK m \in Level : v[j] \in open[d][m]
    BY <2>9
  <2>11. \A k \in j + 1 .. n : \A h \in Level : v[k] \notin open[d][h]
    <3> SUFFICES ASSUME NEW k \in j + 1 .. n, NEW h \in Level, v[k] \in open[d][h] PROVE FALSE
      OBVIOUS
    <3>1. n - k \in 0 .. n /\ n - (n - k) = k /\ ~ (a <= n - k)
      BY <2>9
    <3>2. n - k \in Open
      BY <3>1
    <3> HIDE DEF Open
    <3>3. QED
      BY <2>8, <3>1, <3>2
  <2>12. b <= j
    <3> HIDE DEF Open
    <3>1. a <= n - b
      BY <2>7, <2>8
    <3>2. QED
      BY <2>3, <2>9, <3>1
  <2>13. l[b] <= l[j] /\ l[b] \in Nat /\ l[j] \in Nat
    BY <1>1, <2>3, <2>12, WalkFacts
  <2>14. MinG(open[d]) <= l[b] /\ Keys(open[d]) # {}
    BY <1>5, <2>6 DEF Keys
  <2>15. last_g_cost[d] < MinG(open[d]) /\ v[j] \in NoGoalPathStates(d)
    BY <1>4, <1>5, <2>10, <2>14 DEF ProvableNoMorePlans
  <2>16. PICK g \in Level : g < last_g_cost[d] /\ v[j] \in closed[d][g]
    BY <2>15 DEF NoGoalPathStates
  <2>17. g \in Nat
    BY SearchedFacts
  <2>18. g <= l[j]
    BY <1>5, <2>13, <2>14, <2>15, <2>16, <2>17
  <2>19. v[j] \in StatesOnGoalPaths
    BY <2>11, <2>16, <2>18, ShortcutIsSeen
  <2>20. QED
    BY <2>15, <2>19 DEF NoGoalPathStates
<1>7. QED
  BY <1>6

\* What such a direction proves is true.
LEMMA ProvenIsSeen ==
    ASSUME Searched, TracedBack, ExploredIsSeen, SureToProve,
           NEW d \in Searches, frontier[d].phase = "empty", ProvableNoMorePlans(d),
           NEW p, NEW w, NEW l, Course(p, w, l), l[Len(p)] < INT_MAX
    PROVE  Considered(p)
<1>1. d \in Dir /\ TaskOK /\ IsTask(task)
  BY SearchedFacts
<1>2. PICK n : n = Len(p) /\ n \in Nat
  BY <1>1, CourseIsWalk
<1>3. l[n] \in Nat /\ n \in 0 .. n
  BY <1>2, CourseCost
<1>4. \E v, h : Walk(d, v, h, n) /\ h[n] = l[n]
  <2>1. CASE d = "fw"
    BY <1>1, <1>2, <2>1, CourseIsWalk
  <2>2. CASE d = "bw"
    <3>1. Walk("bw", Reversed(w, n), Left(l, n), n)
      BY <1>1, <1>2, CourseIsWalk
    <3>2. Left(l, n)[n] = l[n] - l[0] /\ l[0] = 0
      BY <1>2, <1>3 DEF Left, Course
    <3>3. Left(l, n)[n] = l[n]
      BY <1>3, <3>2
    <3>4. QED
      BY <2>2, <3>1, <3>3
  <2>3. QED
    BY <1>1, <2>1, <2>2 DEF Dir
<1>5. PICK v, h : Walk(d, v, h, n) /\ h[n] = l[n]
  BY <1>4
<1>6. v[n] \in closed[d][l[n]] /\ l[n] \in Level
  BY <1>1, <1>2, <1>3, <1>5, UselessIsClosed, WalksAreUseful
<1>7. Explored(d, l[n])
  BY <1>6 DEF Explored
<1>8. BelowSeen(l[n] + 1)
  BY <1>7 DEF ExploredIsSeen, SureToProve
<1>9. QED
  BY <1>2, <1>3, <1>8 DEF BelowSeen

\* The direction that is searched is one of those to be searched.
DirSearched == dir \in Searches

\* It stays so.
LEMMA DirSearchedNext ==
    ASSUME EngineInv, EngineInv', DirSearched, [TopKNext]_topkVars
    PROVE  DirSearched'
<1>1. CASE Bidirectional
  BY <1>1 DEF DirSearched, EngineInv, TypeOK, Bidirectional
<1>2. CASE ~Bidirectional
  <2>1. CASE StartStep \/ ConstructNext \/ ReconstructPlan
    BY <2>1 DEF StartStep, ConstructNext, ReconstructPlan, control, vars, DirSearched
  <2>2. CASE EndStep
    BY <1>2, <2>2 DEF EndStep, SelectDirection, DirSearched
  <2>3. CASE SearchStep
    <3>1. CASE \E d \in Searches : NoMorePlans(d) \/ PopBucket(d) \/ ExpandFrontier(d)
      BY <3>1 DEF NoMorePlans, PopBucket, ExpandFrontier, DirSearched
    <3>2. CASE \E d \in Searches : Inherited(d)
      BY <3>2 DEF Inherited, BucketReady, Prepare, PrepareTruncated, ExpandTruncated, Finish,
                  DirSearched
    <3>3. CASE Return
      BY <3>3 DEF Return, DirSearched
    <3>4. QED
      BY <2>3, <3>1, <3>2, <3>3 DEF SearchStep
  <2>4. CASE UNCHANGED topkVars
    BY <2>4 DEF topkVars, allVars, vars, control, DirSearched
  <2>5. QED
    BY <2>1, <2>2, <2>3, <2>4 DEF TopKNext, TopKDone
<1>3. QED
  BY <1>1, <1>2

\* What makes the proof that no plans are left a proof.
AnytimeInv ==
    CompleteInv /\ TracedBack /\ Upwards /\ Attentive /\ ExploredIsSeen /\ DirSearched

\* At the start only the sources are closed, and nothing is open or expanded.
LEMMA AnytimeInit == TopKInit => AnytimeInv
<1> SUFFICES ASSUME TopKInit PROVE AnytimeInv
  OBVIOUS
<1>1. CompleteInv /\ Searched
  BY CompleteInit DEF CompleteInv, Driven
<1>2. /\ pc = "init" /\ lower_bound = MinTransitionCost(task)
      /\ dir = IF Bidirectional THEN "bw" ELSE CHOOSE d \in Searches : TRUE
      /\ frontier = [d \in Searches |-> [g |-> 0, phase |-> "filter", states |-> Source(task, d)]]
      /\ open = [d \in Searches |-> NoStates]
      /\ closed = [d \in Dir |-> [NoStates EXCEPT ![0] = Source(task, d)]]
  BY DEF TopKInit, RegistryInit, Init
<1>3. \A d \in Searches : /\ d \in Dir /\ frontier[d].g = 0 /\ frontier[d].phase = "filter"
                          /\ \A g \in Level : /\ open[d][g] = {}
                                              /\ closed[d][g] = IF g = 0 THEN Source(task, d) ELSE {}
  BY <1>1, <1>2, SearchedFacts DEF NoStates
<1>4. TracedBack
  <2> SUFFICES ASSUME NEW d \in Searches, NEW g \in Level, NEW s \in closed[d][g] \cup open[d][g]
               PROVE  Traceable(d, g, s)
    BY DEF TracedBack
  <2>1. g = 0 /\ s \in Source(task, d)
    BY <1>3
  <2>2. QED
    BY <2>1 DEF Traceable
<1>5. Upwards
  <2> SUFFICES ASSUME ~HasZeroCost(task), NEW d \in Searches
               PROVE  /\ \A g \in Level : closed[d][g] # {} => g <= frontier[d].g
                      /\ \A k \in Keys(open[d]) : frontier[d].g < k
                      /\ frontier[d].g < lower_bound
    BY DEF Upwards
  <2>1. 0 < lower_bound
    BY <1>1, <1>2, SearchedFacts
  <2>2. Keys(open[d]) = {}
    BY <1>3 DEF Keys
  <2>3. QED
    BY <1>3, <2>1, <2>2
<1>6. Attentive
  BY <1>2 DEF Attentive
<1>7. ExploredIsSeen
  <2>1. \A d \in Searches : \A g : ~Explored(d, g)
    <3> SUFFICES ASSUME NEW d \in Searches, NEW g, Explored(d, g) PROVE FALSE
      OBVIOUS
    <3>1. g \in Level /\ closed[d][g] # {} /\ g < 0
      BY <1>3 DEF Explored
    <3>2. g \in Nat
      BY <1>1, <3>1, SearchedFacts
    <3>3. QED
      BY <3>1, <3>2
  <2>2. QED
    BY <2>1 DEF ExploredIsSeen
<1>8. DirSearched
  BY <1>2, SearchesAssumption DEF DirSearched, Bidirectional, Dir
<1>9. QED
  BY <1>1, <1>4, <1>5, <1>6, <1>7, <1>8 DEF AnytimeInv

\* AnytimeInv is inductive.
LEMMA AnytimeNext == AnytimeInv /\ [TopKNext]_topkVars => AnytimeInv'
<1> SUFFICES ASSUME AnytimeInv, [TopKNext]_topkVars PROVE AnytimeInv'
  OBVIOUS
<1>1. /\ CompleteInv /\ TracedBack /\ Upwards /\ Attentive /\ ExploredIsSeen /\ DirSearched
      /\ Driven /\ Searched /\ EngineInv
  BY DEF AnytimeInv, CompleteInv, Driven, Searched
<1>2. CompleteInv' /\ EngineInv'
  BY <1>1, CompleteNext DEF CompleteInv, Driven, Searched
<1>3. TracedBack' /\ Upwards' /\ Attentive' /\ ExploredIsSeen' /\ DirSearched'
  BY <1>1, <1>2, TracedBackNext, UpwardsNext, AttentiveNext, ExploredIsSeenNext, DirSearchedNext
<1>4. QED
  BY <1>2, <1>3 DEF AnytimeInv

\* So it is an invariant.
LEMMA AnytimeInvariant == TopKSpec => []AnytimeInv
BY AnytimeInit, AnytimeNext, PTL DEF TopKSpec

\* What symk and symq prove when they give up is true, as long as no operator is
\* free, plans may have loops and the selector tells sorted plans apart: when the
\* open states of one direction are closed at other costs and on no accepted goal
\* path, every plan below the user's bound has been offered to the plan data base.
\* A plan that is missed would have a last open state; as this state has been closed
\* cheaper before, the rest of the plan has led to a cheaper plan through it, and
\* the selector has remembered that one.
THEOREM WhatIsProvenIsTrue == TopKSpec => [](SureToProve => NoneLeftWhenProven)
<1>1. ASSUME AnytimeInv, SureToProve PROVE NoneLeftWhenProven
  <2>1. /\ Searched /\ TracedBack /\ ExploredIsSeen /\ dir \in Searches
        /\ TaskOK /\ IsTask(task)
    BY <1>1, SearchedFacts DEF AnytimeInv, CompleteInv, Driven, DirSearched
  <2>2. SUFFICES ASSUME Proven, NEW p \in WantedPlans, PlanCost(p) < task.bound
                 PROVE  Considered(p)
    BY DEF NoneLeftWhenProven
  <2>3. Wanted(p) /\ Found
    BY <2>1, WantedOfCertificate, SearchedFacts
  <2>4. PICK w, l : Course(p, w, l)
    BY <2>1, <2>3, CourseExists
  <2>5. l[Len(p)] = PlanCost(p) /\ l[Len(p)] \in Nat
    BY <2>1, <2>4, CourseCost
  <2>6. task.bound \in Nat /\ task.bound <= INT_MAX /\ INT_MAX \in Nat
    BY <2>1, SearchedFacts DEF IsTask
  <2>7. l[Len(p)] < INT_MAX
    BY <2>2, <2>5, <2>6
  <2>8. frontier[dir].phase = "empty" /\ ProvableNoMorePlans(dir)
    BY <2>2 DEF Proven
  <2>9. QED
    BY <1>1, <2>1, <2>4, <2>7, <2>8, ProvenIsSeen
<1>2. AnytimeInv => (SureToProve => NoneLeftWhenProven)
  BY <1>1
<1>3. QED
  BY <1>2, AnytimeInvariant, PTL

-----------------------------------------------------------------------------
(* The bounds have met *)

\* What the engine is to find with the bounds that it has.
Expected(p, w, l) ==
    Course(p, w, l) /\ l[Len(p)] < upper_bound /\ ~BeyondQuality(l[Len(p)], Optimum)

\* Once the bounds have met, each of these plans has been seen, is cut, or is being
\* put together.
AllComing ==
    /\ SureToProve
    /\ pc # "init" \/ registry # "idle"
    /\ ~(lower_bound < upper_bound)
    /\ ~FoundEnoughPlans(plan)
    => \A p, w, l : Expected(p, w, l) => Coming(p, w, l)

\* What costs more is beyond the quality too.
LEMMA BeyondStays ==
    ASSUME Base, NEW x, NEW b \in Nat, NEW c \in Nat, b <= c, BeyondQuality(b, x), x \in Nat
    PROVE  BeyondQuality(c, x)
<1>1. PICK m, n : m = task.quality.by /\ n = x * task.quality.of
  OBVIOUS
<1>2. m \in Nat /\ n \in Nat
  BY <1>1, OptionFacts
<1>3. b * m <= c * m /\ b * m \in Nat /\ c * m \in Nat
  BY <1>2, ProductsAreMonotone
<1>4. QED
  BY <1>1, <1>2, <1>3 DEF BeyondQuality

\* A plan that costs less than every operator is the empty one.
LEMMA CheaperThanAll ==
    ASSUME Searched, NEW p, NEW w, NEW l, Course(p, w, l), l[Len(p)] < MinTransitionCost(task)
    PROVE  Len(p) = 0
<1>1. TaskOK /\ IsTask(task) /\ MinTransitionCost(task) \in Nat /\ "fw" \in Dir
      /\ \A c \in DOMAIN task.ops : c \in Nat /\ MinTransitionCost(task) <= c
  BY SearchedFacts DEF Dir
<1>2. PICK n : n = Len(p) /\ n \in Nat
  BY <1>1, CourseIsWalk
<1>3. Walk("fw", w, l, n)
  BY <1>1, <1>2, CourseIsWalk
<1>4. SUFFICES ASSUME n # 0 PROVE FALSE
  BY <1>2
<1>5. 1 \in 1 .. n /\ 1 - 1 = 0 /\ 1 \in 0 .. n /\ n \in 0 .. n /\ 0 \in 0 .. n /\ 1 <= n
  BY <1>2, <1>4
<1>6. PICK c \in DOMAIN task.ops : l[1] = l[0] + c /\ l[0] = 0
  BY <1>3, <1>5 DEF Walk
<1>7. l[1] <= l[n] /\ l[1] \in Nat /\ l[n] \in Nat
  BY <1>1, <1>2, <1>3, <1>5, WalkFacts
<1>8. QED
  BY <1>1, <1>2, <1>6, <1>7

\* The first step raises the lower bound to the upper one only if no plan but the
\* empty one is expected, and it registers that one.
LEMMA FirstStepCuts ==
    ASSUME Driven, NothingFound, StartStep, pc = "init", ~FoundEnoughPlans(plan),
           upper_bound' <= lower_bound', NEW p, NEW w, NEW l, Course(p, w, l),
           l[Len(p)] < upper_bound', ~BeyondQuality(l[Len(p)], Optimum)
    PROVE  Handled(w, l, Len(p))'
<1>1. EngineInv /\ PlansInv /\ Fresh /\ Searched
  BY DEF Driven, Searched, ModeInv
<1>2. /\ registry = "idle" /\ lower_bound' \in Nat /\ upper_bound' \in Nat
      /\ lower_bound' = lower_bound \/ Over
  BY <1>1, StartStepFacts
<1>3. sym_cuts = {} /\ lower_bound = MinTransitionCost(task) /\ plan = {}
  BY <1>1, <1>2 DEF Fresh, NothingFound
<1>4. Base /\ Optimum \in Nat /\ lower_bound \in Nat
  BY <1>1, WhatHolds, OptionFacts
<1>5. PICK x : x = l[Len(p)] /\ x \in Nat
  BY <1>1, CourseCost
<1>6. x < lower_bound
  <2>1. SUFFICES ASSUME lower_bound <= x PROVE FALSE
    BY <1>4, <1>5
  <2>2. ~Over
    BY <1>4, <1>5, <2>1, BeyondStays DEF Over
  <2>3. QED
    BY <1>2, <1>5, <2>1, <2>2
<1>7. Len(p) = 0
  BY <1>1, <1>3, <1>5, <1>6, CheaperThanAll
<1>8. w[0] = task.init /\ w[0] \in task.goal /\ l[0] = 0
  BY <1>7 DEF Course
<1>9. PICK sol \in sym_cuts' : sol.g = 0 /\ sol.h = 0 /\ task.init \in sol.cut
  BY <1>1, <1>3, <1>8, EmptyPlanIsRegistered
<1>10. 0 \in Joints(0)'
  BY SearchesAssumption DEF Joints, Bidirectional, Dir
<1>11. Handled(w, l, 0)'
  <2>1. l[0] - l[0] = 0
    BY <1>8
  <2>2. \A i : i \notin 0 .. 0 - 1 /\ i \notin 0 + 1 .. 0
    OBVIOUS
  <2>3. QED
    BY <1>8, <1>9, <1>10, <2>1, <2>2 DEF Handled
<1>12. QED
  BY <1>7, <1>11

\* A step in which the bounds meet passes what is expected, or proves that it has
\* been seen.
LEMMA MeetingSteps ==
    ASSUME AnytimeInv, SureToProve, [TopKNext]_topkVars, GoingOn,
           upper_bound' <= lower_bound', NEW p, NEW w, NEW l, Course(p, w, l),
           l[Len(p)] < upper_bound', ~BeyondQuality(l[Len(p)], Optimum), Passed <= l[Len(p)]
    PROVE  Coming(p, w, l)'
<1>1. /\ Driven /\ CutsKept /\ Searched /\ EngineInv /\ PlansInv /\ Base
      /\ TracedBack /\ ExploredIsSeen
  BY WhatHolds DEF AnytimeInv, CompleteInv, Driven, Searched
<1>2. /\ Passed \in Nat /\ Passed' \in Nat /\ lower_bound \in Nat /\ lower_bound <= Passed
      /\ lower_bound' \in Nat /\ lower_bound' <= Passed'
      /\ upper_bound \in Nat /\ upper_bound' \in Nat /\ upper_bound' <= upper_bound
      /\ INT_MAX \in Nat /\ upper_bound <= INT_MAX
  BY <1>1, BoundsRise
<1>3. PICK x : x = l[Len(p)] /\ x \in Nat
  BY <1>1, CourseCost
<1>4. x < Passed' /\ x < INT_MAX /\ Passed <= x
  BY <1>2, <1>3
<1>5. ~Deaf
  <2>1. lower_bound <= x /\ lower_bound # INT_MAX
    BY <1>2, <1>3, <1>4
  <2>2. ~BeyondQuality(lower_bound, Optimum)
    BY <1>1, <1>2, <1>3, <2>1, OptionFacts, BeyondStays
  <2>3. QED
    BY <2>1, <2>2 DEF GoingOn, Deaf, Over
<1>6. IsPassed(x)' \/ \E d \in Searches : NoMorePlans(d)
  BY <1>1, <1>3, <1>4, <1>5, RaisedIsPassed
<1>7. CASE \E d \in Searches : NoMorePlans(d)
  <2>1. PICK d \in Searches : NoMorePlans(d)
    BY <1>7
  <2>2. frontier[d].phase = "empty" /\ ProvableNoMorePlans(d)
    BY <2>1 DEF NoMorePlans
  <2>3. Considered(p) /\ PlanCost(p) \in Int
    BY <1>1, <1>3, <1>4, <2>2, ProvenIsSeen, CourseCost
  <2>4. QED
    BY <1>1, <2>3, ConsideredStays DEF Coming
<1>8. CASE IsPassed(x)'
  <2>1. PICK m : m = Passed
    OBVIOUS
  <2>2. CutsInv(m)'
    BY <1>1, <1>5, <2>1, CutsGoOn DEF CutsKept
  <2>3. Searched'
    BY <1>1, TopKInvNext, ListInvNext DEF Searched
  <2>4. Course(p, w, l)'
    BY <1>1, PlanGrows, StableCourse
  <2>5. HandledIfPassed'
    BY HandledIfPassedHolds, PTL
  <2>6. Handled(w, l, Len(p))'
    BY <1>2, <1>3, <1>4, <1>8, <2>1, <2>2, <2>3, <2>4, <2>5 DEF HandledIfPassed
  <2>7. QED
    BY <2>6 DEF Coming
<1>9. QED
  BY <1>6, <1>7, <1>8

\* AllComing is inductive.
LEMMA AllComingNext ==
    ASSUME AnytimeInv, NothingFound, AllComing, [TopKNext]_topkVars
    PROVE  AllComing'
<1>1. /\ Driven /\ Searched /\ EngineInv /\ PlansInv /\ Begun /\ NoneLost /\ IsFiniteSet(plan)
  BY DEF AnytimeInv, CompleteInv, Driven, Searched, ModeInv
<1>2. task' = task
  BY <1>1, PlanGrows
<1>3. SUFFICES ASSUME SureToProve, pc' # "init" \/ registry' # "idle",
                      ~(lower_bound' < upper_bound'), ~FoundEnoughPlans(plan)',
                      NEW p, NEW w, NEW l, Expected(p, w, l)'
               PROVE  Coming(p, w, l)'
  BY <1>2 DEF AllComing, SureToProve, HasZeroCost, MinTransitionCost
<1>4. /\ upper_bound \in Nat /\ upper_bound' \in Nat /\ upper_bound' <= upper_bound
      /\ lower_bound' \in Nat /\ lower_bound \in Nat /\ upper_bound <= INT_MAX /\ INT_MAX \in Nat
      /\ Passed \in Nat
  BY <1>1, BoundsRise
<1>5. Course(p, w, l) /\ l[Len(p)] < upper_bound' /\ ~BeyondQuality(l[Len(p)], Optimum)
  BY <1>2, <1>3, StableCourse, StableQuality DEF Expected
<1>6. l[Len(p)] \in Nat
  BY <1>1, <1>5, CourseCost
<1>7. upper_bound' <= lower_bound' /\ l[Len(p)] < upper_bound /\ l[Len(p)] < INT_MAX
  BY <1>3, <1>4, <1>5, <1>6
<1>8. ~FoundEnoughPlans(plan) /\ AllPlansKept
  BY <1>1, <1>3, EnoughStays DEF SureToProve, AllPlansKept
<1>9. CASE Coming(p, w, l)
  BY <1>1, <1>3, <1>5, <1>7, <1>8, <1>9, ComingGoesOn
<1>10. CASE ~Coming(p, w, l)
  <2>1. CASE pc = "init" /\ registry = "idle"
    <3>1. StartStep \/ UNCHANGED topkVars
      BY <1>1, <2>1, FreshStep DEF Begun
    <3>2. ~UNCHANGED topkVars
      BY <1>3, <2>1 DEF topkVars, allVars, vars, control, registryVars
    <3>3. QED
      BY <1>1, <1>5, <1>7, <1>8, <2>1, <3>1, <3>2, FirstStepCuts DEF Coming
  <2>2. CASE pc # "init" \/ registry # "idle"
    <3>1. lower_bound < upper_bound
      BY <1>3, <1>5, <1>7, <1>8, <1>10, <2>2 DEF AllComing, Expected
    <3>2. GoingOn
      BY <1>8, <2>2, <3>1 DEF GoingOn
    <3>3. ~(l[Len(p)] < Passed)
      BY <1>1, <1>5, <1>8, <1>10, <3>2 DEF NoneLost
    <3>4. Passed <= l[Len(p)]
      BY <1>4, <1>6, <3>3
    <3>5. QED
      BY <1>3, <1>5, <1>7, <3>2, <3>4, MeetingSteps
  <2>3. QED
    BY <2>1, <2>2
<1>11. QED
  BY <1>9, <1>10

-----------------------------------------------------------------------------
(* The answer *)

\* When the bounds have met, what is constructed is all that the upper bound admits.
LimitIsLast == registry # "idle" /\ ~(lower_bound < upper_bound) => upper_bound <= limit

\* Every step keeps that.
LEMMA LimitIsLastNext ==
    ASSUME EngineInv, PlansInv, LimitIsLast, [TopKNext]_topkVars
    PROVE  LimitIsLast'
<1>1. SUFFICES ASSUME registry' # "idle", ~(lower_bound' < upper_bound')
               PROVE  upper_bound' <= limit'
  BY DEF LimitIsLast
<1>2. /\ upper_bound' \in Nat /\ lower_bound' \in Nat /\ upper_bound \in Nat
      /\ upper_bound <= INT_MAX /\ INT_MAX \in Nat /\ upper_bound' <= upper_bound
  BY BoundsRise
<1>3. CASE StartStep
  <2>1. limit' = IF lower_bound' >= upper_bound' THEN Remaining(upper_bound')
                 ELSE IF lower_bound_increased THEN lower_bound' ELSE 0
    BY <1>3, StartStepFacts
  <2>2. limit' = Remaining(upper_bound')
    BY <1>1, <1>2, <2>1
  <2>3. limit' = upper_bound' \/ limit' = INT_MAX
    BY <2>2 DEF Remaining
  <2>4. QED
    BY <1>2, <2>3
<1>4. CASE ConstructNext \/ ReconstructPlan
  <2>1. registry # "idle" /\ UNCHANGED <<lower_bound, upper_bound, limit>>
    BY <1>4 DEF ConstructNext, ReconstructPlan, vars, engine
  <2>2. QED
    BY <1>1, <2>1 DEF LimitIsLast
<1>5. CASE EndStep \/ SearchStep
  BY <1>1, <1>5 DEF EndStep, SearchStep, registryVars
<1>6. CASE UNCHANGED topkVars
  <2>1. UNCHANGED <<registry, lower_bound, upper_bound, limit>>
    BY <1>6 DEF topkVars, allVars, vars, engine, registryVars
  <2>2. QED
    BY <1>1, <2>1 DEF LimitIsLast
<1>7. QED
  BY <1>3, <1>4, <1>5, <1>6 DEF TopKNext, TopKDone

\* The upper bound is the user's, or no less than what the quality admits.
UpperAdmits == upper_bound = task.bound \/ Graded(upper_bound)

\* Every step keeps that.
LEMMA UpperAdmitsNext ==
    ASSUME EngineInv, PlansInv, UpperAdmits, [TopKNext]_topkVars
    PROVE  UpperAdmits'
<1>1. task' = task /\ Base
  BY PlanGrows, WhatHolds
<1>2. upper_bound' = upper_bound \/ Graded(upper_bound')
  <2>1. CASE Reporting
    <3>1. PICK sols, d : \E e \in Reported(d, sols) : GoodCuts(sols) /\ upper_bound' = e.upper
      BY <2>1 DEF Reporting
    <3>2. PICK e \in Reported(d, sols) : GoodCuts(sols) /\ upper_bound' = e.upper
      BY <3>1
    <3>3. e \in Kept(sols)
      BY <1>1, <3>2, ReportedFacts
    <3>4. QED
      BY <3>2, <3>3 DEF Kept
  <2>2. QED
    BY <2>1, CutsChange
<1>3. /\ Graded(upper_bound)' <=> Graded(upper_bound')
      /\ upper_bound' = upper_bound => (Graded(upper_bound') <=> Graded(upper_bound))
  BY <1>1, StableQuality DEF Graded
<1>4. QED
  BY <1>1, <1>2, <1>3 DEF UpperAdmits

\* So it admits all plans that are asked for.
LEMMA AskedIsAdmitted ==
    ASSUME Base, UpperAdmits, NEW x \in Nat, x < task.bound, ~BeyondQuality(x, Optimum)
    PROVE  x < upper_bound
<1>1. Optimum \in Nat /\ upper_bound \in Nat
  BY OptionFacts
<1>2. CASE Graded(upper_bound)
  <2>1. QualityAsked /\ QualityBound(Optimum) <= upper_bound
    BY <1>2 DEF Graded, QualityAsked
  <2>2. QualityBound(Optimum) \in Nat /\ x < QualityBound(Optimum)
    BY <1>1, <2>1, QualityAdmits
  <2>3. QED
    BY <1>1, <2>1, <2>2
<1>3. QED
  BY <1>2 DEF UpperAdmits

\* An engine that has stopped without enough plans has seen all that is expected.
AllSeen ==
    SureToProve /\ status # "IN_PROGRESS" /\ ~FoundEnoughPlans(plan) =>
        \A p, w, l : Expected(p, w, l) => Considered(p)

\* It stops when it has taken all its cuts apart.
LEMMA StopSeesAll ==
    ASSUME AnytimeInv, AllComing, LimitIsLast, SureToProve, EndStep, status' # "IN_PROGRESS",
           ~FoundEnoughPlans(plan), NEW p, NEW w, NEW l, Expected(p, w, l)
    PROVE  Considered(p)
<1>1. Searched /\ PlansInv /\ EngineInv /\ IsFiniteSet(plan) /\ Base
  BY WhatHolds DEF AnytimeInv, CompleteInv, Driven, Searched, ModeInv
<1>2. registry = "construct" /\ Due = {} /\ lower_bound >= upper_bound
  BY DEF EndStep
<1>3. queue = {}
  BY <1>1, <1>2 DEF PlansInv
<1>4. upper_bound \in Nat /\ lower_bound \in Nat
  BY <1>1, OptionFacts
<1>5. Coming(p, w, l)
  BY <1>2, <1>4 DEF AllComing
<1>6. l[Len(p)] < upper_bound /\ Course(p, w, l)
  BY DEF Expected
<1>7. PICK n : n = Len(p) /\ n \in Nat /\ l[n] \in Nat
  BY <1>1, <1>6, CourseCost
<1>8. l[n] < limit
  <2>1. upper_bound <= limit /\ limit \in Nat
    BY <1>1, <1>2, <1>4, LevelFacts DEF LimitIsLast, EngineInv
  <2>2. QED
    BY <1>4, <1>6, <1>7, <2>1
<1>9. ~Handled(w, l, n)
  <2>1. SUFFICES ASSUME Handled(w, l, n) PROVE FALSE
    OBVIOUS
  <2>2. PICK j \in Joints(n), sol \in sym_cuts : sol.g = l[j] /\ sol.h = l[n] - l[j]
    BY <2>1 DEF Handled
  <2>3. j \in 0 .. n
    BY <1>7, <2>2 DEF Joints
  <2>4. l[j] \in Nat
    BY <1>6, <1>7, <2>3 DEF Course
  <2>5. Cost(sol) = l[n]
    BY <1>7, <2>2, <2>4 DEF Cost
  <2>6. QED
    BY <1>2, <1>8, <2>2, <2>5 DEF Due
<1>10. ~Covered(p, w, l)
  BY <1>3 DEF Covered
<1>11. QED
  BY <1>5, <1>7, <1>9, <1>10 DEF Coming

\* AllSeen is inductive.
LEMMA AllSeenNext ==
    ASSUME AnytimeInv, AllComing, LimitIsLast, AllSeen, [TopKNext]_topkVars
    PROVE  AllSeen'
<1>1. /\ Driven /\ Searched /\ EngineInv /\ PlansInv /\ IsFiniteSet(plan)
  BY DEF AnytimeInv, CompleteInv, Driven, Searched, ModeInv
<1>2. task' = task
  BY <1>1, PlanGrows
<1>3. SUFFICES ASSUME SureToProve, status' # "IN_PROGRESS", ~FoundEnoughPlans(plan)',
                      NEW p, NEW w, NEW l, Expected(p, w, l)'
               PROVE  Considered(p)'
  BY <1>2 DEF AllSeen, SureToProve, HasZeroCost, MinTransitionCost
<1>4. upper_bound \in Nat /\ upper_bound' \in Nat /\ upper_bound' <= upper_bound
  BY <1>1, BoundsRise
<1>5. Course(p, w, l) /\ l[Len(p)] < upper_bound' /\ ~BeyondQuality(l[Len(p)], Optimum)
  BY <1>2, <1>3, StableCourse, StableQuality DEF Expected
<1>6. l[Len(p)] \in Nat /\ PlanCost(p) \in Int
  BY <1>1, <1>5, CourseCost
<1>7. Expected(p, w, l)
  BY <1>4, <1>5, <1>6 DEF Expected
<1>8. ~FoundEnoughPlans(plan)
  BY <1>1, <1>3, EnoughStays
<1>9. Considered(p)
  <2>1. CASE status # "IN_PROGRESS"
    BY <1>3, <1>7, <1>8, <2>1 DEF AllSeen
  <2>2. CASE status = "IN_PROGRESS"
    <3>1. EndStep
      BY <1>3, <2>2 DEF TopKNext, StartStep, ConstructNext, ReconstructPlan, SearchStep,
         NoMorePlans, PopBucket, ExpandFrontier, Inherited, BucketReady, Prepare,
         PrepareTruncated, ExpandTruncated, Finish, Return, TopKDone, topkVars, allVars, vars, engine
    <3>2. QED
      BY <1>3, <1>7, <1>8, <3>1, StopSeesAll
  <2>3. QED
    BY <2>1, <2>2
<1>10. QED
  BY <1>1, <1>6, <1>9, ConsideredStays

\* What makes the completeness of the answer inductive.
AnswerInv ==
    /\ AnytimeInv /\ NothingFound
    /\ AllComing /\ LimitIsLast /\ UpperAdmits /\ AllSeen

\* At the start nothing has been passed.
LEMMA AnswerInit == TopKInit => AnswerInv
<1> SUFFICES ASSUME TopKInit PROVE AnswerInv
  OBVIOUS
<1>1. AnytimeInv
  BY AnytimeInit
<1>2. /\ pc = "init" /\ registry = "idle" /\ status = "IN_PROGRESS" /\ plan = {}
      /\ upper_bound = task.bound
  BY DEF TopKInit, RegistryInit, Init
<1>3. QED
  BY <1>1, <1>2 DEF AnswerInv, NothingFound, AllComing, LimitIsLast, UpperAdmits, AllSeen

\* AnswerInv is inductive.
LEMMA AnswerNext == AnswerInv /\ [TopKNext]_topkVars => AnswerInv'
<1> SUFFICES ASSUME AnswerInv, [TopKNext]_topkVars PROVE AnswerInv'
  OBVIOUS
<1>1. /\ AnytimeInv /\ NothingFound /\ AllComing /\ LimitIsLast /\ UpperAdmits /\ AllSeen
      /\ EngineInv /\ PlansInv /\ Begun
  BY DEF AnswerInv, AnytimeInv, CompleteInv, Driven, Searched
<1>2. AnytimeInv' /\ NothingFound'
  BY <1>1, AnytimeNext, NothingFoundNext
<1>3. AllComing' /\ LimitIsLast' /\ UpperAdmits' /\ AllSeen'
  BY <1>1, AllComingNext, LimitIsLastNext, UpperAdmitsNext, AllSeenNext
<1>4. QED
  BY <1>2, <1>3 DEF AnswerInv

\* symk and symq stop with all plans that the bound and the quality admit, or with
\* as many as are wanted, as long as no operator is free, plans may have loops and
\* the selector tells sorted plans apart: the bounds only meet when every such plan
\* has been cut or the open states of a direction prove that it has been seen, and
\* the last call of step takes all cuts apart.
THEOREM AnswersAreComplete == TopKSpec => [](SureToProve => AnswerComplete)
<1>1. ASSUME AnswerInv, SureToProve PROVE AnswerComplete
  <2>1. Searched /\ Base /\ Found /\ UpperAdmits
    BY <1>1, SearchedFacts, WhatHolds DEF AnswerInv, AnytimeInv, CompleteInv, Driven, Searched
  <2>2. SUFFICES ASSUME status # "IN_PROGRESS", ~FoundEnoughPlans(plan), NEW p \in WantedPlans,
                        PlanCost(p) < task.bound, ~BeyondQuality(PlanCost(p), Optimum)
                 PROVE  Considered(p)
    BY DEF AnswerComplete
  <2>3. Wanted(p)
    BY <2>1, WantedOfCertificate
  <2>4. PICK w, l : Course(p, w, l)
    BY <2>1, <2>3, CourseExists
  <2>5. PICK x : x = PlanCost(p) /\ x = l[Len(p)] /\ x \in Nat
    BY <2>1, <2>4, CourseCost
  <2>6. x < upper_bound
    BY <2>1, <2>2, <2>5, AskedIsAdmitted
  <2>7. Expected(p, w, l)
    BY <2>2, <2>4, <2>5, <2>6 DEF Expected
  <2>8. QED
    BY <1>1, <2>2, <2>7 DEF AnswerInv, AllSeen
<1>2. AnswerInv => (SureToProve => AnswerComplete)
  BY <1>1
<1>3. QED
  BY <1>2, AnswerInit, AnswerNext, PTL DEF TopKSpec
=============================================================================
