-------------------------- MODULE WangLandau_proofs --------------------------
(***************************************************************************)
(* What holds of a Wang-Landau run for every number of ranks and bins,     *)
(* every schedule of levels and both settings of GLOBAL_UPDATE:            *)
(*                                                                         *)
(*   - no two ranks ever wait in two different collective calls;           *)
(*   - a level ends only where every bin was visited;                      *)
(*   - every visit is merged into the histogram once and weighs once in    *)
(*     ln(g), and no bin has more samples than visits, as long as the      *)
(*     counters hold what all ranks count in a sweep.                      *)
(*                                                                         *)
(* Between two collective calls a rank runs on its own, at its own pace.   *)
(* What it does there depends on its copy of the shared state and on the   *)
(* counts of the last Allreduce only, never on its walker: Ahead is that   *)
(* function, one segment at a time, and it stands still in a call.  No     *)
(* path between two calls is longer than three segments, so Ahead applied  *)
(* three times is the call a rank is bound for and the state it brings.    *)
(* The first inductive invariant says that all ranks are bound for the     *)
(* same one.  The second one, Counted, says of the histogram they are      *)
(* bound for where its visits come from: the sums over bins and ranks it   *)
(* is made of are the subject of the second part.                          *)
(***************************************************************************)
EXTENDS WangLandau, FiniteSetTheorems, WellFoundedInduction, TLAPS

(* Position p = [at, dos] of a rank that has received the counts h, after  *)
(* its present segment.                                                    *)
At(a, d) == [at |-> a, dos |-> d]
AfterLevel(d) ==
  At(IF d.lnwlf > ModFactorFinal THEN "bar_level" ELSE "bar_prod", Opened(d))
AfterPrior(d) ==
  At(IF ReportDue(Swept(d)) THEN "rep_prior" ELSE "sum_prior", Swept(d))
AfterMergePrior(d) == IF PriorFlat(d) THEN At("main", Folded(d)) ELSE At("prior", d)
AfterMergeMain(d, h) ==
  At(IF ReportDue(d) THEN "rep_main" ELSE "test_main", Merged(d, h))
AfterTestMain(d) ==
  IF Flat(d.wlH, FlatNum, FlatDen) THEN At("level", Refined(d)) ELSE At("main", d)
BeforeSample(d) == At(NextSample(d), d)

Ahead(p, h) ==
  IF p.at = "level" THEN AfterLevel(p.dos)
  ELSE IF p.at = "prior" THEN AfterPrior(p.dos)
  ELSE IF p.at = "main" THEN At("bar_main", Swept(p.dos))
  ELSE IF p.at = "prod" THEN At("sum_prod", p.dos)
  ELSE IF p.at = "merge_prior" THEN AfterMergePrior(PriorMerged(p.dos, h))
  ELSE IF p.at = "merge_main" THEN AfterMergeMain(p.dos, h)
  ELSE IF p.at = "test_main" THEN AfterTestMain(p.dos)
  ELSE IF p.at = "test_prod" THEN BeforeSample(p.dos)
  ELSE IF p.at = "merge_prod" THEN BeforeSample(Sampled(p.dos, h))
  ELSE p

BoundFor(p, h) == Ahead(Ahead(Ahead(p, h), h), h)
Position(r) == At(at[r], dos[r])

Shape == /\ at \in [Rank -> Segment \cup Call]
         /\ DOMAIN dos = Rank
         /\ DOMAIN wlHd = Rank

SameDestination ==
  \A r, s \in Rank : /\ wlHd[r] = wlHd[s]
                     /\ BoundFor(Position(r), wlHd[r])
                          = BoundFor(Position(s), wlHd[s])

IInv == Shape /\ SameDestination

Stations == Call \cup {"done"}
Segments == {"level", "prior", "main", "prod", "merge_prior", "merge_main",
             "test_main", "test_prod", "merge_prod"}
-----------------------------------------------------------------------------
(* A rank is in a collective call, finished, or in a local segment.        *)
LEMMA Places == /\ Segment \cup Call = Stations \cup Segments
                /\ DOMAIN Plan = {"prior", "main", "prod"}
                /\ Call = {"bar_level", "rep_prior", "sum_prior", "bar_main",
                           "sum_main", "bar_sum", "rep_main", "bar_prod",
                           "sum_prod", "sum_op", "sum_op2"}
  BY DEF Segment, Segments, Stations, Call, Plan, Returns

(* A rank in a collective call, or done, is not moved by Ahead.            *)
LEMMA StationFixed ==
  ASSUME NEW p, NEW h, p.at \in Stations
  PROVE  Ahead(p, h) = p
  BY Places DEF Ahead, Stations

(* From anywhere, three segments at most lead to a call or to the end.     *)
LEMMA DestinationIsStation ==
  ASSUME NEW p, NEW h, p.at \in Segment \cup Call
  PROVE  BoundFor(p, h).at \in Stations
<1> DEFINE q == Ahead(p, h)
           u == Ahead(q, h)
<1> DEFINE Last == Stations \cup {"level", "prior", "main", "prod"}
<1>1. ASSUME NEW x, x.at \in Last
      PROVE  Ahead(x, h).at \in Stations
  <2>1. CASE x.at \in Stations
    BY <2>1, StationFixed
  <2>2. CASE x.at = "level"
    BY <2>2, Places DEF Ahead, AfterLevel, At, Stations
  <2>3. CASE x.at = "prior"
    BY <2>3, Places DEF Ahead, AfterPrior, At, Stations
  <2>4. CASE x.at = "main"
    BY <2>4, Places DEF Ahead, At, Stations
  <2>5. CASE x.at = "prod"
    BY <2>5, Places DEF Ahead, At, Stations
  <2> QED BY <1>1, <2>1, <2>2, <2>3, <2>4, <2>5
<1>2. ASSUME NEW x, x.at \in Last \cup {"test_main"}
      PROVE  Ahead(x, h).at \in Last
  <2>1. CASE x.at \in Last
    BY <1>1, <2>1
  <2>2. CASE x.at = "test_main"
    BY <2>2 DEF Ahead, AfterTestMain, At
  <2> QED BY <1>2, <2>1, <2>2
<1>3. q.at \in Last \cup {"test_main"}
  <2>1. CASE p.at \in Last
    BY <1>1, <2>1
  <2>2. CASE p.at = "merge_prior"
    BY <2>2 DEF Ahead, AfterMergePrior, At
  <2>3. CASE p.at = "merge_main"
    BY <2>3, Places DEF Ahead, AfterMergeMain, At, Stations
  <2>4. CASE p.at = "test_main"
    BY <2>4, <1>2
  <2>5. CASE p.at = "test_prod"
    BY <2>5, Places DEF Ahead, BeforeSample, NextSample, At, Stations
  <2>6. CASE p.at = "merge_prod"
    BY <2>6, Places DEF Ahead, BeforeSample, NextSample, At, Stations
  <2> QED BY <2>1, <2>2, <2>3, <2>4, <2>5, <2>6, Places DEF Segments
<1>4. u.at \in Last
  BY <1>2, <1>3
<1> QED BY <1>1, <1>4 DEF BoundFor

(* So one segment further along, a rank is bound for the same call.        *)
LEMMA SegmentKeepsDestination ==
  ASSUME NEW p, NEW h, p.at \in Segment \cup Call
  PROVE  BoundFor(Ahead(p, h), h) = BoundFor(p, h)
  BY DestinationIsStation, StationFixed DEF BoundFor
-----------------------------------------------------------------------------
(* At the start every rank stands at the outer loop with the same state.   *)
LEMMA InitIInv == Init => IInv
<1> SUFFICES ASSUME Init PROVE IInv
  OBVIOUS
<1>1. Shape
  BY Places DEF Init, Shape, Segments
<1>2. SameDestination
  BY DEF Init, SameDestination, Position
<1> QED BY <1>1, <1>2 DEF IInv

(* What a rank does on its own moves its position by Ahead, or leaves it.  *)
LEMMA LocalIsAhead ==
  ASSUME Shape, NEW r \in Rank, Local(r)
  PROVE  /\ Position(r)' \in {Position(r), Ahead(Position(r), wlHd[r])}
         /\ at' \in [Rank -> Segment \cup Call]
         /\ \A s \in Rank \ {r} : at'[s] = at[s] /\ dos'[s] = dos[s]
         /\ DOMAIN dos' = Rank
         /\ wlHd' = wlHd
<1> USE Places DEF Shape, Position, At, Ahead, Goto, Stations, Segments
<1>1. CASE Work(r)
  BY <1>1 DEF Work
<1>2. CASE StartLevel(r)
  BY <1>2 DEF StartLevel, AfterLevel
<1>3. CASE EndSweep(r)
  <2>1. CASE PlanDone(r, "prior")
    BY <1>3, <2>1 DEF EndSweep, PlanDone, AfterPrior
  <2>2. CASE PlanDone(r, "main")
    BY <1>3, <2>2 DEF EndSweep, PlanDone
  <2>3. CASE PlanDone(r, "prod")
    BY <1>3, <2>3 DEF EndSweep, PlanDone
  <2> QED BY <1>3, <2>1, <2>2, <2>3 DEF EndSweep
<1>4. CASE MergePrior(r)
  BY <1>4 DEF MergePrior, AfterMergePrior
<1>5. CASE MergeMain(r)
  BY <1>5 DEF MergeMain, AfterMergeMain
<1>6. CASE TestMain(r)
  BY <1>6 DEF TestMain, AfterTestMain
<1>7. CASE TestProd(r)
  BY <1>7 DEF TestProd, BeforeSample, NextSample
<1>8. CASE MergeProd(r)
  BY <1>8 DEF MergeProd, BeforeSample, NextSample
<1> QED BY <1>1, <1>2, <1>3, <1>4, <1>5, <1>6, <1>7, <1>8 DEF Local

(* Ranks that wait in a call are in the same one, with the same state: a   *)
(* waiting rank is where it is bound for.                                  *)
LEMMA Together == IInv => RanksInStep
<1> SUFFICES ASSUME IInv, NEW r \in Rank, NEW s \in Rank,
                    at[r] \in Call, at[s] \in Call
             PROVE  at[r] = at[s] /\ dos[r] = dos[s]
  BY DEF RanksInStep
<1>1. BoundFor(Position(r), wlHd[r]) = Position(r)
  BY StationFixed DEF BoundFor, Position, At, Stations
<1>2. BoundFor(Position(s), wlHd[s]) = Position(s)
  BY StationFixed DEF BoundFor, Position, At, Stations
<1>3. Position(r) = Position(s)
  BY <1>1, <1>2 DEF IInv, SameDestination
<1> QED BY <1>3 DEF Position, At

(* No step parts the ranks.                                                *)
LEMMA StepIInv == IInv /\ [Next]_vars => IInv'
<1> SUFFICES ASSUME IInv, [Next]_vars PROVE IInv'
  OBVIOUS
<1>1. CASE UNCHANGED vars
  BY <1>1 DEF vars, IInv, Shape, SameDestination, Position
<1>2. ASSUME NEW r \in Rank, Local(r) PROVE IInv'
  <2>1. /\ Position(r)' \in {Position(r), Ahead(Position(r), wlHd[r])}
        /\ at' \in [Rank -> Segment \cup Call]
        /\ \A s \in Rank \ {r} : at'[s] = at[s] /\ dos'[s] = dos[s]
        /\ DOMAIN dos' = Rank
        /\ wlHd' = wlHd
    BY <1>2, LocalIsAhead DEF IInv
  <2>2. \A s \in Rank : BoundFor(Position(s)', wlHd[s])
                          = BoundFor(Position(s), wlHd[s])
    <3>1. BoundFor(Position(r)', wlHd[r]) = BoundFor(Position(r), wlHd[r])
      BY <2>1, SegmentKeepsDestination DEF IInv, Shape, Position, At
    <3>2. \A s \in Rank \ {r} : Position(s)' = Position(s)
      BY <2>1 DEF Position
    <3> QED BY <3>1, <3>2
  <2>3. Shape'
    BY <2>1 DEF IInv, Shape
  <2>4. SameDestination'
    BY <2>1, <2>2 DEF IInv, SameDestination, Position
  <2> QED BY <2>3, <2>4 DEF IInv
<1>3. CASE Collective
  <2>1. PICK c \in Call :
          /\ \A r \in Rank : at[r] = c
          /\ at' = [r \in Rank |-> Returns[c]]
          /\ wlHd' = IF c \in Allreduce
                     THEN [r \in Rank |-> [b \in Bin |-> SumOverRanks(wlHi, b)]]
                     ELSE wlHd
    BY <1>3 DEF Collective
  <2>2. dos' = dos
    BY <1>3 DEF Collective
  <2>3. \A r, s \in Rank : dos[r] = dos[s]
    BY <2>1, Together DEF RanksInStep
  <2>4. Shape'
    <3>1. Returns[c] \in Segment \cup Call
      BY <2>1, Places DEF Returns, Stations, Segments
    <3> QED BY <2>1, <2>2, <3>1 DEF IInv, Shape
  <2>5. \A r, s \in Rank : /\ wlHd'[r] = wlHd'[s]
                           /\ Position(r)' = Position(s)'
    BY <2>1, <2>2, <2>3 DEF IInv, SameDestination, Position
  <2> QED BY <2>4, <2>5 DEF IInv, SameDestination
<1>4. CASE Done \/ BoundReached
  BY <1>1, <1>4 DEF Done, BoundReached
<1> QED BY <1>1, <1>2, <1>3, <1>4 DEF Next

(* However many ranks there are, and however their paces differ, no two of *)
(* them ever wait in two different collective calls, and ranks that wait   *)
(* together hold the same histogram, ln(g), ln(f) and counters: the calls  *)
(* of main() and global_update() match although each rank decides alone    *)
(* when a loop ends.                                                       *)
THEOREM StaysInStep == Spec => []RanksInStep
<1>1. Init => IInv
  BY InitIInv
<1>2. IInv /\ [Next]_vars => IInv'
  BY StepIInv
<1>3. IInv => RanksInStep
  BY Together
<1> QED BY <1>1, <1>2, <1>3, PTL DEF Spec

-----------------------------------------------------------------------------
(***************************************************************************)
(* Sums over finite sets.                                                  *)
(***************************************************************************)
(* The sum of f over S, and what MapThenSumSet computes it by: pick an     *)
(* element, and go on with the rest.                                       *)
Sum(f, S) == MapThenSumSet(LAMBDA x : f[x], S)
Pick(s) == CHOOSE x \in s : TRUE
Picked(g, f, s) == IF s = {} THEN 0 ELSE f[Pick(s)] + g[s \ {Pick(s)}]
IsPicked(g, f, S) == g = [s \in SUBSET S |-> Picked(g, f, s)]

(* A set of numbers has a least one.                                       *)
LEMMA Least ==
  ASSUME NEW N, N \in SUBSET Nat, N # {}
  PROVE  \E n \in N : \A m \in N : n <= m
<1>1. PICK n \in N : \A m \in N : <<m, n>> \notin OpToRel(<, Nat)
  BY WFMin, NatLessThanWellFounded, Zenon
<1>2. \A m \in N : ~(m < n)
  BY <1>1, Zenon DEF OpToRel
<1>3. QED
  BY <1>2

(* Induction over the subsets of a finite set, with a set in place of a    *)
(* predicate: what holds of a set if it holds of it without any one of its *)
(* elements holds of all.                                                  *)
LEMMA Subsets ==
  ASSUME NEW S, IsFiniteSet(S), NEW Good \in SUBSET SUBSET S,
         \A T \in SUBSET S : (\A x \in T : T \ {x} \in Good) => T \in Good
  PROVE  \A T \in SUBSET S : T \in Good
<1> DEFINE Sizes == {n \in Nat : \E T \in SUBSET S : T \notin Good /\ Cardinality(T) = n}
<1>1. SUFFICES ASSUME NEW U \in SUBSET S, U \notin Good PROVE FALSE
  OBVIOUS
<1>2. Cardinality(U) \in Sizes
  BY <1>1, FS_Subset, FS_CardinalityType
<1>3. PICK n \in Sizes : \A m \in Sizes : n <= m
  <2>1. Sizes \in SUBSET Nat /\ Sizes # {}
    BY <1>2
  <2> HIDE DEF Sizes
  <2>2. QED
    BY <2>1, Least
<1>4. PICK T \in SUBSET S : T \notin Good /\ Cardinality(T) = n
  BY <1>3
<1>5. ASSUME NEW x \in T PROVE T \ {x} \in Good
  <2>1. Cardinality(T \ {x}) = n - 1 /\ Cardinality(T \ {x}) \in Nat /\ n \in Nat
    BY <1>4, <1>5, FS_Subset, FS_RemoveElement, FS_CardinalityType
  <2>2. Cardinality(T \ {x}) \notin Sizes
    BY <1>3, <2>1
  <2>3. QED
    BY <2>1, <2>2
<1>6. QED
  BY <1>4, <1>5

(* There is such a function, by its value on larger and larger subsets.    *)
LEMMA PickedExists ==
  ASSUME NEW S, IsFiniteSet(S), NEW f
  PROVE  \E g : IsPicked(g, f, S)
<1> DEFINE Upto(n, g) == \A s \in SUBSET S : Cardinality(s) <= n => g[s] = Picked(g, f, s)
           Next1(g) == [s \in SUBSET S |-> Picked(g, f, s)]
           Has(n) == \E g : g = [s \in SUBSET S |-> g[s]] /\ Upto(n, g)
           Lacking == {n \in Nat : ~Has(n)}
<1>1. \A s \in SUBSET S : IsFiniteSet(s) /\ Cardinality(s) \in Nat
  BY FS_Subset, FS_CardinalityType
<1>2. \A s \in SUBSET S : s # {} => /\ Pick(s) \in s
                                   /\ s \ {Pick(s)} \in SUBSET S
                                   /\ Cardinality(s \ {Pick(s)}) = Cardinality(s) - 1
  <2> TAKE s \in SUBSET S
  <2> HAVE s # {}
  <2>1. Pick(s) \in s
    BY DEF Pick
  <2>2. QED
    BY <1>1, <2>1, FS_RemoveElement
<1>3. \A s \in SUBSET S : s # {} => Cardinality(s) # 0
  BY <1>1, FS_EmptySet
<1>4. Has(0)
  <2> DEFINE g == [s \in SUBSET S |-> 0]
  <2>1. Upto(0, g)
    BY <1>1, <1>3 DEF Picked
  <2>2. g = [s \in SUBSET S |-> g[s]]
    OBVIOUS
  <2>3. QED
    BY <2>1, <2>2
<1>5. ASSUME NEW n \in Nat, Has(n) PROVE Has(n + 1)
  <2>1. PICK g : g = [s \in SUBSET S |-> g[s]] /\ Upto(n, g)
    BY <1>5
  <2> DEFINE h == Next1(g)
  <2>2. \A s \in SUBSET S : Cardinality(s) <= n => h[s] = g[s]
    BY <2>1
  <2>3. ASSUME NEW s \in SUBSET S, Cardinality(s) <= n + 1 PROVE h[s] = Picked(h, f, s)
    <3>1. CASE s = {}
      BY <3>1 DEF Picked
    <3>2. CASE s # {}
      <4>1. Cardinality(s \ {Pick(s)}) <= n
        BY <1>1, <1>2, <2>3, <3>2
      <4>2. h[s \ {Pick(s)}] = g[s \ {Pick(s)}]
        BY <1>2, <2>2, <3>2, <4>1
      <4>3. h[s] = Picked(g, f, s)
        OBVIOUS
      <4>4. QED
        BY <3>2, <4>2, <4>3 DEF Picked
    <3>3. QED
      BY <3>1, <3>2
  <2>4. h = [s \in SUBSET S |-> h[s]]
    OBVIOUS
  <2>5. QED
    BY <2>3, <2>4
<1>6. Has(Cardinality(S))
  <2>1. SUFFICES ASSUME Lacking # {} PROVE FALSE
    BY <1>1
  <2> HIDE DEF Has
  <2>2. PICK n \in Lacking : \A m \in Lacking : n <= m
    <3>1. Lacking \in SUBSET Nat
      OBVIOUS
    <3> HIDE DEF Lacking
    <3>2. QED
      BY <2>1, <3>1, Least
  <2>3. \A m \in Lacking : ~(m < n)
    BY <2>2
  <2>4. n \in Nat /\ n # 0
    BY <1>4
  <2>5. n - 1 \in Nat /\ n - 1 < n /\ (n - 1) + 1 = n
    BY <2>4
  <2>6. Has(n - 1)
    BY <2>3, <2>5
  <2>7. QED
    BY <1>5, <2>5, <2>6
<1>7. PICK g : g = [s \in SUBSET S |-> g[s]] /\ Upto(Cardinality(S), g)
  BY <1>6
<1>8. \A s \in SUBSET S : Cardinality(s) <= Cardinality(S)
  BY FS_Subset
<1>9. g = [s \in SUBSET S |-> Picked(g, f, s)]
  BY <1>7, <1>8
<1>10. QED
  BY <1>9 DEF IsPicked

(* The sum is the value of such a function.                                *)
LEMMA SumIsPicked ==
  ASSUME NEW S, IsFiniteSet(S), NEW f
  PROVE  \E g : IsPicked(g, f, S) /\ Sum(f, S) = g[S]
<1> DEFINE iter == CHOOSE g : g = [s \in SUBSET S |-> Picked(g, f, s)]
<1>1. IsPicked(iter, f, S)
  BY PickedExists DEF IsPicked
<1>2. Sum(f, S) = iter[S]
  BY DEF Sum, MapThenSumSet, MapThenFoldSet, Picked, Pick
<1>3. QED
  BY <1>1, <1>2

(* The elements may be taken in any order.                                 *)
LEMMA AnyOrder ==
  ASSUME NEW S, IsFiniteSet(S), NEW f, \A x \in S : f[x] \in Int,
         NEW g, IsPicked(g, f, S)
  PROVE  \A s \in SUBSET S : g[s] \in Int /\ \A x \in s : g[s] = f[x] + g[s \ {x}]
<1> DEFINE Free(s) == (\A t \in SUBSET s : g[t] \in Int) /\ \A x \in s : g[s] = f[x] + g[s \ {x}]
           Good == {s \in SUBSET S : Free(s)}
<1>1. ASSUME NEW T \in SUBSET S, \A x \in T : T \ {x} \in Good PROVE T \in Good
  <2>1. CASE T = {}
    BY <2>1 DEF IsPicked, Picked
  <2>2. CASE T # {}
    <3> DEFINE p == Pick(T)
    <3>1. p \in T
      BY <2>2 DEF Pick
    <3> HIDE DEF p
    <3>2. g[T] = f[p] + g[T \ {p}]
      BY <2>2 DEF IsPicked, Picked, p
    <3>3. ASSUME NEW x \in T PROVE (\A t \in SUBSET (T \ {x}) : g[t] \in Int) /\ f[x] \in Int
      BY <1>1
    <3>4. ASSUME NEW x \in T PROVE g[T] = f[x] + g[T \ {x}]
      <4>1. CASE x = p
        BY <3>2, <4>1
      <4>2. CASE x # p
        <5>1. g[T \ {p}] = f[x] + g[(T \ {p}) \ {x}]
          BY <1>1, <3>1, <4>2
        <5>2. g[T \ {x}] = f[p] + g[(T \ {x}) \ {p}]
          BY <1>1, <3>1, <4>2
        <5>3. (T \ {p}) \ {x} = (T \ {x}) \ {p} /\ (T \ {x}) \ {p} \in SUBSET S
          OBVIOUS
        <5>4. g[(T \ {x}) \ {p}] \in Int
          BY <1>1, <3>1, <4>2
        <5>5. f[x] \in Int /\ f[p] \in Int
          BY <3>1
        <5>6. g[T] = f[p] + (f[x] + g[(T \ {x}) \ {p}])
          BY <3>2, <5>1, <5>3
        <5>7. QED
          BY <5>2, <5>4, <5>5, <5>6
      <4>3. QED
        BY <4>1, <4>2
    <3>5. g[T] \in Int
      <4>1. g[T \ {p}] \in Int /\ f[p] \in Int
        BY <3>1, <3>3
      <4>2. QED
        BY <3>2, <4>1
    <3>6. ASSUME NEW t \in SUBSET T PROVE g[t] \in Int
      <4>1. CASE t = T
        BY <3>5, <4>1
      <4>2. CASE t # T
        <5>1. PICK x \in T : x \notin t
          BY <4>2
        <5>2. t \in SUBSET (T \ {x})
          BY <5>1
        <5>3. QED
          BY <3>3, <5>2
      <4>3. QED
        BY <4>1, <4>2
    <3>7. QED
      BY <3>4, <3>6
  <2>3. QED
    BY <2>1, <2>2
<1>2. \A T \in SUBSET S : T \in Good
  <2> HIDE DEF Free
  <2>1. Good \in SUBSET SUBSET S
    OBVIOUS
  <2>2. QED
    BY <1>1, <2>1, Subsets
<1>3. QED
  BY <1>2

(* There is only one, on every set both are defined on.                    *)
LEMMA PickedSame ==
  ASSUME NEW S, IsFiniteSet(S), NEW f, NEW g, IsPicked(g, f, S),
         NEW T \in SUBSET S, NEW h, IsPicked(h, f, T)
  PROVE  h[T] = g[T]
<1> DEFINE Good == {s \in SUBSET T : h[s] = g[s]}
<1>1. ASSUME NEW s \in SUBSET T, \A x \in s : s \ {x} \in Good PROVE h[s] = g[s]
  <2>1. h[s] = Picked(h, f, s) /\ g[s] = Picked(g, f, s)
    BY DEF IsPicked
  <2>2. CASE s = {}
    BY <2>1, <2>2 DEF Picked
  <2>3. CASE s # {}
    <3>1. Pick(s) \in s
      BY <2>3 DEF Pick
    <3>2. h[s \ {Pick(s)}] = g[s \ {Pick(s)}]
      BY <1>1, <3>1
    <3>3. QED
      BY <2>1, <3>2 DEF Picked
  <2>4. QED
    BY <2>2, <2>3
<1>2. \A s \in SUBSET T : s \in Good
  <2>1. \A s \in SUBSET T : (\A x \in s : s \ {x} \in Good) => s \in Good
    BY <1>1
  <2>2. Good \in SUBSET SUBSET T /\ IsFiniteSet(T)
    BY FS_Subset
  <2> HIDE DEF Good
  <2>3. QED
    BY <2>1, <2>2, Subsets
<1>3. QED
  BY <1>2

(* The laws of Sum: it is 0 over no elements, and over others any one of   *)
(* them and the sum over the rest.                                         *)
SumLaws(f, S) ==
  /\ Sum(f, {}) = 0
  /\ \A T \in SUBSET S : /\ Sum(f, T) \in Int
                         /\ \A x \in T : Sum(f, T) = f[x] + Sum(f, T \ {x})

(* The sum of integers over a finite set obeys them.                       *)
LEMMA SumOver ==
  ASSUME NEW S, IsFiniteSet(S), NEW f, \A x \in S : f[x] \in Int
  PROVE  SumLaws(f, S)
<1>1. PICK g : IsPicked(g, f, S)
  BY PickedExists
<1>2. \A s \in SUBSET S : g[s] \in Int /\ \A x \in s : g[s] = f[x] + g[s \ {x}]
  BY <1>1, AnyOrder
<1>3. ASSUME NEW T \in SUBSET S PROVE Sum(f, T) = g[T]
  <2>1. IsFiniteSet(T)
    BY FS_Subset
  <2>2. PICK h : IsPicked(h, f, T) /\ Sum(f, T) = h[T]
    BY <2>1, SumIsPicked
  <2>3. QED
    BY <1>1, <2>2, PickedSame
<1>4. Sum(f, {}) = 0
  <2>1. g[{}] = 0
    BY <1>1 DEF IsPicked, Picked
  <2>2. QED
    BY <1>3, <2>1
<1>5. QED
  BY <1>2, <1>3, <1>4 DEF SumLaws

(* Sums of smaller numbers are smaller.                                    *)
LEMMA SumMono ==
  ASSUME NEW S, IsFiniteSet(S), NEW f, NEW g,
         \A x \in S : f[x] \in Int /\ g[x] \in Int /\ f[x] <= g[x]
  PROVE  Sum(f, S) <= Sum(g, S)
<1> DEFINE Good == {T \in SUBSET S : Sum(f, T) <= Sum(g, T)}
<1>1. SumLaws(f, S)
  BY SumOver
<1>2. SumLaws(g, S)
  BY SumOver
<1>3. ASSUME NEW T \in SUBSET S, \A x \in T : T \ {x} \in Good PROVE T \in Good
  <2>1. CASE T = {}
    BY <1>1, <1>2, <2>1 DEF SumLaws
  <2>2. CASE T # {}
    <3>1. PICK x : x \in T
      BY <2>2
    <3>2. /\ Sum(f, T) = f[x] + Sum(f, T \ {x}) /\ Sum(g, T) = g[x] + Sum(g, T \ {x})
          /\ Sum(f, T \ {x}) \in Int /\ Sum(g, T \ {x}) \in Int
      BY <1>1, <1>2, <3>1 DEF SumLaws
    <3>3. Sum(f, T \ {x}) <= Sum(g, T \ {x})
      BY <1>3, <3>1
    <3>4. f[x] \in Int /\ g[x] \in Int /\ f[x] <= g[x]
      BY <3>1
    <3>5. Sum(f, T) <= Sum(g, T)
      BY <3>2, <3>3, <3>4
    <3>6. QED
      BY <3>5
  <2>3. QED
    BY <2>1, <2>2
<1>4. \A T \in SUBSET S : T \in Good
  <2>1. Good \in SUBSET SUBSET S
    OBVIOUS
  <2> HIDE DEF Good
  <2>2. QED
    BY <1>3, <2>1, Subsets
<1>5. QED
  BY <1>4

(* Sums of equal numbers are equal.                                        *)
LEMMA SumSame ==
  ASSUME NEW S, IsFiniteSet(S), NEW f, NEW g,
         \A x \in S : f[x] \in Int /\ f[x] = g[x]
  PROVE  Sum(f, S) = Sum(g, S)
<1>1. Sum(f, S) <= Sum(g, S) /\ Sum(g, S) <= Sum(f, S)
  BY SumMono
<1>2. Sum(f, S) \in Int /\ Sum(g, S) \in Int
  BY SumOver DEF SumLaws
<1>3. QED
  BY <1>1, <1>2

(* A sum of sums is the sum of the sums of the pairs.                      *)
LEMMA SumPlus ==
  ASSUME NEW S, IsFiniteSet(S), NEW f, NEW g, NEW h,
         \A x \in S : f[x] \in Int /\ g[x] \in Int /\ h[x] = f[x] + g[x]
  PROVE  Sum(h, S) = Sum(f, S) + Sum(g, S)
<1> DEFINE Good == {T \in SUBSET S : Sum(h, T) = Sum(f, T) + Sum(g, T)}
<1>1. SumLaws(f, S) /\ SumLaws(g, S) /\ SumLaws(h, S)
  <2>1. \A x \in S : h[x] \in Int
    OBVIOUS
  <2>2. QED
    BY <2>1, SumOver
<1>2. ASSUME NEW T \in SUBSET S, \A x \in T : T \ {x} \in Good PROVE T \in Good
  <2>1. CASE T = {}
    BY <1>1, <2>1 DEF SumLaws
  <2>2. CASE T # {}
    <3>1. PICK x : x \in T
      BY <2>2
    <3>2. /\ Sum(f, T) = f[x] + Sum(f, T \ {x}) /\ Sum(g, T) = g[x] + Sum(g, T \ {x})
          /\ Sum(h, T) = h[x] + Sum(h, T \ {x})
          /\ Sum(f, T \ {x}) \in Int /\ Sum(g, T \ {x}) \in Int
      BY <1>1, <3>1 DEF SumLaws
    <3>3. Sum(h, T \ {x}) = Sum(f, T \ {x}) + Sum(g, T \ {x})
      BY <1>2, <3>1
    <3>4. f[x] \in Int /\ g[x] \in Int /\ h[x] = f[x] + g[x]
      BY <3>1
    <3>5. Sum(h, T) = Sum(f, T) + Sum(g, T)
      BY <3>2, <3>3, <3>4
    <3>6. QED
      BY <3>5
  <2>3. QED
    BY <2>1, <2>2
<1>3. \A T \in SUBSET S : T \in Good
  <2>1. Good \in SUBSET SUBSET S
    OBVIOUS
  <2> HIDE DEF Good
  <2>2. QED
    BY <1>2, <2>1, Subsets
<1>4. QED
  BY <1>3

(* A sum of the same number.                                               *)
LEMMA SumConstant ==
  ASSUME NEW S, IsFiniteSet(S), NEW k \in Int, NEW f, \A x \in S : f[x] = k
  PROVE  Sum(f, S) = k * Cardinality(S)
<1> DEFINE Good == {T \in SUBSET S : Sum(f, T) = k * Cardinality(T)}
<1>1. SumLaws(f, S)
  BY SumOver
<1>2. ASSUME NEW T \in SUBSET S, \A x \in T : T \ {x} \in Good PROVE T \in Good
  <2>1. CASE T = {}
    <3>1. Sum(f, T) = 0 /\ Cardinality(T) = 0
      BY <1>1, <2>1, FS_EmptySet DEF SumLaws
    <3>2. k * 0 = 0
      OBVIOUS
    <3>3. QED
      BY <3>1, <3>2
  <2>2. CASE T # {}
    <3>1. PICK x : x \in T
      BY <2>2
    <3>2. Sum(f, T) = k + Sum(f, T \ {x}) /\ Sum(f, T \ {x}) = k * Cardinality(T \ {x})
      BY <1>1, <1>2, <3>1 DEF SumLaws
    <3> DEFINE c == Cardinality(T)
    <3>3. Cardinality(T \ {x}) = c - 1 /\ c \in Int
      BY <3>1, FS_Subset, FS_RemoveElement, FS_CardinalityType
    <3> HIDE DEF c
    <3>4. k + k * (c - 1) = k * c
      BY <3>3
    <3>5. QED
      BY <3>2, <3>3, <3>4 DEF c
  <2>3. QED
    BY <2>1, <2>2
<1>3. \A T \in SUBSET S : T \in Good
  <2>1. Good \in SUBSET SUBSET S
    OBVIOUS
  <2> HIDE DEF Good
  <2>2. QED
    BY <1>2, <2>1, Subsets
<1>4. QED
  BY <1>3

(* When one term changes, the sum changes by as much.                      *)
LEMMA SumChange ==
  ASSUME NEW S, IsFiniteSet(S), NEW f, NEW g, NEW a \in S, NEW k \in Int,
         \A x \in S : f[x] \in Int, \A x \in S \ {a} : g[x] = f[x], g[a] = f[a] + k
  PROVE  Sum(g, S) = Sum(f, S) + k
<1>1. \A x \in S : g[x] \in Int
  <2> TAKE x \in S
  <2>1. CASE x = a
    BY <2>1
  <2>2. CASE x # a
    BY <2>2
  <2>3. QED
    BY <2>1, <2>2
<1>2. Sum(f, S) = f[a] + Sum(f, S \ {a}) /\ Sum(f, S \ {a}) \in Int
  BY SumOver DEF SumLaws
<1>3. Sum(g, S) = g[a] + Sum(g, S \ {a})
  BY <1>1, SumOver DEF SumLaws
<1>4. Sum(g, S \ {a}) = Sum(f, S \ {a})
  <2>1. IsFiniteSet(S \ {a})
    BY FS_Subset
  <2>2. \A x \in S \ {a} : f[x] \in Int /\ f[x] = g[x]
    OBVIOUS
  <2>3. QED
    BY <2>1, <2>2, SumSame
<1>5. f[a] \in Int
  OBVIOUS
<1>6. QED
  BY <1>2, <1>3, <1>4, <1>5

(* Rows first or columns first: the order of two sums does not matter.     *)
LEMMA SumOfSums ==
  ASSUME NEW A, NEW B, IsFiniteSet(A), IsFiniteSet(B),
         NEW m, \A a \in A : \A b \in B : m[a][b] \in Int
  PROVE  Sum([b \in B |-> Sum([a \in A |-> m[a][b]], A)], B)
           = Sum([a \in A |-> Sum(m[a], B)], A)
<1> DEFINE Rows == [a \in A |-> Sum(m[a], B)]
           Column(b) == [a \in A |-> m[a][b]]
           Columns(T) == [b \in B |-> Sum(Column(b), T)]
           Good == {T \in SUBSET A : Sum(Columns(T), B) = Sum(Rows, T)}
<1>1. \A a \in A : Rows[a] \in Int
  BY SumOver DEF SumLaws
<1>2. SumLaws(Rows, A)
  <2> HIDE DEF Rows
  <2>1. QED
    BY <1>1, SumOver
<1>3. ASSUME NEW b \in B
      PROVE  /\ Sum(Column(b), {}) = 0
             /\ \A T \in SUBSET A : /\ Sum(Column(b), T) \in Int
                                    /\ \A x \in T : Sum(Column(b), T)
                                         = m[x][b] + Sum(Column(b), T \ {x})
  <2> DEFINE f == Column(b)
  <2>1. \A x \in A : f[x] \in Int /\ f[x] = m[x][b]
    OBVIOUS
  <2> HIDE DEF f
  <2>2. SumLaws(f, A)
    <3>1. \A x \in A : f[x] \in Int
      BY <2>1
    <3>2. QED
      BY <3>1, SumOver, Zenon
  <2>3. /\ Sum(f, {}) = 0
        /\ \A T \in SUBSET A : /\ Sum(f, T) \in Int
                               /\ \A x \in T : Sum(f, T) = m[x][b] + Sum(f, T \ {x})
    BY <2>1, <2>2 DEF SumLaws
  <2>4. QED
    BY <2>3 DEF f
<1>4. ASSUME NEW T \in SUBSET A, \A x \in T : T \ {x} \in Good PROVE T \in Good
  <2>1. CASE T = {}
    <3> DEFINE h == Columns(T)
    <3>1. \A b \in B : h[b] = 0
      BY <1>3, <2>1
    <3> HIDE DEF h
    <3>2. Sum(h, B) = 0 * Cardinality(B)
      BY <3>1, SumConstant
    <3>3. Cardinality(B) \in Nat
      BY FS_CardinalityType
    <3>4. Sum(h, B) = 0
      BY <3>2, <3>3
    <3>5. QED
      BY <1>2, <2>1, <3>4 DEF h, SumLaws
  <2>2. CASE T # {}
    <3>1. PICK x : x \in T
      BY <2>2
    <3> DEFINE h == Columns(T)
               f == Columns(T \ {x})
               g == m[x]
    <3>2. \A b \in B : f[b] \in Int /\ g[b] \in Int /\ h[b] = f[b] + g[b]
      <4> TAKE b \in B
      <4>1. f[b] = Sum(Column(b), T \ {x}) /\ h[b] = Sum(Column(b), T)
        OBVIOUS
      <4> HIDE DEF Column, f, h
      <4>2. Sum(Column(b), T) = m[x][b] + Sum(Column(b), T \ {x})
        BY <1>3, <3>1
      <4>3. Sum(Column(b), T \ {x}) \in Int
        BY <1>3
      <4>4. m[x][b] \in Int
        BY <3>1
      <4>5. QED
        BY <4>1, <4>2, <4>3, <4>4
    <3>3. Sum(h, B) = Sum(f, B) + Sum(g, B)
      <4> HIDE DEF f, g, h
      <4>1. QED
        BY <3>2, SumPlus
    <3>4. Sum(f, B) = Sum(Rows, T \ {x})
      BY <1>4, <3>1
    <3>5. Sum(Rows, T) = Rows[x] + Sum(Rows, T \ {x}) /\ Sum(Rows, T \ {x}) \in Int
      BY <1>2, <3>1 DEF SumLaws
    <3>6. Rows[x] = Sum(g, B) /\ Rows[x] \in Int
      BY <1>1, <3>1
    <3>7. Sum(h, B) = Sum(Rows, T)
      <4> HIDE DEF f, g, h, Rows
      <4>1. QED
        BY <3>3, <3>4, <3>5, <3>6
    <3>8. QED
      BY <3>7
  <2>3. QED
    BY <2>1, <2>2
<1>5. \A T \in SUBSET A : T \in Good
  <2>1. Good \in SUBSET SUBSET A
    OBVIOUS
  <2> HIDE DEF Good
  <2>2. QED
    BY <1>4, <2>1, Subsets
<1>6. QED
  BY <1>5

(* The model's own sums are such sums.                                     *)
LEMMA Finite == IsFiniteSet(Rank) /\ Cardinality(Rank) = NRanks /\ IsFiniteSet(Bin)
<1>1. NRanks \in Nat \ {0} /\ NBins \in Nat \ {0}
  BY SizeAssumption
<1>2. QED
  BY <1>1, FS_Interval DEF Rank, Bin

(* The total of a histogram is the sum over its bins.                      *)
LEMMA TotalIsSum == \A h : Total(h) = Sum(h, Bin)
BY DEF Total, Sum

(* What the ranks hold for one bin is summed over the ranks.               *)
LEMMA ColumnIsSum ==
  ASSUME NEW h, NEW b
  PROVE  MapThenSumSet(LAMBDA r : h[r][b], Rank) = Sum([r \in Rank |-> h[r][b]], Rank)
<1> DEFINE f == [r \in Rank |-> h[r][b]]
           Body(g) == [s \in SUBSET Rank |->
                         IF s = {} THEN 0 ELSE h[Pick(s)][b] + g[s \ {Pick(s)}]]
           iter == CHOOSE g : g = Body(g)
<1>1. \A g : IsPicked(g, f, Rank) <=> g = Body(g)
  <2> TAKE g
  <2>1. \A s \in SUBSET Rank : s # {} => Pick(s) \in Rank
    BY DEF Pick
  <2>2. \A s \in SUBSET Rank : Picked(g, f, s) = Body(g)[s]
    BY <2>1 DEF Picked
  <2>3. [s \in SUBSET Rank |-> Picked(g, f, s)] = Body(g)
    BY <2>2
  <2>4. QED
    BY <2>3 DEF IsPicked
<1>2. PICK g : IsPicked(g, f, Rank) /\ Sum(f, Rank) = g[Rank]
  BY Finite, SumIsPicked
<1>3. iter = Body(iter)
  BY <1>1, <1>2
<1>4. MapThenSumSet(LAMBDA r : h[r][b], Rank) = iter[Rank]
  BY DEF MapThenSumSet, MapThenFoldSet, Pick
<1>5. iter[Rank] = g[Rank]
  <2>1. IsPicked(iter, f, Rank) /\ IsPicked(g, f, Rank)
    BY <1>1, <1>2, <1>3
  <2> HIDE DEF iter, f
  <2>2. Rank \in SUBSET Rank
    OBVIOUS
  <2>3. QED
    BY <2>1, <2>2, Finite, PickedSame
<1>6. QED
  BY <1>2, <1>4, <1>5

(* The totals of the ranks are summed over the ranks.                      *)
LEMMA TotalsAreSum ==
  ASSUME NEW h
  PROVE  MapThenSumSet(LAMBDA q : Total(h[q]), Rank) = Sum([q \in Rank |-> Total(h[q])], Rank)
<1> DEFINE f == [q \in Rank |-> Total(h[q])]
           Body(g) == [s \in SUBSET Rank |->
                         IF s = {} THEN 0 ELSE Total(h[Pick(s)]) + g[s \ {Pick(s)}]]
           iter == CHOOSE g : g = Body(g)
<1>1. \A g : IsPicked(g, f, Rank) <=> g = Body(g)
  <2> TAKE g
  <2>1. \A s \in SUBSET Rank : s # {} => Pick(s) \in Rank
    BY DEF Pick
  <2>2. \A s \in SUBSET Rank : Picked(g, f, s) = Body(g)[s]
    BY <2>1 DEF Picked
  <2>3. [s \in SUBSET Rank |-> Picked(g, f, s)] = Body(g)
    BY <2>2
  <2>4. QED
    BY <2>3 DEF IsPicked
<1>2. PICK g : IsPicked(g, f, Rank) /\ Sum(f, Rank) = g[Rank]
  BY Finite, SumIsPicked
<1>3. iter = Body(iter)
  BY <1>1, <1>2
<1>4. MapThenSumSet(LAMBDA q : Total(h[q]), Rank) = iter[Rank]
  BY DEF MapThenSumSet, MapThenFoldSet, Pick
<1>5. iter[Rank] = g[Rank]
  <2>1. IsPicked(iter, f, Rank) /\ IsPicked(g, f, Rank)
    BY <1>1, <1>2, <1>3
  <2> HIDE DEF iter, f
  <2>2. Rank \in SUBSET Rank
    OBVIOUS
  <2>3. QED
    BY <2>1, <2>2, Finite, PickedSame
<1>6. QED
  BY <1>2, <1>4, <1>5

-----------------------------------------------------------------------------
(***************************************************************************)
(* What each rank keeps.                                                   *)
(***************************************************************************)
Record == [lnwlf : Nat, numf : Nat, E_0 : Int, IterSweeps : Nat, TotalSweeps : Nat,
           count : Nat, wlH : [Bin -> Nat], wllng : [Bin -> Nat],
           wllng_prior : [Bin -> Nat]]
Typed == /\ at \in [Rank -> Segment \cup Call]
         /\ step \in [Rank -> Nat]
         /\ dos \in [Rank -> Record]
         /\ wlHd \in [Rank -> [Bin -> Nat]]
         /\ bin \in [Rank -> Bin]
         /\ wlHi \in [Rank -> [Bin -> Nat]]
         /\ wllngi \in [Rank -> [Bin -> Nat]]
         /\ op \in [Rank -> [Bin -> Nat]]
         /\ visits \in [Rank -> Nat]

(***************************************************************************)
(* Where the visits are.  Between two calls of an Allreduce a rank's       *)
(* counts grow, by at most one for each move of the sweep.                 *)
(***************************************************************************)
Sweeping == DOMAIN Plan
Merging == {"merge_prior", "merge_main", "merge_prod"}
Quiet == {"level", "bar_level", "rep_main", "test_main", "bar_prod", "test_prod",
          "sum_op", "sum_op2", "done"}
Sampling == {"prod", "sum_prod", "merge_prod", "sum_op", "sum_op2", "done"}

Walker(r) ==
  /\ at[r] \notin Sweeping => step[r] = 0
  /\ at[r] \in Sweeping => step[r] <= Len(Plan[at[r]])
  /\ \A b \in Bin : wlHi[r][b] <= IF at[r] \in Sweeping THEN step[r] ELSE NMoves + 1
  /\ at[r] \in Quiet => wlHi[r] = Zero
  /\ at[r] \notin Sampling =>
       /\ op[r] = Zero
       /\ \A b \in Bin : wllngi[r][b] = wlHi[r][b] * dos[r].lnwlf

(* After the Allreduce of the main loop its sum waits for a Barrier. *)
Received == \A r \in Rank : at[r] = "bar_sum" =>
  /\ \A q \in Rank : at[q] = "bar_sum"
  /\ wlHd[r] = [b \in Bin |-> SumOverRanks(wlHi, b)]

(* The counts of a rank that are not in the histogram it is bound for: not *)
(* those it is about to merge.                                             *)
Pending(r, b) == IF at[r] \in Merging THEN 0 ELSE wlHi[r][b]

(* On its way to the next call a rank resets the histogram.                *)
Resets(p, h) ==
  \/ p.at = "level"
  \/ p.at = "merge_prior" /\ PriorFlat(PriorMerged(p.dos, h))
  \/ p.at = "test_main" /\ Flat(p.dos.wlH, FlatNum, FlatDen)
  \/ /\ p.at = "merge_main" /\ ~ReportDue(p.dos)
     /\ Flat(Merged(p.dos, h).wlH, FlatNum, FlatDen)

(* The visits of a rank that will be in the histogram it is bound for.     *)
Lasting(r) == IF Resets(Position(r), wlHd[r]) THEN 0 ELSE visits[r]
Unmerged(r) == [b \in Bin |-> Pending(r, b)]
Settled(r) == Lasting(r) - Sum(Unmerged(r), Bin)
Destined(r) == BoundFor(Position(r), wlHd[r]).dos.wlH

Conserved == \A r \in Rank :
  Sum(Destined(r), Bin) = Sum([q \in Rank |-> Settled(q)], Rank)
Supported == \A r \in Rank, b \in Bin :
  Sum([q \in Rank |-> op[q][b] - Pending(q, b)], Rank) <= Destined(r)[b]

Fits == NRanks * (NMoves + 1) < CounterMod
Counted == /\ IInv /\ Typed
           /\ \A r \in Rank : Walker(r)
           /\ Received /\ Conserved /\ Supported

-----------------------------------------------------------------------------
(* Every variable of a rank keeps its type.                                *)
LEMMA AddTyped ==
  ASSUME NEW g \in [Bin -> Nat], NEW h \in [Bin -> Nat], NEW k \in Nat
  PROVE  Add(g, h, k) \in [Bin -> Nat] /\ \A b \in Bin : Add(g, h, k)[b] = g[b] + h[b] * k
<1>1. ASSUME NEW b \in Bin PROVE g[b] + h[b] * k \in Nat
  <2>1. g[b] \in Nat /\ h[b] \in Nat
    OBVIOUS
  <2>2. \A x, y \in Nat : x * y \in Nat
    OBVIOUS
  <2>3. h[b] * k \in Nat
    BY <2>1, <2>2
  <2>4. QED
    BY <2>1, <2>3
<1>2. QED
  BY <1>1 DEF Add

(* What the steps of the code do to the shared state.                      *)
LEMMA RecordKept ==
  ASSUME NEW d \in Record, NEW h \in [Bin -> Nat]
  PROVE  /\ Opened(d) \in Record /\ Opened(d).wlH = Zero
         /\ Swept(d) \in Record /\ Swept(d).wlH = d.wlH
         /\ Merged(d, h) \in Record /\ Merged(d, h).wlH = Add(d.wlH, h, 1)
         /\ PriorMerged(d, h) \in Record /\ PriorMerged(d, h).wlH = Add(d.wlH, h, 1)
         /\ Folded(d) \in Record /\ Folded(d).wlH = Zero
         /\ Refined(d) \in Record /\ Refined(d).wlH = d.wlH
         /\ Sampled(d, h) \in Record /\ Sampled(d, h).wlH = Add(d.wlH, h, 1)
         /\ \A e \in {Opened(d), Swept(d), Merged(d, h), PriorMerged(d, h), Folded(d), Sampled(d, h)} :
              e.lnwlf = d.lnwlf /\ e.numf = d.numf
<1>1. Zero \in [Bin -> Nat]
  BY DEF Zero
<1>2. /\ d.lnwlf \in Nat /\ d.wlH \in [Bin -> Nat] /\ d.wllng \in [Bin -> Nat]
      /\ d.wllng_prior \in [Bin -> Nat] /\ d.E_0 \in Int /\ d.numf \in Nat
      /\ d.IterSweeps \in Nat /\ d.TotalSweeps \in Nat /\ d.count \in Nat
  BY DEF Record
<1>3. /\ Add(d.wlH, h, 1) \in [Bin -> Nat] /\ Add(d.wllng, h, d.lnwlf) \in [Bin -> Nat]
      /\ Add(d.wllng_prior, h, d.lnwlf) \in [Bin -> Nat]
  BY <1>2, AddTyped
<1>4. /\ Opened(d) \in Record /\ Opened(d).wlH = Zero
      /\ Opened(d).lnwlf = d.lnwlf /\ Opened(d).numf = d.numf
  BY <1>1 DEF Opened, Record
<1>5. /\ Swept(d) \in Record /\ Swept(d).wlH = d.wlH
      /\ Swept(d).lnwlf = d.lnwlf /\ Swept(d).numf = d.numf
      /\ Swept(d).wllng = d.wllng /\ Swept(d).count = d.count
  <2>1. Swept(d) = [d EXCEPT !.IterSweeps = d.IterSweeps + 1, !.TotalSweeps = d.TotalSweeps + 1]
    BY DEF Swept, Record
  <2>2. d.IterSweeps + 1 \in Nat /\ d.TotalSweeps + 1 \in Nat
    BY <1>2
  <2> DEFINE Kept(e) == /\ e \in Record /\ e.wlH = d.wlH /\ e.lnwlf = d.lnwlf
                        /\ e.numf = d.numf /\ e.wllng = d.wllng /\ e.count = d.count
  <2>3. \A i, t \in Nat : Kept([d EXCEPT !.IterSweeps = i, !.TotalSweeps = t])
    BY DEF Record
  <2> HIDE DEF Kept
  <2>4. Kept(Swept(d))
    BY <2>1, <2>2, <2>3
  <2>5. QED
    BY <2>4 DEF Kept
<1>6. ASSUME NEW e \in Record, e.wlH = d.wlH, e.lnwlf = d.lnwlf, e.numf = d.numf,
             e.wllng = d.wllng
      PROVE  /\ Merged(e, h) \in Record /\ Merged(e, h).wlH = Add(d.wlH, h, 1)
             /\ Merged(e, h).lnwlf = d.lnwlf /\ Merged(e, h).numf = d.numf
             /\ Merged(e, h).count = e.count
  BY <1>3, <1>6 DEF Merged, Record
<1>7. /\ PriorMerged(d, h) \in Record /\ PriorMerged(d, h).wlH = Add(d.wlH, h, 1)
      /\ PriorMerged(d, h).lnwlf = d.lnwlf /\ PriorMerged(d, h).numf = d.numf
  BY <1>3 DEF PriorMerged, Record
<1>8. /\ Folded(d) \in Record /\ Folded(d).wlH = Zero
      /\ Folded(d).lnwlf = d.lnwlf /\ Folded(d).numf = d.numf
  <2> DEFINE p == [b \in Bin |-> (d.wllng_prior[b] * d.lnwlf) \div Unit]
  <2>1. ASSUME NEW b \in Bin PROVE (d.wllng_prior[b] * d.lnwlf) \div Unit \in Nat
    <3>1. d.wllng_prior[b] \in Nat /\ Unit \in Nat \ {0}
      BY <1>2, LevelAssumption
    <3>2. \A x, y \in Nat : x * y \in Nat
      OBVIOUS
    <3>3. d.wllng_prior[b] * d.lnwlf \in Nat
      BY <1>2, <3>1, <3>2
    <3>4. \A x \in Nat, y \in Nat \ {0} : x \div y \in Nat
      OBVIOUS
    <3>5. QED
      BY <3>1, <3>3, <3>4
  <2>2. p \in [Bin -> Nat]
    BY <2>1
  <2>3. Folded(d) = [d EXCEPT !.wlH = Zero, !.wllng_prior = p, !.wllng = Add(@, p, 1)]
    BY DEF Folded
  <2> HIDE DEF p
  <2>4. Add(d.wllng, p, 1) \in [Bin -> Nat]
    BY <1>2, <2>2, AddTyped
  <2>5. QED
    BY <1>1, <2>2, <2>3, <2>4 DEF Record
<1>9. Refined(d) \in Record /\ Refined(d).wlH = d.wlH
  <2>1. d.lnwlf \div IterationFactor \in Nat
    <3>1. IterationFactor \in Nat \ {0}
      BY LevelAssumption
    <3>2. \A x \in Nat, y \in Nat \ {0} : x \div y \in Nat
      OBVIOUS
    <3>3. QED
      BY <1>2, <3>1, <3>2
  <2>2. d.E_0 - ECutStep \in Int
    BY <1>2, ScheduleAssumption
  <2>3. d.numf + 1 \in Nat
    BY <1>2
  <2>4. QED
    BY <1>2, <2>1, <2>2, <2>3 DEF Refined, Record
<1>10. /\ Sampled(d, h) \in Record /\ Sampled(d, h).wlH = Add(d.wlH, h, 1)
       /\ Sampled(d, h).lnwlf = d.lnwlf /\ Sampled(d, h).numf = d.numf
  <2> DEFINE e == Merged(Swept(d), h)
  <2>1. /\ e \in Record /\ e.wlH = Add(d.wlH, h, 1) /\ e.lnwlf = d.lnwlf /\ e.numf = d.numf
    BY <1>5, <1>6
  <2>2. Sampled(d, h) = [e EXCEPT !.count = @ + 1]
    BY DEF Sampled
  <2> HIDE DEF e
  <2>3. QED
    BY <2>1, <2>2 DEF Record
<1>11. Merged(d, h) \in Record /\ Merged(d, h).wlH = Add(d.wlH, h, 1)
       /\ Merged(d, h).lnwlf = d.lnwlf /\ Merged(d, h).numf = d.numf
  BY <1>6
<1>12. QED
  BY <1>4, <1>5, <1>7, <1>8, <1>9, <1>10, <1>11

(* The plans are sequences of NMoves or one more calls.                    *)
LEMMA PlanLength ==
  /\ Sweeping = {"prior", "main", "prod"}
  /\ \A a \in Sweeping : Len(Plan[a]) \in Nat /\ Len(Plan[a]) <= NMoves + 1
<1>1. NMoves \in Nat
  BY SizeAssumption
<1>2. Swaps \in Seq({"swap"}) /\ Len(Swaps) = NMoves
  BY <1>1 DEF Swaps
<1>3. Swaps \in Seq({"swap", "vae", "gate"})
  BY <1>1 DEF Swaps
<1>4. Len(Append(Swaps, "vae")) = NMoves + 1
  BY <1>1, <1>2, <1>3
<1>5. Len(<<"gate">> \o Swaps) = 1 + NMoves
  <2>1. <<"gate">> \in Seq({"swap", "vae", "gate"}) /\ Len(<<"gate">>) = 1
    OBVIOUS
  <2>2. QED
    BY <1>2, <1>3, <2>1
<1>6. Sweeping = {"prior", "main", "prod"}
  BY DEF Sweeping, Plan
<1>7. /\ Plan["prior"] = Append(Swaps, "vae") /\ Plan["main"] = <<"gate">> \o Swaps
      /\ Plan["prod"] = Swaps
  BY DEF Plan
<1>8. QED
  BY <1>1, <1>2, <1>4, <1>5, <1>6, <1>7

(* A call of a plan makes at most one decision, and counts it in one bin.  *)
LEMMA WorkCounts ==
  ASSUME Typed, NEW r \in Rank, Work(r)
  PROVE  /\ at[r] \in Sweeping /\ step[r] < Len(Plan[at[r]])
         /\ step' = [step EXCEPT ![r] = @ + 1] /\ UNCHANGED <<at, dos, wlHd>>
         /\ \/ UNCHANGED <<local, visits>>
            \/ \E b \in Bin, s \in BOOLEAN : Count(r, b, s) /\ (s => at[r] = "prod")
<1>1. \A a \in Sweeping : Mode[a] = "WLproduction" => a = "prod"
  BY PlanLength DEF Mode
<1>2. ASSUME NEW mode, mode = Mode[at[r]], Visit(r, mode)
      PROVE  \E b \in Bin, s \in BOOLEAN : Count(r, b, s) /\ (s => mode = "WLproduction")
  <2>1. PICK f \in Bin \cup {Outside} :
          \/ f \in Bin /\ Count(r, f, Samples(mode, f))
          \/ Rejects(r, mode, f) /\ Count(r, bin[r], Samples(mode, f))
    BY <1>2 DEF Visit
  <2>2. Samples(mode, f) \in BOOLEAN /\ (Samples(mode, f) => mode = "WLproduction")
    BY DEF Samples
  <2>3. bin[r] \in Bin
    BY DEF Typed
  <2>4. QED
    BY <2>1, <2>2, <2>3
<1>3. UNCHANGED <<local, visits>> \/ Visit(r, Mode[at[r]])
  BY DEF Work
<1>4. at[r] \in Sweeping
  BY DEF Work, Sweeping
<1>5. QED
  BY <1>1, <1>2, <1>3, <1>4 DEF Work

(* Counting a decision keeps the types.                                    *)
LEMMA CountTyped ==
  ASSUME Typed, NEW r \in Rank, NEW b \in Bin, NEW s \in BOOLEAN, Count(r, b, s)
  PROVE  /\ bin' \in [Rank -> Bin] /\ wlHi' \in [Rank -> [Bin -> Nat]]
         /\ wllngi' \in [Rank -> [Bin -> Nat]] /\ op' \in [Rank -> [Bin -> Nat]]
         /\ visits' \in [Rank -> Nat]
<1>1. bin' \in [Rank -> Bin] /\ visits' \in [Rank -> Nat]
  BY DEF Count, Typed
<1>2. wlHi' \in [Rank -> [Bin -> Nat]]
  <2>1. wlHi[r][b] \in Nat /\ CounterMod \in Nat \ {0}
    BY SizeAssumption DEF Typed
  <2>2. (wlHi[r][b] + 1) % CounterMod \in Nat
    BY <2>1
  <2>3. wlHi' = [wlHi EXCEPT ![r] = [wlHi[r] EXCEPT ![b] = (wlHi[r][b] + 1) % CounterMod]]
    BY DEF Count, Typed
  <2>4. wlHi \in [Rank -> [Bin -> Nat]]
    BY DEF Typed
  <2>5. QED
    BY <2>2, <2>3, <2>4
<1>3. wllngi' \in [Rank -> [Bin -> Nat]]
  <2>1. dos[r].lnwlf \in Nat
    BY DEF Typed, Record
  <2>2. QED
    BY <2>1 DEF Count, Typed
<1>4. op' \in [Rank -> [Bin -> Nat]]
  BY DEF Count, Typed
<1>5. QED
  BY <1>1, <1>2, <1>3, <1>4

(* Sums of counts are counts.                                              *)
LEMMA RankSumTyped ==
  ASSUME NEW h \in [Rank -> [Bin -> Nat]]
  PROVE  [b \in Bin |-> SumOverRanks(h, b)] \in [Bin -> Nat]
<1>1. ASSUME NEW b \in Bin PROVE SumOverRanks(h, b) \in Nat
  <2> DEFINE f == [r \in Rank |-> h[r][b]]
  <2>1. \A r \in Rank : f[r] \in Int
    OBVIOUS
  <2>2. Sum(f, Rank) \in Int
    <3> HIDE DEF f
    <3>1. QED
      BY <2>1, Finite, SumOver DEF SumLaws
  <2>3. SumOverRanks(h, b) = Sum(f, Rank) % CounterMod
    BY ColumnIsSum DEF SumOverRanks
  <2>4. CounterMod \in Nat \ {0}
    BY SizeAssumption
  <2> HIDE DEF f
  <2>5. Sum(f, Rank) % CounterMod \in Nat
    BY <2>2, <2>4
  <2>6. QED
    BY <2>3, <2>5
<1>2. QED
  BY <1>1

(* Every variable starts with its type.                                    *)
LEMMA TypedInitially == Init => Typed
<1> SUFFICES ASSUME Init PROVE Typed
  OBVIOUS
<1>1. Zero \in [Bin -> Nat]
  BY DEF Zero
<1>2. ModFactorInit \in Nat /\ ECut \in Int
  BY LevelAssumption, ScheduleAssumption
<1>3. dos \in [Rank -> Record]
  BY <1>1, <1>2 DEF Init, Record
<1>4. QED
  BY <1>1, <1>3, Places DEF Init, Typed, Segments

(* A local step keeps the types, and touches its own rank only.            *)
LEMMA LocalTyped ==
  ASSUME Typed, NEW r \in Rank, Local(r)
  PROVE  /\ Typed' /\ wlHd' = wlHd
         /\ \A q \in Rank \ {r} :
              /\ at'[q] = at[q] /\ step'[q] = step[q] /\ dos'[q] = dos[q]
              /\ wlHi'[q] = wlHi[q] /\ wllngi'[q] = wllngi[q] /\ op'[q] = op[q]
              /\ visits'[q] = visits[q]
<1> DEFINE Others == \A q \in Rank \ {r} :
              /\ at'[q] = at[q] /\ step'[q] = step[q] /\ dos'[q] = dos[q]
              /\ wlHi'[q] = wlHi[q] /\ wllngi'[q] = wllngi[q] /\ op'[q] = op[q]
              /\ visits'[q] = visits[q]
<1>1. Zero \in [Bin -> Nat] /\ dos[r] \in Record /\ wlHd[r] \in [Bin -> Nat]
  BY DEF Zero, Typed
<1>2. /\ Opened(dos[r]) \in Record /\ Swept(dos[r]) \in Record
      /\ Merged(dos[r], wlHd[r]) \in Record /\ Refined(dos[r]) \in Record
      /\ PriorMerged(dos[r], wlHd[r]) \in Record
      /\ Folded(PriorMerged(dos[r], wlHd[r])) \in Record
      /\ Sampled(dos[r], wlHd[r]) \in Record
  BY <1>1, RecordKept
<1>3. at' \in [Rank -> Segment \cup Call]
  <2>1. Shape
    BY DEF Typed, Shape
  <2>2. QED
    BY <2>1, LocalIsAhead
<1>4. CASE Work(r)
  <2>1. /\ step' = [step EXCEPT ![r] = @ + 1] /\ UNCHANGED <<at, dos, wlHd>>
        /\ \/ UNCHANGED <<local, visits>>
           \/ \E b \in Bin, s \in BOOLEAN : Count(r, b, s)
    BY <1>4, WorkCounts
  <2>2. step' \in [Rank -> Nat] /\ \A q \in Rank \ {r} : step'[q] = step[q]
    BY <2>1 DEF Typed
  <2>3. ASSUME UNCHANGED <<local, visits>> PROVE Typed' /\ Others
    BY <2>1, <2>2, <2>3 DEF local, Typed
  <2>4. ASSUME NEW b \in Bin, NEW s \in BOOLEAN, Count(r, b, s) PROVE Typed' /\ Others
    <3>1. Typed'
      BY <2>1, <2>2, <2>4, CountTyped DEF Typed
    <3>2. Others
      BY <2>1, <2>2, <2>4 DEF Count, Typed
    <3>3. QED
      BY <3>1, <3>2
  <2>5. QED
    BY <2>1, <2>3, <2>4
<1>5. CASE StartLevel(r)
  BY <1>2, <1>3, <1>5 DEF StartLevel, Goto, local, Typed
<1>6. CASE EndSweep(r)
  <2>1. /\ step' = [step EXCEPT ![r] = 0] /\ UNCHANGED <<wlHd, local, visits>>
        /\ dos' = [dos EXCEPT ![r] = Swept(@)] \/ dos' = dos
        /\ \E a : Goto(r, a)
    BY <1>6 DEF EndSweep
  <2>2. step' \in [Rank -> Nat] /\ dos' \in [Rank -> Record]
    BY <1>2, <2>1 DEF Typed
  <2>3. Typed'
    BY <1>3, <2>1, <2>2 DEF local, Typed
  <2>4. Others
    BY <2>1 DEF Goto, local, Typed
  <2>5. QED
    BY <2>1, <2>3, <2>4
<1>7. CASE MergePrior(r)
  <2> DEFINE d == PriorMerged(dos[r], wlHd[r])
  <2>1. /\ \E e \in {d, Folded(d)} : dos' = [dos EXCEPT ![r] = e]
        /\ visits' = [visits EXCEPT ![r] = 0] \/ visits' = visits
        /\ \E a : Goto(r, a)
        /\ wlHi' = [wlHi EXCEPT ![r] = Zero] /\ wllngi' = [wllngi EXCEPT ![r] = Zero]
        /\ UNCHANGED <<step, wlHd, bin, op>>
    BY <1>7 DEF MergePrior
  <2> HIDE DEF d
  <2>2. dos' \in [Rank -> Record] /\ visits' \in [Rank -> Nat]
    <3>1. d \in Record /\ Folded(d) \in Record
      BY <1>2 DEF d
    <3>2. dos \in [Rank -> Record] /\ visits \in [Rank -> Nat]
      BY DEF Typed
    <3>3. dos' \in [Rank -> Record]
      BY <2>1, <3>1, <3>2
    <3>4. QED
      BY <2>1, <3>2, <3>3
  <2>3. Typed'
    BY <1>1, <1>3, <2>1, <2>2 DEF Typed
  <2>4. Others
    BY <2>1 DEF Goto, Typed
  <2>5. QED
    BY <2>1, <2>3, <2>4
<1>8. CASE MergeMain(r)
  BY <1>1, <1>2, <1>3, <1>8 DEF MergeMain, Goto, Typed
<1>9. CASE TestMain(r)
  BY <1>1, <1>2, <1>3, <1>9 DEF TestMain, Goto, local, Typed
<1>10. CASE TestProd(r)
  BY <1>3, <1>10 DEF TestProd, Goto, local, Typed
<1>11. CASE MergeProd(r)
  BY <1>1, <1>2, <1>3, <1>11 DEF MergeProd, Goto, Typed
<1>12. QED
  BY <1>4, <1>5, <1>6, <1>7, <1>8, <1>9, <1>10, <1>11 DEF Local

(* So does a collective call.                                              *)
LEMMA TypedKept == Typed /\ [Next]_vars => Typed'
<1> SUFFICES ASSUME Typed, [Next]_vars PROVE Typed'
  OBVIOUS
<1>1. CASE UNCHANGED vars \/ Done \/ BoundReached
  BY <1>1 DEF vars, Done, BoundReached, Typed
<1>2. CASE Collective
  <2>1. PICK c \in Call :
          /\ at' = [r \in Rank |-> Returns[c]]
          /\ wlHd' = IF c \in Allreduce
                     THEN [r \in Rank |-> [b \in Bin |-> SumOverRanks(wlHi, b)]]
                     ELSE wlHd
    BY <1>2 DEF Collective
  <2>2. Returns[c] \in Segment \cup Call
    BY <2>1, Places DEF Returns, Stations, Segments
  <2>3. wlHd' \in [Rank -> [Bin -> Nat]]
    <3>1. wlHi \in [Rank -> [Bin -> Nat]] /\ wlHd \in [Rank -> [Bin -> Nat]]
      BY DEF Typed
    <3>2. [b \in Bin |-> SumOverRanks(wlHi, b)] \in [Bin -> Nat]
      BY <3>1, RankSumTyped
    <3>3. QED
      BY <2>1, <3>1, <3>2
  <2>4. at' \in [Rank -> Segment \cup Call] /\ UNCHANGED <<step, dos, local, visits>>
    BY <1>2, <2>1, <2>2 DEF Collective
  <2>5. QED
    BY <2>3, <2>4 DEF local, Typed
<1>3. ASSUME NEW r \in Rank, Local(r) PROVE Typed'
  BY <1>3, LocalTyped
<1>4. QED
  BY <1>1, <1>2, <1>3 DEF Next

(* So the types hold throughout.                                           *)
LEMMA TypesHold == Spec => []Typed
BY TypedInitially, TypedKept, PTL DEF Spec

-----------------------------------------------------------------------------
(* No sum of counts is negative; one of nothing is zero.                   *)
LEMMA SumNat ==
  ASSUME NEW S, IsFiniteSet(S), NEW f, \A x \in S : f[x] \in Nat
  PROVE  Sum(f, S) \in Nat /\ ((\A x \in S : f[x] = 0) => Sum(f, S) = 0)
<1> DEFINE g == [x \in S |-> 0]
<1>1. Sum(g, S) = 0
  <2>1. \A x \in S : g[x] = 0
    OBVIOUS
  <2> HIDE DEF g
  <2>2. Sum(g, S) = 0 * Cardinality(S)
    BY <2>1, SumConstant
  <2>3. Cardinality(S) \in Nat
    BY FS_CardinalityType
  <2>4. QED
    BY <2>2, <2>3
<1>2. \A x \in S : g[x] \in Int /\ f[x] \in Int /\ g[x] <= f[x]
  OBVIOUS
<1>3. (\A x \in S : f[x] = 0) => \A x \in S : f[x] \in Int /\ f[x] = g[x]
  OBVIOUS
<1> HIDE DEF g
<1>4. Sum(g, S) <= Sum(f, S)
  BY <1>2, SumMono
<1>5. Sum(f, S) \in Int
  BY <1>2, SumOver DEF SumLaws
<1>6. (\A x \in S : f[x] = 0) => Sum(f, S) = Sum(g, S)
  BY <1>3, SumSame
<1>7. QED
  BY <1>1, <1>4, <1>5, <1>6

(* The flatness test passes only when all bins were visited: one that was  *)
(* not makes the minimum zero, whatever the average is.                    *)
LEMMA FlatVisitsAll ==
  ASSUME NEW h \in [Bin -> Nat], NEW num \in Nat, NEW den \in Nat, Flat(h, num, den)
  PROVE  \A b \in Bin : h[b] > 0
<1> DEFINE visited == {b \in Bin : h[b] > 0}
           counts == {h[b] : b \in Bin}
           card == Cardinality(visited)
<1>1. Min(counts) * card * den > Total(h) * num
  BY DEF Flat
<1>2. SUFFICES ASSUME NEW b \in Bin, h[b] = 0 PROVE FALSE
  OBVIOUS
<1>3. Min(counts) = 0
  <2>1. 0 \in counts /\ \A x \in counts : x \in Nat
    BY <1>2
  <2> HIDE DEF counts
  <2>2. \A y \in counts : 0 <= y
    BY <2>1
  <2>3. Min(counts) \in counts /\ \A y \in counts : Min(counts) <= y
    BY <2>1, <2>2 DEF Min
  <2>4. QED
    BY <2>1, <2>3
<1>4. card \in Nat
  <2>1. IsFiniteSet(visited)
    BY Finite, FS_Subset
  <2>2. QED
    BY <2>1, FS_CardinalityType
<1>5. Total(h) \in Nat
  BY Finite, SumNat, TotalIsSum
<1> HIDE DEF card, counts
<1>6. Min(counts) * card * den = 0
  <2>1. 0 * card = 0
    BY <1>4
  <2>2. 0 * den = 0
    OBVIOUS
  <2>3. QED
    BY <1>3, <2>1, <2>2
<1>7. Total(h) * num \in Nat
  <2>1. \A x, y \in Nat : x * y \in Nat
    OBVIOUS
  <2>2. QED
    BY <1>5, <2>1
<1>8. QED
  BY <1>1, <1>6, <1>7

(* Only the test of the main loop ends a level.                            *)
LEMMA OnlyFlatRefines ==
  ASSUME Typed, [Next]_vars, NEW r \in Rank, dos'[r].numf # dos[r].numf
  PROVE  Flat(dos[r].wlH, FlatNum, FlatDen)
<1>1. dos[r] \in Record /\ wlHd[r] \in [Bin -> Nat] /\ DOMAIN dos = Rank
  BY DEF Typed
<1>2. Local(r)
  <2>1. CASE UNCHANGED vars \/ Done \/ BoundReached \/ Collective
    BY <2>1 DEF vars, Done, BoundReached, Collective
  <2>2. ASSUME NEW q \in Rank, Local(q) PROVE Local(r)
    <3>1. q # r => dos'[r] = dos[r]
      BY <2>2, LocalTyped
    <3>2. QED
      BY <2>2, <3>1
  <2>3. QED
    BY <2>1, <2>2 DEF Next
<1> DEFINE p == PriorMerged(dos[r], wlHd[r])
<1>3. p \in Record /\ p.numf = dos[r].numf
  BY <1>1, RecordKept
<1>4. \A e \in {dos[r], Opened(dos[r]), Swept(dos[r]), Merged(dos[r], wlHd[r]),
                p, Folded(p), Sampled(dos[r], wlHd[r])} : e.numf = dos[r].numf
  <2>1. /\ Opened(dos[r]).numf = dos[r].numf /\ Swept(dos[r]).numf = dos[r].numf
        /\ Merged(dos[r], wlHd[r]).numf = dos[r].numf
        /\ Sampled(dos[r], wlHd[r]).numf = dos[r].numf
    BY <1>1, RecordKept
  <2> HIDE DEF p
  <2>2. Folded(p).numf = p.numf
    BY <1>1, <1>3, RecordKept
  <2>3. QED
    BY <1>3, <2>1, <2>2
<1>5. CASE TestMain(r)
  BY <1>5 DEF TestMain
<1>6. ASSUME ~TestMain(r)
      PROVE  dos'[r] \in {dos[r], Opened(dos[r]), Swept(dos[r]), Merged(dos[r], wlHd[r]),
                          p, Folded(p), Sampled(dos[r], wlHd[r])}
  <2>1. CASE Work(r) \/ TestProd(r)
    BY <2>1 DEF Work, TestProd
  <2>2. CASE StartLevel(r)
    BY <1>1, <2>2 DEF StartLevel
  <2>3. CASE EndSweep(r)
    BY <1>1, <2>3 DEF EndSweep
  <2>4. CASE MergePrior(r)
    BY <1>1, <2>4 DEF MergePrior
  <2>5. CASE MergeMain(r)
    BY <1>1, <2>5 DEF MergeMain
  <2>6. CASE MergeProd(r)
    BY <1>1, <2>6 DEF MergeProd
  <2>7. QED
    BY <1>2, <1>6, <2>1, <2>2, <2>3, <2>4, <2>5, <2>6 DEF Local
<1>7. QED
  BY <1>4, <1>5, <1>6

(* For every number of ranks and bins, and every flatness and schedule:    *)
(* whoever ends a level has visits in every bin of its histogram.          *)
THEOREM LevelsVisitAll == Spec => LevelVisitsEveryBin
<1>1. ASSUME Typed, [Next]_vars
      PROVE  [\A r \in Rank : dos'[r].numf > dos[r].numf
                                => \A b \in Bin : dos[r].wlH[b] > 0]_vars
  <2>1. ASSUME NEW r \in Rank, dos'[r].numf > dos[r].numf, NEW b \in Bin
        PROVE  dos[r].wlH[b] > 0
    <3>1. dos'[r].numf # dos[r].numf
      <4>1. dos[r].numf \in Nat
        BY <1>1 DEF Typed, Record
      <4>2. QED
        BY <2>1, <4>1
    <3>2. Flat(dos[r].wlH, FlatNum, FlatDen)
      BY <1>1, <3>1, OnlyFlatRefines
    <3>3. dos[r].wlH \in [Bin -> Nat] /\ FlatNum \in Nat /\ FlatDen \in Nat
      BY <1>1, ScheduleAssumption DEF Typed, Record
    <3>4. QED
      BY <3>2, <3>3, FlatVisitsAll
  <2>2. QED
    BY <2>1
<1>2. QED
  BY <1>1, TypesHold, PTL DEF Spec, LevelVisitsEveryBin

-----------------------------------------------------------------------------
(* A local step leaves every rank bound for the call it was bound for.     *)
LEMMA LocalDestination ==
  ASSUME IInv, NEW r \in Rank, Local(r)
  PROVE  \A s \in Rank : Destined(s)' = Destined(s)
<1>1. /\ Position(r)' \in {Position(r), Ahead(Position(r), wlHd[r])}
      /\ \A s \in Rank \ {r} : at'[s] = at[s] /\ dos'[s] = dos[s]
      /\ wlHd' = wlHd
  BY LocalIsAhead DEF IInv
<1>2. BoundFor(Position(r)', wlHd[r]) = BoundFor(Position(r), wlHd[r])
  BY <1>1, SegmentKeepsDestination DEF IInv, Shape, Position, At
<1>3. \A s \in Rank \ {r} : Position(s)' = Position(s)
  BY <1>1 DEF Position
<1>4. QED
  BY <1>1, <1>2, <1>3 DEF Destined

(* What a local step may do to the counts of its rank.                     *)
Faithful(r) ==
  /\ Lasting(r)' - Sum(Unmerged(r)', Bin) = Lasting(r) - Sum(Unmerged(r), Bin)
  /\ \A b \in Bin : op'[r][b] - Pending(r, b)' <= op[r][b] - Pending(r, b)

(* It is faithful if neither these counts nor its visits change.           *)
LEMMA Unmoved ==
  ASSUME Typed, NEW r \in Rank, op'[r] = op[r], Lasting(r)' = Lasting(r),
         \A b \in Bin : Pending(r, b)' = Pending(r, b)
  PROVE  Faithful(r)
<1>1. Unmerged(r)' = Unmerged(r)
  BY DEF Unmerged
<1>2. \A b \in Bin : op[r][b] \in Int /\ Pending(r, b) \in Int
  BY DEF Typed, Pending
<1>3. \A b \in Bin : op'[r][b] - Pending(r, b)' <= op[r][b] - Pending(r, b)
  BY <1>2
<1>4. Lasting(r)' - Sum(Unmerged(r)', Bin) = Lasting(r) - Sum(Unmerged(r), Bin)
  BY <1>1
<1>5. QED
  BY <1>3, <1>4 DEF Faithful

(* A visit is counted once, and outside the histogram.                     *)
LEMMA WorkFaithful ==
  ASSUME Fits, Typed, NEW r \in Rank, Walker(r), Work(r)
  PROVE  Walker(r)' /\ Faithful(r)
<1>1. /\ at[r] \in Sweeping /\ step[r] < Len(Plan[at[r]])
      /\ step' = [step EXCEPT ![r] = @ + 1] /\ UNCHANGED <<at, dos, wlHd>>
      /\ \/ UNCHANGED <<local, visits>>
         \/ \E b \in Bin, s \in BOOLEAN : Count(r, b, s) /\ (s => at[r] = "prod")
  BY WorkCounts
<1>2. step'[r] = step[r] + 1 /\ step[r] \in Nat /\ at'[r] = at[r] /\ dos'[r] = dos[r]
  BY <1>1 DEF Typed
<1>3. Len(Plan[at[r]]) \in Nat /\ Len(Plan[at[r]]) <= NMoves + 1 /\ NMoves \in Nat
  BY <1>1, PlanLength, SizeAssumption
<1>4. \A b \in Bin : wlHi[r][b] \in Nat /\ wlHi[r][b] <= step[r]
  BY <1>1 DEF Walker, Typed
<1>5. at[r] \notin Merging /\ at[r] \notin Quiet
  BY <1>1, PlanLength DEF Merging, Quiet
<1>6. \A b \in Bin : Pending(r, b) = wlHi[r][b] /\ Pending(r, b)' = wlHi'[r][b]
  BY <1>2, <1>5 DEF Pending
<1>7. Lasting(r) = visits[r] /\ Lasting(r)' = visits'[r]
  BY <1>1, PlanLength DEF Lasting, Resets, Position, At
<1>8. CASE UNCHANGED <<local, visits>>
  <2>1. wlHi' = wlHi /\ wllngi' = wllngi /\ op' = op /\ visits' = visits
    BY <1>8 DEF local
  <2>2. Walker(r)'
    BY <1>1, <1>2, <1>3, <1>4, <1>5, <2>1 DEF Walker
  <2>3. QED
    BY <1>6, <1>7, <2>1, <2>2, Unmoved
<1>9. ASSUME NEW b \in Bin, NEW s \in BOOLEAN, Count(r, b, s), s => at[r] = "prod"
      PROVE  Walker(r)' /\ Faithful(r)
  <2>1. wlHi'[r][b] = wlHi[r][b] + 1 /\ \A c \in Bin \ {b} : wlHi'[r][c] = wlHi[r][c]
    <3>1. wlHi' = [wlHi EXCEPT ![r][b] = (wlHi[r][b] + 1) % CounterMod]
      BY <1>9 DEF Count
    <3>2. wlHi[r] \in [Bin -> Nat] /\ wlHi \in [Rank -> [Bin -> Nat]]
      BY DEF Typed
    <3>3. (wlHi[r][b] + 1) % CounterMod = wlHi[r][b] + 1
      <4>1. NRanks \in Nat \ {0} /\ CounterMod \in Nat \ {0}
        BY SizeAssumption
      <4>2. NMoves + 1 <= NRanks * (NMoves + 1)
        BY <1>3, <4>1
      <4>3. wlHi[r][b] + 1 <= NMoves + 1 /\ wlHi[r][b] \in Nat
        BY <1>1, <1>2, <1>3, <1>4
      <4> DEFINE n == NRanks * (NMoves + 1)
      <4>4. n \in Nat /\ n < CounterMod /\ wlHi[r][b] + 1 <= n
        <5>1. n \in Nat
          BY <1>3, <4>1
        <5>2. n < CounterMod
          BY DEF Fits
        <5>3. NMoves + 1 <= n
          BY <4>2
        <5> HIDE DEF n
        <5>4. QED
          BY <1>3, <4>3, <5>1, <5>2, <5>3
      <4> HIDE DEF n
      <4>5. QED
        BY <4>1, <4>3, <4>4
    <3>4. QED
      BY <3>1, <3>2, <3>3
  <2>2. /\ wllngi'[r][b] = wllngi[r][b] + dos[r].lnwlf
        /\ \A c \in Bin \ {b} : wllngi'[r][c] = wllngi[r][c]
    BY <1>9 DEF Count, Typed
  <2>3. /\ op'[r][b] = op[r][b] + (IF s THEN 1 ELSE 0)
        /\ \A c \in Bin \ {b} : op'[r][c] = op[r][c]
        /\ s = FALSE => op'[r] = op[r]
    <3>1. op' = [op EXCEPT ![r][b] = op[r][b] + (IF s THEN 1 ELSE 0)]
      BY <1>9 DEF Count
    <3>2. op \in [Rank -> [Bin -> Nat]] /\ op[r] \in [Bin -> Nat] /\ op[r][b] \in Nat
      BY DEF Typed
    <3>3. s = FALSE => op[r][b] + (IF s THEN 1 ELSE 0) = op[r][b]
      BY <3>2
    <3>4. s = FALSE => op'[r] = op[r]
      BY <3>1, <3>2, <3>3
    <3>5. QED
      BY <3>1, <3>2, <3>4
  <2>4. visits'[r] = visits[r] + 1
    BY <1>9 DEF Count, Typed
  <2>5. Faithful(r)
    <3>1. \A c \in Bin : wlHi[r][c] \in Int
      BY <1>4
    <3>2. Sum(Unmerged(r)', Bin) = Sum(Unmerged(r), Bin) + 1
      <4> DEFINE f == Unmerged(r)
                 g == Unmerged(r)'
      <4>1. /\ \A c \in Bin : f[c] \in Int
            /\ \A c \in Bin \ {b} : g[c] = f[c]
            /\ g[b] = f[b] + 1
        BY <1>6, <2>1, <3>1 DEF Unmerged
      <4>2. IsFiniteSet(Bin) /\ 1 \in Int
        BY Finite
      <4> HIDE DEF f, g
      <4>3. Sum(g, Bin) = Sum(f, Bin) + 1
        BY <4>1, <4>2, SumChange
      <4>4. QED
        BY <4>3 DEF f, g
    <3>3. Sum(Unmerged(r), Bin) \in Int
      <4> DEFINE f == Unmerged(r)
      <4>1. \A c \in Bin : f[c] \in Int
        BY <1>6, <3>1 DEF Unmerged
      <4> HIDE DEF f
      <4>2. Sum(f, Bin) \in Int
        BY <4>1, Finite, SumOver DEF SumLaws
      <4>3. QED
        BY <4>2 DEF f
    <3>4. visits[r] \in Nat
      BY DEF Typed
    <3>5. Lasting(r)' - Sum(Unmerged(r)', Bin) = Lasting(r) - Sum(Unmerged(r), Bin)
      BY <1>7, <2>4, <3>2, <3>3, <3>4
    <3>6. ASSUME NEW c \in Bin
          PROVE  op'[r][c] - Pending(r, c)' <= op[r][c] - Pending(r, c)
      <4>1. op[r][c] \in Nat /\ wlHi[r][c] \in Nat
        BY DEF Typed
      <4>2. CASE c = b
        BY <1>6, <2>1, <2>3, <4>1, <4>2
      <4>3. CASE c # b
        BY <1>6, <2>1, <2>3, <4>1, <4>3
      <4>4. QED
        BY <4>2, <4>3
    <3>7. QED
      BY <3>5, <3>6 DEF Faithful
  <2>6. ASSUME NEW c \in Bin PROVE wlHi'[r][c] <= step'[r]
    BY <1>2, <1>4, <2>1
  <2>7. ASSUME at[r] \notin Sampling
        PROVE  /\ op'[r] = Zero
               /\ \A c \in Bin : wllngi'[r][c] = wlHi'[r][c] * dos[r].lnwlf
    <3>1. op[r] = Zero /\ \A c \in Bin : wllngi[r][c] = wlHi[r][c] * dos[r].lnwlf
      BY <2>7 DEF Walker
    <3>2. s = FALSE
      BY <1>9, <2>7 DEF Sampling
    <3>3. dos[r].lnwlf \in Nat /\ wlHi[r][b] \in Nat
      BY <1>4 DEF Typed, Record
    <3>4. \A x, y \in Nat : x * y + y = (x + 1) * y
      OBVIOUS
    <3>5. wlHi[r][b] * dos[r].lnwlf + dos[r].lnwlf = (wlHi[r][b] + 1) * dos[r].lnwlf
      BY <3>3, <3>4
    <3>6. ASSUME NEW c \in Bin PROVE wllngi'[r][c] = wlHi'[r][c] * dos[r].lnwlf
      <4>1. CASE c = b
        BY <2>1, <2>2, <3>1, <3>5, <4>1
      <4>2. CASE c # b
        BY <2>1, <2>2, <3>1, <4>2
      <4>3. QED
        BY <4>1, <4>2
    <3>7. QED
      BY <2>3, <3>1, <3>2, <3>6
  <2>8. step'[r] <= Len(Plan[at[r]])
    BY <1>1, <1>2, <1>3
  <2>9. Walker(r)'
    BY <1>1, <1>2, <1>5, <2>6, <2>7, <2>8 DEF Walker
  <2>10. QED
    BY <2>5, <2>9
<1>10. QED
  BY <1>1, <1>8, <1>9

-----------------------------------------------------------------------------
(* The start of a level forgets the visits with the histogram.             *)
LEMMA StartLevelFaithful ==
  ASSUME Typed, NEW r \in Rank, Walker(r), StartLevel(r)
  PROVE  Walker(r)' /\ Faithful(r)
<1>1. /\ at[r] = "level" /\ at'[r] \in {"bar_level", "bar_prod"}
      /\ dos' = [dos EXCEPT ![r] = Opened(dos[r])] /\ visits'[r] = 0
      /\ step' = step /\ wlHi' = wlHi /\ wllngi' = wllngi /\ op' = op
  BY DEF StartLevel, Goto, Typed, local
<1>2. dos'[r].lnwlf = dos[r].lnwlf
  <2>1. dos[r] \in Record /\ wlHd[r] \in [Bin -> Nat] /\ dos'[r] = Opened(dos[r])
    BY <1>1 DEF Typed
  <2>2. Opened(dos[r]).lnwlf = dos[r].lnwlf
    BY <2>1, RecordKept
  <2>3. QED
    BY <2>1, <2>2
<1>3. Lasting(r) = 0 /\ Lasting(r)' = 0
  BY <1>1 DEF Lasting, Resets, Position, At
<1>4. \A b \in Bin : Pending(r, b)' = Pending(r, b)
  BY <1>1 DEF Pending, Merging
<1>5. Faithful(r)
  BY <1>1, <1>3, <1>4, Unmoved
<1>6. Walker(r)'
  BY <1>1, <1>2, PlanLength DEF Walker, Sampling, Quiet
<1>7. QED
  BY <1>5, <1>6

(* The end of a sweep keeps the counts for the next merge.                 *)
LEMMA EndSweepFaithful ==
  ASSUME Typed, NEW r \in Rank, Walker(r), EndSweep(r)
  PROVE  Walker(r)' /\ Faithful(r)
<1>1. /\ at[r] \in Sweeping /\ step[r] = Len(Plan[at[r]])
      /\ at'[r] \in {"rep_prior", "sum_prior", "bar_main", "sum_prod"}
      /\ at[r] = "prod" <=> at'[r] = "sum_prod"
      /\ step'[r] = 0 /\ visits' = visits
      /\ wlHi' = wlHi /\ wllngi' = wllngi /\ op' = op
  <2>1. CASE PlanDone(r, "prior")
    BY <2>1, PlanLength DEF EndSweep, PlanDone, Goto, Typed, local
  <2>2. CASE PlanDone(r, "main")
    BY <2>2, PlanLength DEF EndSweep, PlanDone, Goto, Typed, local
  <2>3. CASE PlanDone(r, "prod")
    BY <2>3, PlanLength DEF EndSweep, PlanDone, Goto, Typed, local
  <2>4. QED
    BY <2>1, <2>2, <2>3 DEF EndSweep
<1>2. dos'[r].lnwlf = dos[r].lnwlf
  <2>1. dos[r] \in Record /\ wlHd[r] \in [Bin -> Nat] /\ dos'[r] \in {dos[r], Swept(dos[r])}
    BY DEF Typed, EndSweep
  <2>2. Swept(dos[r]).lnwlf = dos[r].lnwlf
    BY <2>1, RecordKept
  <2>3. QED
    BY <2>1, <2>2
<1>3. Lasting(r) = visits[r] /\ Lasting(r)' = visits[r]
  BY <1>1, PlanLength DEF Lasting, Resets, Position, At
<1>4. \A b \in Bin : Pending(r, b)' = Pending(r, b)
  BY <1>1, PlanLength DEF Pending, Merging
<1>5. Faithful(r)
  BY <1>1, <1>3, <1>4, Unmoved
<1>6. \A b \in Bin : wlHi[r][b] <= NMoves + 1
  <2>1. Len(Plan[at[r]]) \in Nat /\ Len(Plan[at[r]]) <= NMoves + 1 /\ NMoves \in Nat
    BY <1>1, PlanLength, SizeAssumption
  <2>2. \A b \in Bin : wlHi[r][b] \in Nat /\ wlHi[r][b] <= step[r]
    BY <1>1 DEF Walker, Typed
  <2>3. QED
    BY <1>1, <2>1, <2>2
<1>7. at'[r] \notin Sampling => at[r] \notin Sampling
  BY <1>1, PlanLength DEF Sampling
<1>8. at'[r] \notin Sweeping /\ at'[r] \notin Quiet
  BY <1>1, PlanLength DEF Quiet
<1>9. Walker(r)'
  BY <1>1, <1>2, <1>6, <1>7, <1>8 DEF Walker
<1>10. QED
  BY <1>5, <1>9

(* A merge moves the counts of its rank into the histogram.                *)
LEMMA MergePriorFaithful ==
  ASSUME Typed, NEW r \in Rank, Walker(r), MergePrior(r)
  PROVE  Walker(r)' /\ Faithful(r)
<1> DEFINE d == PriorMerged(dos[r], wlHd[r])
<1>1. dos[r] \in Record /\ wlHd[r] \in [Bin -> Nat]
  BY DEF Typed
<1>2. d \in Record /\ d.lnwlf = dos[r].lnwlf
  BY <1>1, RecordKept
<1>3. Folded(d).lnwlf = d.lnwlf
  <2> HIDE DEF d
  <2>1. QED
    BY <1>1, <1>2, RecordKept
<1>4. /\ at[r] = "merge_prior"
      /\ \/ /\ PriorFlat(d) /\ dos'[r] = Folded(d) /\ visits'[r] = 0 /\ at'[r] = "main"
         \/ /\ ~PriorFlat(d) /\ dos'[r] = d /\ visits'[r] = visits[r] /\ at'[r] = "prior"
      /\ wlHi'[r] = Zero /\ wllngi'[r] = Zero /\ op' = op /\ step' = step
  BY DEF MergePrior, Goto, Typed
<1>5. Lasting(r)' = Lasting(r)
  <2>1. Lasting(r) = IF PriorFlat(d) THEN 0 ELSE visits[r]
    BY <1>4 DEF Lasting, Resets, Position, At
  <2>2. Lasting(r)' = visits'[r]
    BY <1>4 DEF Lasting, Resets, Position, At
  <2> HIDE DEF d
  <2>3. QED
    BY <1>4, <2>1, <2>2
<1> HIDE DEF d
<1>6. dos'[r].lnwlf = dos[r].lnwlf
  BY <1>2, <1>3, <1>4
<1>7. \A b \in Bin : Pending(r, b) = 0 /\ Pending(r, b)' = 0
  BY <1>4 DEF Pending, Merging, Zero
<1>8. Faithful(r)
  BY <1>4, <1>5, <1>7, Unmoved
<1>9. step[r] = 0 /\ op[r] = Zero
  BY <1>4, PlanLength DEF Walker, Sampling
<1>10. \A b \in Bin : wlHi'[r][b] = 0 /\ wllngi'[r][b] = wlHi'[r][b] * dos'[r].lnwlf
  <2>1. dos'[r].lnwlf \in Nat
    BY <1>1, <1>6 DEF Record
  <2>2. \A x \in Nat : 0 = 0 * x
    OBVIOUS
  <2>3. QED
    BY <1>4, <2>1, <2>2 DEF Zero
<1>11. at'[r] \in Sweeping /\ 0 <= Len(Plan[at'[r]])
  BY <1>4, PlanLength
<1>12. at'[r] \notin Quiet
  BY <1>4 DEF Quiet
<1>13. Walker(r)'
  BY <1>4, <1>9, <1>10, <1>11, <1>12 DEF Walker
<1>14. QED
  BY <1>8, <1>13

(* The merge of the main loop: it may end the level at once.               *)
LEMMA MergeMainFaithful ==
  ASSUME Typed, NEW r \in Rank, Walker(r), MergeMain(r)
  PROVE  Walker(r)' /\ Faithful(r)
<1> DEFINE d == Merged(dos[r], wlHd[r])
<1>1. dos[r] \in Record /\ wlHd[r] \in [Bin -> Nat]
  BY DEF Typed
<1>2. d \in Record /\ d.lnwlf = dos[r].lnwlf
  BY <1>1, RecordKept
<1>3. /\ at[r] = "merge_main" /\ dos'[r] = d /\ visits' = visits
      /\ at'[r] = IF ReportDue(dos[r]) THEN "rep_main" ELSE "test_main"
      /\ wlHi'[r] = Zero /\ wllngi'[r] = Zero /\ op' = op /\ step' = step
  BY DEF MergeMain, Goto, Typed
<1>4. Lasting(r)' = Lasting(r)
  <2>1. Lasting(r) = IF ~ReportDue(dos[r]) /\ Flat(d.wlH, FlatNum, FlatDen)
                     THEN 0 ELSE visits[r]
    BY <1>3 DEF Lasting, Resets, Position, At
  <2>2. Lasting(r)' = IF at'[r] = "test_main" /\ Flat(dos'[r].wlH, FlatNum, FlatDen)
                      THEN 0 ELSE visits[r]
    BY <1>3 DEF Lasting, Resets, Position, At
  <2> HIDE DEF d
  <2>3. QED
    BY <1>3, <2>1, <2>2
<1> HIDE DEF d
<1>5. \A b \in Bin : Pending(r, b) = 0 /\ Pending(r, b)' = 0
  BY <1>3 DEF Pending, Merging, Zero
<1>6. Faithful(r)
  BY <1>3, <1>4, <1>5, Unmoved
<1>7. step[r] = 0 /\ op[r] = Zero
  BY <1>3, PlanLength DEF Walker, Sampling
<1>8. \A b \in Bin : wlHi'[r][b] = 0 /\ wllngi'[r][b] = wlHi'[r][b] * dos'[r].lnwlf
  <2>1. dos'[r].lnwlf \in Nat
    BY <1>1, <1>2, <1>3 DEF Record
  <2>2. \A x \in Nat : 0 = 0 * x
    OBVIOUS
  <2>3. QED
    BY <1>3, <2>1, <2>2 DEF Zero
<1>9. at'[r] \notin Sweeping
  BY <1>3, PlanLength
<1>10. NMoves + 1 >= 0
  BY SizeAssumption
<1>11. Walker(r)'
  BY <1>3, <1>7, <1>8, <1>9, <1>10 DEF Walker
<1>12. QED
  BY <1>6, <1>11

(* The merge of the production loop, which never starts anew.              *)
LEMMA MergeProdFaithful ==
  ASSUME Typed, NEW r \in Rank, Walker(r), MergeProd(r)
  PROVE  Walker(r)' /\ Faithful(r)
<1>1. /\ at[r] = "merge_prod" /\ at'[r] \in {"prod", "sum_op"}
      /\ visits' = visits /\ wlHi'[r] = Zero /\ op' = op /\ step' = step
  BY DEF MergeProd, NextSample, Goto, Typed
<1>2. Lasting(r)' = visits[r] /\ Lasting(r) = visits[r]
  BY <1>1 DEF Lasting, Resets, Position, At
<1>3. \A b \in Bin : Pending(r, b) = 0 /\ Pending(r, b)' = 0
  BY <1>1 DEF Pending, Merging, Zero
<1>4. Faithful(r)
  BY <1>1, <1>2, <1>3, Unmoved
<1>5. step[r] = 0
  BY <1>1, PlanLength DEF Walker
<1>6. \A b \in Bin : wlHi'[r][b] = 0
  BY <1>1 DEF Zero
<1>7. at'[r] \in Sampling /\ at[r] \notin Quiet /\ "prod" \notin Quiet
  BY <1>1 DEF Sampling, Quiet
<1>8. at'[r] \in Sweeping => 0 <= Len(Plan[at'[r]])
  BY PlanLength
<1>9. NMoves + 1 >= 0
  BY SizeAssumption
<1>10. Walker(r)'
  BY <1>1, <1>5, <1>6, <1>7, <1>8, <1>9 DEF Walker
<1>11. QED
  BY <1>4, <1>10

(* The tests of the loops leave the counts alone: there are none.          *)
LEMMA TestMainFaithful ==
  ASSUME Typed, NEW r \in Rank, Walker(r), TestMain(r)
  PROVE  Walker(r)' /\ Faithful(r)
<1>1. /\ at[r] = "test_main" /\ dos'[r] \in Record /\ visits' = visits
      /\ \/ Flat(dos[r].wlH, FlatNum, FlatDen) /\ at'[r] = "level"
         \/ ~Flat(dos[r].wlH, FlatNum, FlatDen) /\ at'[r] = "main"
      /\ wlHi' = wlHi /\ wllngi' = wllngi /\ op' = op /\ step' = step
  <2>1. dos[r] \in Record /\ wlHd[r] \in [Bin -> Nat]
    BY DEF Typed
  <2>2. Refined(dos[r]) \in Record
    BY <2>1, RecordKept
  <2>3. dos'[r] \in {dos[r], Refined(dos[r])}
    BY DEF TestMain, Typed
  <2>4. at[r] = "test_main" /\ at \in [Rank -> Segment \cup Call]
    BY DEF TestMain, Typed
  <2>5. QED
    BY <2>1, <2>2, <2>3, <2>4 DEF TestMain, Goto, local
<1>2. Lasting(r)' = Lasting(r)
  BY <1>1 DEF Lasting, Resets, Position, At
<1>3. \A b \in Bin : Pending(r, b)' = Pending(r, b)
  BY <1>1 DEF Pending, Merging
<1>4. Faithful(r)
  BY <1>1, <1>2, <1>3, Unmoved
<1>5. /\ step[r] = 0 /\ op[r] = Zero /\ wlHi[r] = Zero
      /\ \A b \in Bin : wllngi[r][b] = wlHi[r][b] * dos[r].lnwlf
  BY <1>1, PlanLength DEF Walker, Sampling, Quiet
<1>6. \A b \in Bin : wlHi'[r][b] = 0 /\ wllngi'[r][b] = wlHi'[r][b] * dos'[r].lnwlf
  <2>1. dos'[r].lnwlf \in Nat /\ dos[r].lnwlf \in Nat
    BY <1>1 DEF Typed, Record
  <2>2. \A x \in Nat : 0 = 0 * x
    OBVIOUS
  <2>3. \A b \in Bin : wlHi[r][b] = 0 /\ wllngi[r][b] = 0
    BY <1>5, <2>1, <2>2 DEF Zero
  <2>4. QED
    BY <1>1, <2>1, <2>2, <2>3
<1>7. at'[r] \in Sweeping => 0 <= Len(Plan[at'[r]])
  BY PlanLength
<1>8. NMoves + 1 >= 0
  BY SizeAssumption
<1>9. Walker(r)'
  BY <1>1, <1>5, <1>6, <1>7, <1>8 DEF Walker
<1>10. QED
  BY <1>4, <1>9

(* The test of the production loop, too.                                   *)
LEMMA TestProdFaithful ==
  ASSUME Typed, NEW r \in Rank, Walker(r), TestProd(r)
  PROVE  Walker(r)' /\ Faithful(r)
<1>1. /\ at[r] = "test_prod" /\ at'[r] \in {"prod", "sum_op"}
      /\ visits' = visits /\ wlHi' = wlHi /\ op' = op /\ step' = step
  BY DEF TestProd, NextSample, Goto, Typed, local
<1>2. Lasting(r)' = Lasting(r)
  BY <1>1 DEF Lasting, Resets, Position, At
<1>3. \A b \in Bin : Pending(r, b)' = Pending(r, b)
  BY <1>1 DEF Pending, Merging
<1>4. Faithful(r)
  BY <1>1, <1>2, <1>3, Unmoved
<1>5. step[r] = 0 /\ wlHi[r] = Zero
  BY <1>1, PlanLength DEF Walker, Quiet
<1>6. at'[r] \in Sweeping => 0 <= Len(Plan[at'[r]])
  BY PlanLength
<1>7. NMoves + 1 >= 0
  BY SizeAssumption
<1>8. at'[r] \in Sampling
  BY <1>1 DEF Sampling
<1>9. \A b \in Bin : wlHi'[r][b] = 0
  BY <1>1, <1>5 DEF Zero
<1>10. Walker(r)'
  BY <1>1, <1>5, <1>6, <1>7, <1>8, <1>9 DEF Walker
<1>11. QED
  BY <1>4, <1>10

(* All of the local steps together.                                        *)
LEMMA LocalFaithful ==
  ASSUME Fits, Typed, NEW r \in Rank, Walker(r), Local(r)
  PROVE  Walker(r)' /\ Faithful(r)
BY WorkFaithful, StartLevelFaithful, EndSweepFaithful, MergePriorFaithful,
   MergeMainFaithful, MergeProdFaithful, TestMainFaithful, TestProdFaithful DEF Local

(* No local step leads to the Barrier after the main Allreduce.            *)
LEMMA LocalReceived ==
  ASSUME Typed, Received, NEW r \in Rank, Local(r)
  PROVE  Received'
<1>1. at[r] # "bar_sum" /\ at'[r] # "bar_sum"
  <2>1. at \in [Rank -> Segment \cup Call]
    BY DEF Typed
  <2>2. CASE Work(r)
    BY <2>2, WorkCounts, PlanLength
  <2>3. CASE StartLevel(r)
    BY <2>1, <2>3 DEF StartLevel, Goto
  <2>4. CASE EndSweep(r)
    BY <2>1, <2>4, PlanLength DEF EndSweep, PlanDone, Goto
  <2>5. CASE MergePrior(r)
    BY <2>1, <2>5 DEF MergePrior, Goto
  <2>6. CASE MergeMain(r)
    BY <2>1, <2>6 DEF MergeMain, Goto
  <2>7. CASE TestMain(r)
    BY <2>1, <2>7 DEF TestMain, Goto
  <2>8. CASE TestProd(r)
    BY <2>1, <2>8 DEF TestProd, NextSample, Goto
  <2>9. CASE MergeProd(r)
    BY <2>1, <2>9 DEF MergeProd, NextSample, Goto
  <2>10. QED
    BY <2>2, <2>3, <2>4, <2>5, <2>6, <2>7, <2>8, <2>9 DEF Local
<1>2. \A q \in Rank : at[q] # "bar_sum"
  BY <1>1 DEF Received
<1>3. \A q \in Rank \ {r} : at'[q] = at[q]
  BY LocalTyped
<1>4. \A q \in Rank : at'[q] # "bar_sum"
  BY <1>1, <1>2, <1>3
<1>5. QED
  BY <1>4 DEF Received

(* The terms of the sums are numbers.                                      *)
LEMMA TermsTyped ==
  ASSUME Typed
  PROVE  \A q \in Rank : /\ Settled(q) \in Int /\ Sum(Unmerged(q), Bin) \in Int
                         /\ Sum(wlHi[q], Bin) \in Nat
                         /\ \A b \in Bin : /\ Pending(q, b) \in Nat
                                           /\ op[q][b] - Pending(q, b) \in Int
<1> TAKE q \in Rank
<1>1. \A b \in Bin : Pending(q, b) \in Nat /\ op[q][b] \in Nat
  BY DEF Typed, Pending
<1>2. Sum(Unmerged(q), Bin) \in Int
  <2> DEFINE f == Unmerged(q)
  <2>1. \A b \in Bin : f[b] \in Int
    BY <1>1 DEF Unmerged
  <2> HIDE DEF f
  <2>2. Sum(f, Bin) \in Int
    BY <2>1, Finite, SumOver DEF SumLaws
  <2>3. QED
    BY <2>2 DEF f
<1>3. Sum(wlHi[q], Bin) \in Nat
  <2> DEFINE f == wlHi[q]
  <2>1. \A b \in Bin : f[b] \in Nat
    BY DEF Typed
  <2> HIDE DEF f
  <2>2. Sum(f, Bin) \in Nat
    BY <2>1, Finite, SumNat
  <2>3. QED
    BY <2>2 DEF f
<1>4. Lasting(q) \in Int
  BY DEF Typed, Lasting
<1>5. Settled(q) \in Int
  BY <1>2, <1>4 DEF Settled
<1>6. QED
  BY <1>1, <1>2, <1>3, <1>5

(* The state a rank brings to its next call is of its type.                *)
LEMMA AheadTyped ==
  ASSUME NEW p, NEW h \in [Bin -> Nat], p.dos \in Record
  PROVE  Ahead(p, h).dos \in Record
<1> DEFINE d == p.dos
           m == PriorMerged(d, h)
<1>1. d \in Record /\ m \in Record /\ Opened(d) \in Record /\ Swept(d) \in Record
      /\ Merged(d, h) \in Record /\ Refined(d) \in Record /\ Sampled(d, h) \in Record
  BY RecordKept
<1>2. Folded(m) \in Record
  <2> HIDE DEF m
  <2>1. QED
    BY <1>1, RecordKept
<1>3. /\ AfterLevel(d).dos = Opened(d) /\ AfterPrior(d).dos = Swept(d)
      /\ At("bar_main", Swept(d)).dos = Swept(d) /\ At("sum_prod", d).dos = d
      /\ AfterMergePrior(m).dos \in {m, Folded(m)}
      /\ AfterMergeMain(d, h).dos = Merged(d, h)
      /\ AfterTestMain(d).dos \in {d, Refined(d)}
      /\ \A e : BeforeSample(e).dos = e
  BY DEF At, AfterLevel, AfterPrior, AfterMergePrior, AfterMergeMain, AfterTestMain,
         BeforeSample
<1>4. Ahead(p, h) \in {AfterLevel(d), AfterPrior(d), At("bar_main", Swept(d)),
                       At("sum_prod", d), AfterMergePrior(m), AfterMergeMain(d, h),
                       AfterTestMain(d), BeforeSample(d), BeforeSample(Sampled(d, h)), p}
  BY DEF Ahead
<1>5. QED
  <2> HIDE DEF m, d
  <2>1. p.dos = d
    BY DEF d
  <2>2. QED
    BY <1>1, <1>2, <1>3, <1>4, <2>1

(* So is the histogram it is bound for.                                    *)
LEMMA DestinedTyped ==
  ASSUME Typed, NEW r \in Rank
  PROVE  Destined(r) \in [Bin -> Nat]
<1>1. Position(r).dos \in Record /\ wlHd[r] \in [Bin -> Nat]
  BY DEF Typed, Position, At
<1>2. BoundFor(Position(r), wlHd[r]).dos \in Record
  BY <1>1, AheadTyped DEF BoundFor
<1>3. QED
  BY <1>2 DEF Destined, Record

(* So a local step keeps the invariant: every rank is bound for the same   *)
(* histogram as before, with the same of its visits.                       *)
LEMMA LocalCounted ==
  ASSUME Fits, Counted, NEW r \in Rank, Local(r)
  PROVE  Counted'
<1>1. IInv /\ Typed /\ Received /\ Conserved /\ Supported /\ \A q \in Rank : Walker(q)
  BY DEF Counted
<1>2. IInv'
  BY <1>1, StepIInv DEF Next
<1>3. /\ Typed' /\ wlHd' = wlHd
      /\ \A q \in Rank \ {r} :
           /\ at'[q] = at[q] /\ step'[q] = step[q] /\ dos'[q] = dos[q]
           /\ wlHi'[q] = wlHi[q] /\ wllngi'[q] = wllngi[q] /\ op'[q] = op[q]
           /\ visits'[q] = visits[q]
  BY <1>1, LocalTyped
<1>4. Received'
  BY <1>1, LocalReceived
<1>5. Walker(r)' /\ Faithful(r)
  BY <1>1, LocalFaithful
<1>6. \A q \in Rank : Walker(q)'
  BY <1>1, <1>3, <1>5 DEF Walker
<1>7. \A q \in Rank : Destined(q)' = Destined(q)
  BY <1>1, LocalDestination
<1>8. ASSUME NEW q \in Rank \ {r}
      PROVE  /\ Settled(q)' = Settled(q)
             /\ \A b \in Bin : Pending(q, b)' = Pending(q, b) /\ op'[q][b] = op[q][b]
  <2>1. \A b \in Bin : Pending(q, b)' = Pending(q, b) /\ op'[q][b] = op[q][b]
    BY <1>3 DEF Pending
  <2>2. Unmerged(q)' = Unmerged(q)
    BY <2>1 DEF Unmerged
  <2>3. Lasting(q)' = Lasting(q)
    BY <1>3 DEF Lasting, Position
  <2>4. QED
    BY <2>1, <2>2, <2>3 DEF Settled
<1>9. \A q \in Rank : Settled(q)' = Settled(q)
  <2>1. Settled(r)' = Settled(r)
    BY <1>5 DEF Faithful, Settled
  <2>2. QED
    BY <1>8, <2>1
<1>10. Conserved'
  <2>1. [q \in Rank |-> Settled(q)]' = [q \in Rank |-> Settled(q)]
    BY <1>9
  <2>2. QED
    BY <1>1, <1>7, <2>1 DEF Conserved
<1>11. Supported'
  <2>1. SUFFICES ASSUME NEW s \in Rank, NEW b \in Bin
                 PROVE  Sum([q \in Rank |-> op'[q][b] - Pending(q, b)'], Rank)
                          <= Destined(s)'[b]
    BY DEF Supported
  <2> DEFINE f == [q \in Rank |-> op'[q][b] - Pending(q, b)']
             g == [q \in Rank |-> op[q][b] - Pending(q, b)]
  <2>2. \A q \in Rank : /\ op[q][b] - Pending(q, b) \in Int
                        /\ op'[q][b] - Pending(q, b)' \in Int
    <3>1. \A q \in Rank : op[q][b] - Pending(q, b) \in Int
      BY <1>1, TermsTyped
    <3>2. \A q \in Rank : op'[q][b] \in Nat /\ Pending(q, b)' \in Nat
      BY <1>3 DEF Typed, Pending
    <3>3. QED
      BY <3>1, <3>2
  <2>3. \A q \in Rank : f[q] \in Int /\ g[q] \in Int /\ f[q] <= g[q]
    <3> TAKE q \in Rank
    <3>1. CASE q = r
      BY <1>5, <2>2, <3>1 DEF Faithful
    <3>2. CASE q # r
      BY <1>8, <2>2, <3>2
    <3>3. QED
      BY <3>1, <3>2
  <2>4. Sum(g, Rank) <= Destined(s)[b]
    BY <1>1 DEF Supported
  <2>5. Destined(s)'[b] = Destined(s)[b] /\ Destined(s)[b] \in Int
    <3>1. Destined(s) \in [Bin -> Nat]
      BY <1>1, DestinedTyped
    <3>2. QED
      BY <1>7, <3>1
  <2> HIDE DEF f, g
  <2>6. Sum(f, Rank) <= Sum(g, Rank)
    BY <2>3, Finite, SumMono
  <2>7. Sum(f, Rank) \in Int /\ Sum(g, Rank) \in Int
    BY <2>3, Finite, SumOver DEF SumLaws
  <2>8. Sum(f, Rank) <= Destined(s)'[b]
    BY <2>4, <2>5, <2>6, <2>7
  <2>9. QED
    BY <2>8 DEF f
<1>12. QED
  BY <1>2, <1>3, <1>4, <1>6, <1>10, <1>11 DEF Counted

(* The histogram of a rank that is in its call, or one sweep short of it,  *)
(* is the one it brings there; from the outer loop it brings an empty one. *)
LEMMA Near ==
  ASSUME NEW p, NEW h \in [Bin -> Nat], p.dos \in Record, p.at \in Segment \cup Call
  PROVE  /\ p.at \in Stations \cup Sweeping => BoundFor(p, h).dos.wlH = p.dos.wlH
         /\ p.at = "level" => BoundFor(p, h).dos.wlH = Zero
<1>1. Swept(p.dos).wlH = p.dos.wlH /\ Opened(p.dos).wlH = Zero
  BY RecordKept
<1>2. ASSUME Ahead(p, h).at \in Stations PROVE BoundFor(p, h) = Ahead(p, h)
  BY <1>2, StationFixed DEF BoundFor
<1>3. CASE p.at \in Stations
  <2>1. Ahead(p, h) = p
    BY <1>3, StationFixed
  <2>2. p.at # "level"
    BY <1>3, Places DEF Stations
  <2>3. QED
    BY <1>2, <1>3, <2>1, <2>2
<1>4. CASE p.at = "level"
  <2>1. Ahead(p, h) = AfterLevel(p.dos)
    BY <1>4 DEF Ahead
  <2>2. AfterLevel(p.dos).at \in Stations /\ AfterLevel(p.dos).dos = Opened(p.dos)
    BY Places DEF AfterLevel, At, Stations
  <2>3. p.at \notin Stations \cup Sweeping
    BY <1>4, Places, PlanLength DEF Stations
  <2>4. QED
    BY <1>1, <1>2, <2>1, <2>2, <2>3
<1>5. CASE p.at = "prior"
  <2>1. Ahead(p, h) = AfterPrior(p.dos)
    BY <1>5 DEF Ahead
  <2>2. AfterPrior(p.dos).at \in Stations /\ AfterPrior(p.dos).dos = Swept(p.dos)
    BY Places DEF AfterPrior, At, Stations
  <2>3. QED
    BY <1>1, <1>2, <1>5, <2>1, <2>2
<1>6. CASE p.at = "main"
  <2>1. Ahead(p, h) = At("bar_main", Swept(p.dos))
    BY <1>6 DEF Ahead
  <2>2. At("bar_main", Swept(p.dos)).at \in Stations
        /\ At("bar_main", Swept(p.dos)).dos = Swept(p.dos)
    BY Places DEF At, Stations
  <2>3. QED
    BY <1>1, <1>2, <1>6, <2>1, <2>2
<1>7. CASE p.at = "prod"
  <2>1. Ahead(p, h) = At("sum_prod", p.dos)
    BY <1>7 DEF Ahead
  <2>2. At("sum_prod", p.dos).at \in Stations /\ At("sum_prod", p.dos).dos = p.dos
    BY Places DEF At, Stations
  <2>3. QED
    BY <1>1, <1>2, <1>7, <2>1, <2>2
<1>8. QED
  BY <1>3, <1>4, <1>5, <1>6, <1>7, PlanLength

(* What becomes of the histogram d.wlH of the ranks when call c returns:   *)
(* they are bound for the next call with the same, with the counts h of    *)
(* the Allreduce added, or with an empty one.                              *)
Onward(c, d) == At(Returns[c], d)
Brought(c, d, h) == BoundFor(Onward(c, d), h).dos.wlH
Stays(c, d, h) == /\ ~Resets(Onward(c, d), h) /\ Returns[c] \notin Merging
                  /\ Brought(c, d, h) = d.wlH
Merges(c, d, h) == /\ ~Resets(Onward(c, d), h)
                   /\ c \in {"sum_prior", "bar_sum", "sum_prod"}
                   /\ Brought(c, d, h) = Add(d.wlH, h, 1)
Clears(c, d, h) == /\ Resets(Onward(c, d), h) /\ c \in {"sum_prior", "bar_sum", "rep_main"}
                   /\ Brought(c, d, h) = Zero

(* One of the three it is, whatever the call.                              *)
LEMMA Fates ==
  ASSUME NEW c \in Call, NEW d \in Record, NEW h \in [Bin -> Nat]
  PROVE  Stays(c, d, h) \/ Merges(c, d, h) \/ Clears(c, d, h)
<1> DEFINE p == Onward(c, d)
<1>1. p.at = Returns[c] /\ p.dos = d
  BY DEF Onward, At
<1>2. /\ p.at \in {"prior", "main", "sum_prior", "merge_prior", "sum_main", "bar_sum",
                   "merge_main", "test_main", "test_prod", "merge_prod", "sum_op2", "done"}
      /\ p.at = "merge_prior" <=> c = "sum_prior"
      /\ p.at = "merge_main" <=> c = "bar_sum"
      /\ p.at = "test_main" <=> c = "rep_main"
      /\ p.at = "merge_prod" <=> c = "sum_prod"
  BY <1>1, Places DEF Returns
<1>3. p.at \in Segment \cup Call
  BY <1>2, Places DEF Stations, Segments
<1>4. ASSUME NEW q, q = Ahead(p, h) PROVE BoundFor(p, h) = BoundFor(q, h)
  BY <1>3, <1>4, SegmentKeepsDestination
<1>5. ASSUME NEW e \in Record, NEW a \in Segment \cup Call
      PROVE  /\ a \in Stations \cup Sweeping => BoundFor(At(a, e), h).dos.wlH = e.wlH
             /\ a = "level" => BoundFor(At(a, e), h).dos.wlH = Zero
             /\ At(a, e).at = a /\ At(a, e).dos = e
  <2>1. At(a, e).at = a /\ At(a, e).dos = e
    BY DEF At
  <2>2. QED
    BY <2>1, Near
<1>6. {"level", "prior", "main", "prod", "rep_main", "test_main", "sum_op"}
        \subseteq Segment \cup Call
  BY Places DEF Stations, Segments
<1>7. {"prior", "main", "prod", "rep_main", "sum_op"} \subseteq Stations \cup Sweeping
  BY Places, PlanLength DEF Stations
<1>8. ASSUME NEW e \in Record
      PROVE  /\ BoundFor(At("test_main", e), h) = BoundFor(AfterTestMain(e), h)
             /\ BoundFor(AfterTestMain(e), h).dos.wlH
                  = IF Flat(e.wlH, FlatNum, FlatDen) THEN Zero ELSE e.wlH
  <2>1. At("test_main", e).at = "test_main" /\ At("test_main", e).dos = e
    BY DEF At
  <2>2. Ahead(At("test_main", e), h) = AfterTestMain(e)
    BY <2>1 DEF Ahead
  <2>3. At("test_main", e).at \in Segment \cup Call
    BY <1>6, <2>1
  <2>4. BoundFor(At("test_main", e), h) = BoundFor(AfterTestMain(e), h)
    BY <2>2, <2>3, SegmentKeepsDestination
  <2>5. Refined(e) \in Record
    BY RecordKept
  <2>6. QED
    BY <1>5, <1>6, <1>7, <2>4, <2>5 DEF AfterTestMain
<1> HIDE DEF p
<1>9. CASE p.at = "merge_prior"
  <2> DEFINE m == PriorMerged(d, h)
  <2>1. m \in Record /\ m.wlH = Add(d.wlH, h, 1)
    BY RecordKept
  <2>2. Folded(m) \in Record /\ Folded(m).wlH = Zero
    <3> HIDE DEF m
    <3>1. QED
      BY <2>1, RecordKept
  <2>3. BoundFor(p, h) = BoundFor(AfterMergePrior(m), h)
    <3>1. Ahead(p, h) = AfterMergePrior(m)
      BY <1>1, <1>9 DEF Ahead
    <3>2. QED
      BY <1>4, <3>1
  <2>4. Resets(p, h) <=> PriorFlat(m)
    BY <1>1, <1>9 DEF Resets
  <2> HIDE DEF m
  <2>5. BoundFor(AfterMergePrior(m), h).dos.wlH = IF PriorFlat(m) THEN Zero ELSE m.wlH
    BY <1>5, <1>6, <1>7, <2>1, <2>2 DEF AfterMergePrior
  <2>6. QED
    BY <1>2, <1>9, <2>1, <2>3, <2>4, <2>5 DEF Merges, Clears, Brought, p
<1>10. CASE p.at = "merge_main"
  <2> DEFINE m == Merged(d, h)
             e == AfterMergeMain(d, h)
  <2>1. m \in Record /\ m.wlH = Add(d.wlH, h, 1)
    BY RecordKept
  <2>2. BoundFor(p, h) = BoundFor(e, h)
    <3>1. Ahead(p, h) = e
      BY <1>1, <1>10 DEF Ahead
    <3>2. QED
      BY <1>4, <3>1
  <2>3. Resets(p, h) <=> ~ReportDue(d) /\ Flat(m.wlH, FlatNum, FlatDen)
    BY <1>1, <1>10 DEF Resets
  <2>4. e = At(IF ReportDue(d) THEN "rep_main" ELSE "test_main", m)
    BY DEF AfterMergeMain
  <2> HIDE DEF m, e
  <2>5. CASE ReportDue(d)
    <3>1. BoundFor(e, h).dos.wlH = m.wlH
      BY <1>5, <1>6, <1>7, <2>1, <2>4, <2>5
    <3>2. QED
      BY <1>2, <1>10, <2>1, <2>2, <2>3, <2>5, <3>1 DEF Merges, Brought, p
  <2>6. CASE ~ReportDue(d)
    <3>1. BoundFor(e, h).dos.wlH = IF Flat(m.wlH, FlatNum, FlatDen) THEN Zero ELSE m.wlH
      BY <1>8, <2>1, <2>4, <2>6
    <3>2. QED
      BY <1>2, <1>10, <2>1, <2>2, <2>3, <2>6, <3>1 DEF Merges, Clears, Brought, p
  <2>7. QED
    BY <2>5, <2>6
<1>11. CASE p.at = "test_main"
  <2>1. p = At("test_main", d)
    BY <1>1, <1>11 DEF p, Onward
  <2>2. BoundFor(p, h).dos.wlH = IF Flat(d.wlH, FlatNum, FlatDen) THEN Zero ELSE d.wlH
    BY <1>8, <2>1
  <2>3. Resets(p, h) <=> Flat(d.wlH, FlatNum, FlatDen)
    BY <1>1, <1>11 DEF Resets
  <2>4. Returns[c] \notin Merging
    BY <1>1, <1>11 DEF Merging
  <2>5. QED
    BY <1>2, <1>11, <2>2, <2>3, <2>4 DEF Stays, Clears, Brought, p
<1>12. CASE p.at = "merge_prod"
  <2> DEFINE m == Sampled(d, h)
  <2>1. m \in Record /\ m.wlH = Add(d.wlH, h, 1)
    BY RecordKept
  <2>2. BoundFor(p, h) = BoundFor(BeforeSample(m), h)
    <3>1. Ahead(p, h) = BeforeSample(m)
      BY <1>1, <1>12 DEF Ahead
    <3>2. QED
      BY <1>4, <3>1
  <2>3. ~Resets(p, h)
    BY <1>1, <1>12 DEF Resets
  <2> HIDE DEF m
  <2>4. BoundFor(BeforeSample(m), h).dos.wlH = m.wlH
    BY <1>5, <1>6, <1>7, <2>1 DEF BeforeSample, NextSample
  <2>5. QED
    BY <1>2, <1>12, <2>1, <2>2, <2>3, <2>4 DEF Merges, Brought, p
<1>13. CASE p.at = "test_prod"
  <2>1. BoundFor(p, h) = BoundFor(BeforeSample(d), h)
    <3>1. Ahead(p, h) = BeforeSample(d)
      BY <1>1, <1>13 DEF Ahead
    <3>2. QED
      BY <1>4, <3>1
  <2>2. BoundFor(BeforeSample(d), h).dos.wlH = d.wlH
    BY <1>5, <1>6, <1>7 DEF BeforeSample, NextSample
  <2>3. ~Resets(p, h) /\ Returns[c] \notin Merging
    BY <1>1, <1>13 DEF Resets, Merging
  <2>4. QED
    BY <2>1, <2>2, <2>3 DEF Stays, Brought, p
<1>14. CASE p.at \in {"prior", "main", "sum_prior", "sum_main", "bar_sum", "sum_op2", "done"}
  <2>1. p.at \in Stations \cup Sweeping
    BY <1>14, Places, PlanLength DEF Stations
  <2>2. BoundFor(p, h).dos.wlH = d.wlH
    BY <1>1, <1>3, <2>1, Near
  <2>3. ~Resets(p, h) /\ Returns[c] \notin Merging
    BY <1>1, <1>14 DEF Resets, Merging
  <2>4. QED
    BY <2>2, <2>3 DEF Stays, Brought, p
<1>15. QED
  BY <1>2, <1>9, <1>10, <1>11, <1>12, <1>13, <1>14

(* The counters hold the counts of all ranks together.                     *)
LEMMA SumFits ==
  ASSUME Fits, Typed, \A q \in Rank : Walker(q) /\ at[q] \notin Sweeping
  PROVE  \A b \in Bin : /\ SumOverRanks(wlHi, b) = Sum([q \in Rank |-> wlHi[q][b]], Rank)
                        /\ SumOverRanks(wlHi, b) \in Nat
<1> TAKE b \in Bin
<1> DEFINE f == [q \in Rank |-> wlHi[q][b]]
           g == [q \in Rank |-> NMoves + 1]
           n == Sum(f, Rank)
<1>1. SumOverRanks(wlHi, b) = n % CounterMod
  BY ColumnIsSum DEF SumOverRanks
<1>2. \A q \in Rank : f[q] \in Nat /\ f[q] <= g[q] /\ g[q] = NMoves + 1
  BY DEF Typed, Walker
<1>3. NMoves + 1 \in Int /\ CounterMod \in Nat \ {0} /\ NRanks \in Nat
  BY SizeAssumption
<1> HIDE DEF f, g
<1>4. n \in Nat
  BY <1>2, Finite, SumNat
<1>5. n <= Sum(g, Rank)
  <2>1. \A q \in Rank : f[q] \in Int /\ g[q] \in Int /\ f[q] <= g[q]
    BY <1>2, <1>3
  <2>2. QED
    BY <2>1, Finite, SumMono
<1>6. Sum(g, Rank) = (NMoves + 1) * NRanks
  BY <1>2, <1>3, Finite, SumConstant
<1>7. (NMoves + 1) * NRanks = NRanks * (NMoves + 1)
  BY <1>3
<1> HIDE DEF n
<1>8. n < CounterMod
  <2> DEFINE k == NRanks * (NMoves + 1)
  <2>1. k \in Int /\ k < CounterMod /\ n <= k
    BY <1>3, <1>5, <1>6, <1>7 DEF Fits
  <2> HIDE DEF k
  <2>2. QED
    BY <1>3, <1>4, <2>1
<1>9. n % CounterMod = n
  BY <1>3, <1>4, <1>8
<1>10. QED
  BY <1>1, <1>4, <1>9 DEF f, n

(* Where every rank is in call c, the counts and the histogram are those   *)
(* of the call.                                                            *)
LEMMA InCall ==
  ASSUME Counted, NEW c \in Call, \A q \in Rank : at[q] = c, NEW r \in Rank
  PROVE  /\ Destined(r) = dos[r].wlH /\ Lasting(r) = visits[r]
         /\ Unmerged(r) = wlHi[r] /\ \A b \in Bin : Pending(r, b) = wlHi[r][b]
         /\ Settled(r) = visits[r] - Sum(wlHi[r], Bin)
<1>1. c \in Stations /\ c \notin Merging
  BY Places DEF Stations, Merging
<1>2. Destined(r) = dos[r].wlH
  BY <1>1, StationFixed DEF Destined, BoundFor, Position, At
<1>3. Lasting(r) = visits[r]
  BY Places DEF Lasting, Resets, Position, At
<1>4. \A b \in Bin : Pending(r, b) = wlHi[r][b]
  BY <1>1 DEF Pending
<1>5. wlHi[r] \in [Bin -> Nat]
  BY DEF Counted, Typed
<1>6. Unmerged(r) = wlHi[r]
  BY <1>4, <1>5 DEF Unmerged
<1>7. QED
  BY <1>2, <1>3, <1>4, <1>6 DEF Settled

(* In a call, the visits are those settled and those in the counts.        *)
LEMMA VisitsInCall ==
  ASSUME Counted, NEW c \in Call, \A q \in Rank : at[q] = c, NEW r \in Rank
  PROVE  Sum(visits, Rank)
           = Sum(dos[r].wlH, Bin) + Sum([q \in Rank |-> Sum(wlHi[q], Bin)], Rank)
<1> DEFINE f == [q \in Rank |-> Settled(q)]
           g == [q \in Rank |-> Sum(wlHi[q], Bin)]
<1>1. \A q \in Rank : f[q] \in Int /\ g[q] \in Int /\ visits[q] = f[q] + g[q]
  <2> TAKE q \in Rank
  <2>1. Settled(q) \in Int /\ Sum(wlHi[q], Bin) \in Int /\ visits[q] \in Int
    BY TermsTyped DEF Counted, Typed
  <2>2. Settled(q) = visits[q] - Sum(wlHi[q], Bin)
    BY InCall
  <2>3. QED
    BY <2>1, <2>2
<1>2. Sum(dos[r].wlH, Bin) = Sum(f, Rank)
  BY InCall DEF Counted, Conserved
<1> HIDE DEF f, g
<1>3. Sum(visits, Rank) = Sum(f, Rank) + Sum(g, Rank)
  BY <1>1, Finite, SumPlus
<1>4. QED
  BY <1>2, <1>3 DEF g

(* What each rank has after a collective call: its place, and no change.   *)
LEMMA CallWalkers ==
  ASSUME Counted, NEW c \in Call, \A q \in Rank : at[q] = c,
         at' = [q \in Rank |-> Returns[c]],
         UNCHANGED <<step, dos, local, visits>>, NEW r \in Rank
  PROVE  Walker(r)'
<1>1. /\ Walker(r) /\ at[r] = c /\ at'[r] = Returns[c]
      /\ step' = step /\ dos' = dos /\ wlHi' = wlHi /\ wllngi' = wllngi /\ op' = op
  BY DEF Counted, local
<1>2. c \notin Sweeping
  BY Places, PlanLength
<1>3. step[r] = 0 /\ \A b \in Bin : wlHi[r][b] <= NMoves + 1
  BY <1>1, <1>2 DEF Walker
<1>4. Returns[c] \in Sweeping => c \in Quiet
  BY Places, PlanLength DEF Returns, Quiet
<1>5. Returns[c] \in Quiet => c \in Quiet
  BY Places DEF Returns, Quiet
<1>6. Returns[c] \notin Sampling => c \notin Sampling
  BY Places DEF Returns, Sampling
<1>7. c \in Quiet => \A b \in Bin : wlHi[r][b] = 0
  BY <1>1 DEF Walker, Zero
<1>8. \A b \in Bin : wlHi[r][b] <= IF Returns[c] \in Sweeping THEN 0 ELSE NMoves + 1
  BY <1>3, <1>4, <1>7
<1>9. Returns[c] \in Sweeping => 0 <= Len(Plan[Returns[c]])
  BY PlanLength
<1>10. QED
  BY <1>1, <1>3, <1>5, <1>6, <1>8, <1>9 DEF Walker

(* A collective call keeps the invariant.                                  *)
LEMMA CollectiveCounted ==
  ASSUME Fits, Counted, Collective
  PROVE  Counted'
<1>1. IInv /\ Typed /\ Received /\ Supported /\ \A q \in Rank : Walker(q)
  BY DEF Counted
<1>2. IInv' /\ Typed'
  BY <1>1, StepIInv, TypedKept DEF Next
<1>3. PICK c \in Call :
        /\ \A r \in Rank : at[r] = c
        /\ at' = [r \in Rank |-> Returns[c]]
        /\ wlHd' = IF c \in Allreduce
                   THEN [r \in Rank |-> [b \in Bin |-> SumOverRanks(wlHi, b)]]
                   ELSE wlHd
  BY DEF Collective
<1>4. UNCHANGED <<step, dos, local, visits>> /\ wlHi' = wlHi /\ op' = op /\ visits' = visits
  BY DEF Collective, local
<1>5. \A r \in Rank : Walker(r)'
  BY <1>3, <1>4, CallWalkers
<1>6. Received'
  <2>1. Returns[c] = "bar_sum" => c = "sum_main"
    BY Places DEF Returns
  <2>2. \A r \in Rank : at'[r] = Returns[c]
    BY <1>3
  <2>3. \A b \in Bin : SumOverRanks(wlHi, b)' = SumOverRanks(wlHi, b)
    BY <1>4
  <2>4. Returns[c] = "bar_sum" => \A r \in Rank :
          wlHd'[r] = [b \in Bin |-> SumOverRanks(wlHi, b)]
    BY <1>3, <2>1 DEF Allreduce
  <2>5. QED
    BY <2>2, <2>3, <2>4 DEF Received
<1> DEFINE d == dos[0]
           h == wlHd'[0]
<1>7. 0 \in Rank
  BY SizeAssumption DEF Rank
<1>8. d \in Record /\ h \in [Bin -> Nat]
  BY <1>1, <1>2, <1>7 DEF Typed
<1>9. \A r \in Rank : dos[r] = d
  <2>1. RanksInStep
    BY <1>1, Together
  <2>2. QED
    BY <1>3, <1>7, <2>1 DEF RanksInStep
<1>10. \A r \in Rank : wlHd'[r] = h
  BY <1>2, <1>7 DEF IInv, SameDestination
<1>11. \A r \in Rank : Position(r)' = Onward(c, d)
  BY <1>3, <1>4, <1>9 DEF Position, Onward
<1> HIDE DEF d, h
<1>12. \A r \in Rank : /\ Destined(r)' = Brought(c, d, h)
                       /\ Lasting(r)' = IF Resets(Onward(c, d), h) THEN 0 ELSE visits[r]
  BY <1>4, <1>10, <1>11 DEF Destined, Brought, Lasting
<1>13. \A r \in Rank : \A b \in Bin :
         Pending(r, b)' = IF Returns[c] \in Merging THEN 0 ELSE wlHi[r][b]
  BY <1>3, <1>4 DEF Pending
<1>14. \A r \in Rank : \A b \in Bin : wlHi[r][b] \in Nat /\ op[r][b] \in Nat
  BY <1>1 DEF Typed
<1>15. \A r \in Rank : /\ Destined(r) = d.wlH /\ Lasting(r) = visits[r]
                       /\ Unmerged(r) = wlHi[r] /\ \A b \in Bin : Pending(r, b) = wlHi[r][b]
                       /\ Settled(r) = visits[r] - Sum(wlHi[r], Bin)
  BY <1>3, <1>9, InCall
<1>16. ASSUME Returns[c] \in Merging
       PROVE  \A r \in Rank : /\ \A b \in Bin : Pending(r, b)' = 0
                              /\ Sum(Unmerged(r)', Bin) = 0
  <2> TAKE r \in Rank
  <2>1. \A b \in Bin : Pending(r, b)' = 0
    BY <1>13, <1>16
  <2> DEFINE f == Unmerged(r)'
  <2>2. \A b \in Bin : f[b] \in Nat /\ f[b] = 0
    BY <2>1 DEF Unmerged
  <2> HIDE DEF f
  <2>3. Sum(f, Bin) = 0
    BY <2>2, Finite, SumNat
  <2>4. QED
    BY <2>1, <2>3 DEF f
<1>17. CASE Stays(c, d, h)
  <2>1. \A r \in Rank : \A b \in Bin : Pending(r, b)' = Pending(r, b)
    BY <1>13, <1>15, <1>17 DEF Stays
  <2>2. \A r \in Rank : Settled(r)' = Settled(r)
    <3> TAKE r \in Rank
    <3>1. Unmerged(r)' = Unmerged(r)
      BY <2>1 DEF Unmerged
    <3>2. Lasting(r)' = Lasting(r)
      BY <1>12, <1>15, <1>17 DEF Stays
    <3>3. QED
      BY <3>1, <3>2 DEF Settled
  <2>3. \A r \in Rank : Destined(r)' = Destined(r)
    BY <1>12, <1>15, <1>17 DEF Stays
  <2>4. Conserved'
    <3>1. [q \in Rank |-> Settled(q)]' = [q \in Rank |-> Settled(q)]
      BY <2>2
    <3>2. QED
      BY <2>3, <3>1 DEF Counted, Conserved
  <2>5. Supported'
    <3>1. \A b \in Bin : [q \in Rank |-> op[q][b] - Pending(q, b)]'
                           = [q \in Rank |-> op[q][b] - Pending(q, b)]
      BY <1>4, <2>1
    <3>2. QED
      BY <1>1, <2>3, <3>1 DEF Supported
  <2>6. QED
    BY <1>2, <1>5, <1>6, <2>4, <2>5 DEF Counted
<1>18. CASE Merges(c, d, h)
  <2>1. c \in {"sum_prior", "bar_sum", "sum_prod"} /\ Returns[c] \in Merging
    BY <1>18 DEF Merges, Returns, Merging
  <2>2. \A b \in Bin : h[b] = Sum([q \in Rank |-> wlHi[q][b]], Rank) /\ h[b] \in Nat
    <3>1. h = [b \in Bin |-> SumOverRanks(wlHi, b)]
      <4>1. CASE c \in Allreduce
        BY <1>3, <1>7, <4>1 DEF h
      <4>2. CASE c = "bar_sum"
        <5>1. wlHd' = wlHd
          BY <1>3, <4>2 DEF Allreduce
        <5>2. QED
          BY <1>1, <1>3, <1>7, <4>2, <5>1 DEF h, Received
      <4>3. QED
        BY <2>1, <4>1, <4>2 DEF Allreduce
    <3>2. \A q \in Rank : Walker(q) /\ at[q] \notin Sweeping
      BY <1>1, <1>3, <2>1, PlanLength
    <3>3. QED
      BY <1>1, <3>1, <3>2, SumFits
  <2>3. \A b \in Bin : Add(d.wlH, h, 1)[b] = d.wlH[b] + h[b] /\ d.wlH[b] \in Nat
    <3> DEFINE w == d.wlH
    <3>1. w \in [Bin -> Nat]
      BY <1>8 DEF Record
    <3> HIDE DEF w
    <3>2. \A b \in Bin : Add(w, h, 1)[b] = w[b] + h[b] * 1
      BY <1>8, <3>1, AddTyped
    <3>3. ASSUME NEW b \in Bin PROVE Add(w, h, 1)[b] = w[b] + h[b] /\ w[b] \in Nat
      <4>1. w[b] \in Nat /\ h[b] \in Nat
        BY <1>8, <3>1
      <4>2. Add(w, h, 1)[b] = w[b] + h[b] * 1
        BY <3>2
      <4>3. QED
        BY <4>1, <4>2
    <3>4. QED
      BY <3>3 DEF w
  <2>4. \A r \in Rank : Destined(r)' = Add(d.wlH, h, 1)
    BY <1>12, <1>18 DEF Merges
  <2>5. \A r \in Rank : Settled(r)' = visits[r]
    <3> TAKE r \in Rank
    <3>1. Lasting(r)' = visits[r]
      BY <1>12, <1>18 DEF Merges
    <3>2. visits[r] - 0 = visits[r]
      BY <1>1 DEF Typed
    <3>3. QED
      BY <1>16, <2>1, <3>1, <3>2 DEF Settled
  <2>6. Conserved'
    <3> DEFINE w == d.wlH
               v == Add(w, h, 1)
    <3>1. \A b \in Bin : w[b] \in Int /\ h[b] \in Int /\ v[b] = w[b] + h[b]
      <4> TAKE b \in Bin
      <4>1. w[b] \in Nat /\ v[b] = w[b] + h[b]
        BY <2>3
      <4>2. h[b] \in Nat
        BY <2>2
      <4> HIDE DEF v, w
      <4>3. QED
        BY <4>1, <4>2
    <3>2. Sum(h, Bin) = Sum([q \in Rank |-> Sum(wlHi[q], Bin)], Rank)
      <4> DEFINE columns == [b \in Bin |-> Sum([q \in Rank |-> wlHi[q][b]], Rank)]
      <4>1. \A b \in Bin : h[b] \in Int /\ h[b] = columns[b]
        BY <2>2
      <4>2. Sum(columns, Bin) = Sum([q \in Rank |-> Sum(wlHi[q], Bin)], Rank)
        BY <1>14, Finite, SumOfSums
      <4> HIDE DEF columns
      <4>3. Sum(h, Bin) = Sum(columns, Bin)
        BY <4>1, Finite, SumSame
      <4>4. QED
        BY <4>2, <4>3
    <3>3. Sum(visits, Rank) = Sum(w, Bin) + Sum([q \in Rank |-> Sum(wlHi[q], Bin)], Rank)
      BY <1>3, <1>7, VisitsInCall DEF d
    <3> HIDE DEF v, w
    <3>4. Sum(v, Bin) = Sum(w, Bin) + Sum(h, Bin)
      BY <3>1, Finite, SumPlus
    <3>5. Sum([q \in Rank |-> Settled(q)]', Rank) = Sum(visits, Rank)
      <4>1. [q \in Rank |-> Settled(q)]' = [q \in Rank |-> visits[q]]
        BY <2>5
      <4>2. [q \in Rank |-> visits[q]] = visits
        BY <1>1 DEF Typed
      <4>3. QED
        BY <4>1, <4>2
    <3>6. Sum(v, Bin) = Sum([q \in Rank |-> Settled(q)]', Rank)
      BY <3>2, <3>3, <3>4, <3>5
    <3>7. \A r \in Rank : Destined(r)' = v
      BY <2>4 DEF v, w
    <3>8. QED
      BY <3>6, <3>7 DEF Conserved
  <2>7. Supported'
    <3>1. ASSUME NEW r \in Rank, NEW b \in Bin
          PROVE  Sum([q \in Rank |-> op[q][b] - Pending(q, b)]', Rank) <= Destined(r)'[b]
      <4> DEFINE f == [q \in Rank |-> op[q][b] - Pending(q, b)]
                 g == [q \in Rank |-> wlHi[q][b]]
                 k == [q \in Rank |-> op[q][b] - Pending(q, b)]'
      <4>1. \A q \in Rank : f[q] \in Int /\ g[q] \in Int /\ k[q] = f[q] + g[q]
        <5> TAKE q \in Rank
        <5>1. Pending(q, b)' = 0 /\ Pending(q, b) = wlHi[q][b]
          BY <1>15, <1>16, <2>1
        <5>2. op[q][b] \in Int /\ wlHi[q][b] \in Int /\ op'[q][b] = op[q][b]
          BY <1>4, <1>14
        <5>3. QED
          BY <5>1, <5>2
      <4>2. Sum(f, Rank) <= d.wlH[b]
        BY <1>1, <1>15 DEF Supported
      <4>3. h[b] = Sum(g, Rank)
        BY <2>2
      <4> HIDE DEF f, g, k
      <4>4. Sum(k, Rank) = Sum(f, Rank) + Sum(g, Rank)
        BY <4>1, Finite, SumPlus
      <4>5. Sum(f, Rank) \in Int /\ h[b] \in Int /\ d.wlH[b] \in Int
        <5>1. h[b] \in Nat
          BY <2>2
        <5>2. d.wlH[b] \in Nat
          BY <2>3
        <5>3. Sum(f, Rank) \in Int
          BY <4>1, Finite, SumOver DEF SumLaws
        <5>4. QED
          BY <5>1, <5>2, <5>3
      <4>6. Destined(r)'[b] = d.wlH[b] + h[b]
        BY <2>3, <2>4
      <4>7. Sum(k, Rank) <= Destined(r)'[b]
        BY <4>2, <4>3, <4>4, <4>5, <4>6
      <4>8. QED
        BY <4>7 DEF k
    <3>2. QED
      BY <3>1 DEF Supported
  <2>8. QED
    BY <1>2, <1>5, <1>6, <2>6, <2>7 DEF Counted
<1>19. CASE Clears(c, d, h)
  <2>1. c \in {"sum_prior", "bar_sum", "rep_main"}
    BY <1>19 DEF Clears
  <2>2. \A r \in Rank : \A b \in Bin : op[r][b] = 0
    <3>1. c \notin Sampling
      BY <2>1 DEF Sampling
    <3>2. QED
      BY <1>1, <1>3, <3>1 DEF Walker, Zero
  <2>3. \A r \in Rank : \A b \in Bin : Pending(r, b)' = 0
    <3>1. CASE c = "rep_main"
      <4>1. \A r \in Rank : \A b \in Bin : wlHi[r][b] = 0
        BY <1>1, <1>3, <3>1 DEF Walker, Quiet, Zero
      <4>2. QED
        BY <1>13, <4>1
    <3>2. CASE c # "rep_main"
      <4>1. Returns[c] \in Merging
        BY <2>1, <3>2 DEF Returns, Merging
      <4>2. QED
        BY <1>16, <4>1
    <3>3. QED
      BY <3>1, <3>2
  <2>4. \A r \in Rank : Settled(r)' = 0
    <3> TAKE r \in Rank
    <3>1. Lasting(r)' = 0
      BY <1>12, <1>19 DEF Clears
    <3> DEFINE f == Unmerged(r)'
    <3>2. \A b \in Bin : f[b] \in Nat /\ f[b] = 0
      BY <2>3 DEF Unmerged
    <3> HIDE DEF f
    <3>3. Sum(f, Bin) = 0
      BY <3>2, Finite, SumNat
    <3>4. QED
      BY <3>1, <3>3 DEF f, Settled
  <2>5. \A r \in Rank : Destined(r)' = Zero
    BY <1>12, <1>19 DEF Clears
  <2>6. Conserved'
    <3>1. Sum(Zero, Bin) = 0
      <4>1. \A b \in Bin : Zero[b] \in Nat /\ Zero[b] = 0
        BY DEF Zero
      <4>2. QED
        BY <4>1, Finite, SumNat
    <3> DEFINE f == [q \in Rank |-> Settled(q)]'
    <3>2. \A q \in Rank : f[q] \in Nat /\ f[q] = 0
      BY <2>4
    <3> HIDE DEF f
    <3>3. Sum(f, Rank) = 0
      BY <3>2, Finite, SumNat
    <3>4. QED
      BY <2>5, <3>1, <3>3 DEF f, Conserved
  <2>7. Supported'
    <3>1. ASSUME NEW r \in Rank, NEW b \in Bin
          PROVE  Sum([q \in Rank |-> op[q][b] - Pending(q, b)]', Rank) <= Destined(r)'[b]
      <4> DEFINE f == [q \in Rank |-> op[q][b] - Pending(q, b)]'
      <4>1. \A q \in Rank : f[q] \in Nat /\ f[q] = 0
        BY <1>4, <2>2, <2>3
      <4> HIDE DEF f
      <4>2. Sum(f, Rank) = 0
        BY <4>1, Finite, SumNat
      <4>3. Destined(r)'[b] = 0
        BY <2>5 DEF Zero
      <4>4. Sum(f, Rank) <= Destined(r)'[b]
        BY <4>2, <4>3
      <4>5. QED
        BY <4>4 DEF f
    <3>2. QED
      BY <3>1 DEF Supported
  <2>8. QED
    BY <1>2, <1>5, <1>6, <2>6, <2>7 DEF Counted
<1>20. QED
  BY <1>8, <1>17, <1>18, <1>19, Fates

-----------------------------------------------------------------------------
(* At the start there is nothing to merge.                                 *)
LEMMA InitCounted == Init => Counted
<1> SUFFICES ASSUME Init PROVE Counted
  OBVIOUS
<1>1. IInv /\ Typed
  BY InitIInv, TypedInitially
<1>2. \A r \in Rank : /\ at[r] = "level" /\ step[r] = 0 /\ visits[r] = 0
                      /\ wlHi[r] = Zero /\ wllngi[r] = Zero /\ op[r] = Zero
  BY DEF Init
<1>3. ASSUME NEW r \in Rank PROVE Walker(r)
  <2>1. \A b \in Bin : wlHi[r][b] = 0 /\ wllngi[r][b] = 0
    BY <1>2 DEF Zero
  <2>2. dos[r].lnwlf \in Nat
    BY <1>1 DEF Typed, Record
  <2>3. \A x \in Nat : 0 = 0 * x
    OBVIOUS
  <2>4. \A b \in Bin : wllngi[r][b] = wlHi[r][b] * dos[r].lnwlf
    BY <2>1, <2>2, <2>3
  <2>5. NMoves + 1 >= 0
    BY SizeAssumption
  <2>6. "level" \notin Sweeping
    BY PlanLength
  <2>7. QED
    BY <1>2, <2>1, <2>4, <2>5, <2>6 DEF Walker
<1>4. Received
  BY <1>2 DEF Received
<1>5. ASSUME NEW r \in Rank PROVE Destined(r) = Zero
  <2>1. Position(r).at = "level" /\ Position(r).dos \in Record /\ wlHd[r] \in [Bin -> Nat]
    BY <1>1, <1>2 DEF Position, At, Typed
  <2>2. "level" \in Segment \cup Call
    BY Places DEF Segments
  <2>3. QED
    BY <2>1, <2>2, Near DEF Destined
<1>6. ASSUME NEW r \in Rank, NEW b \in Bin PROVE Pending(r, b) = 0
  BY <1>2 DEF Pending, Merging, Zero
<1>7. ASSUME NEW r \in Rank PROVE Settled(r) = 0
  <2>1. Lasting(r) = 0
    BY <1>2 DEF Lasting
  <2> DEFINE f == Unmerged(r)
  <2>2. \A b \in Bin : f[b] \in Nat /\ f[b] = 0
    BY <1>6 DEF Unmerged
  <2> HIDE DEF f
  <2>3. Sum(f, Bin) = 0
    BY <2>2, Finite, SumNat
  <2>4. QED
    BY <2>1, <2>3 DEF f, Settled
<1>8. Conserved
  <2> DEFINE f == [q \in Rank |-> Settled(q)]
  <2>1. \A q \in Rank : f[q] \in Nat /\ f[q] = 0
    BY <1>7
  <2>2. \A b \in Bin : Zero[b] \in Nat /\ Zero[b] = 0
    BY DEF Zero
  <2> HIDE DEF f
  <2>3. Sum(f, Rank) = 0 /\ Sum(Zero, Bin) = 0
    BY <2>1, <2>2, Finite, SumNat
  <2>4. QED
    BY <1>5, <2>3 DEF f, Conserved
<1>9. Supported
  <2>1. ASSUME NEW r \in Rank, NEW b \in Bin
        PROVE  Sum([q \in Rank |-> op[q][b] - Pending(q, b)], Rank) <= Destined(r)[b]
    <3> DEFINE f == [q \in Rank |-> op[q][b] - Pending(q, b)]
    <3>1. \A q \in Rank : f[q] \in Nat /\ f[q] = 0
      BY <1>2, <1>6 DEF Zero
    <3> HIDE DEF f
    <3>2. Sum(f, Rank) = 0
      BY <3>1, Finite, SumNat
    <3>3. Destined(r)[b] = 0
      BY <1>5 DEF Zero
    <3>4. Sum(f, Rank) <= Destined(r)[b]
      BY <3>2, <3>3
    <3>5. QED
      BY <3>4 DEF f
  <2>2. QED
    BY <2>1 DEF Supported
<1>10. QED
  BY <1>1, <1>3, <1>4, <1>8, <1>9 DEF Counted

(* No step loses a visit or counts one twice.                              *)
LEMMA StepCounted == ASSUME Fits PROVE Counted /\ [Next]_vars => Counted'
<1> SUFFICES ASSUME Counted, [Next]_vars PROVE Counted'
  OBVIOUS
<1>1. CASE UNCHANGED vars \/ Done \/ BoundReached
  <2>1. UNCHANGED vars
    BY <1>1 DEF Done, BoundReached
  <2>2. IInv' /\ Typed'
    BY <2>1, StepIInv, TypedKept DEF Counted
  <2>3. /\ at' = at /\ step' = step /\ dos' = dos /\ wlHd' = wlHd /\ bin' = bin
        /\ wlHi' = wlHi /\ wllngi' = wllngi /\ op' = op /\ visits' = visits
    BY <2>1 DEF vars
  <2>4. \A r \in Rank : Walker(r)'
    BY <2>3 DEF Counted, Walker
  <2>5. Received'
    BY <2>3 DEF Counted, Received
  <2>6. \A r \in Rank : Destined(r)' = Destined(r) /\ Settled(r)' = Settled(r)
    BY <2>3 DEF Destined, Position, Settled, Lasting, Unmerged, Pending
  <2>7. Conserved'
    BY <2>6 DEF Counted, Conserved
  <2>8. Supported'
    BY <2>3, <2>6 DEF Counted, Supported, Pending
  <2>9. QED
    BY <2>2, <2>4, <2>5, <2>7, <2>8 DEF Counted
<1>2. ASSUME NEW r \in Rank, Local(r) PROVE Counted'
  BY <1>2, LocalCounted
<1>3. CASE Collective
  BY <1>3, CollectiveCounted
<1>4. QED
  BY <1>1, <1>2, <1>3 DEF Next

(* While they wait in an Allreduce, what the ranks have merged and what    *)
(* they are about to merge is what they have visited.                      *)
LEMMA CountedMerges == Counted => VisitsCountOnce
<1> SUFFICES ASSUME Counted PROVE VisitsCountOnce
  OBVIOUS
<1>1. ASSUME NEW c \in Allreduce, \A q \in Rank : at[q] = c, NEW r \in Rank
      PROVE  Total(dos[r].wlH) + MapThenSumSet(LAMBDA q : Total(wlHi[q]), Rank)
               = MapThenSumSet(LAMBDA q : visits[q], Rank)
  <2>1. c \in Call
    BY Places DEF Allreduce
  <2>2. Sum(visits, Rank)
          = Sum(dos[r].wlH, Bin) + Sum([q \in Rank |-> Sum(wlHi[q], Bin)], Rank)
    BY <1>1, <2>1, VisitsInCall
  <2>3. MapThenSumSet(LAMBDA q : visits[q], Rank) = Sum(visits, Rank)
    BY DEF Sum
  <2>4. [q \in Rank |-> Total(wlHi[q])] = [q \in Rank |-> Sum(wlHi[q], Bin)]
    BY TotalIsSum
  <2>5. MapThenSumSet(LAMBDA q : Total(wlHi[q]), Rank)
          = Sum([q \in Rank |-> Sum(wlHi[q], Bin)], Rank)
    BY <2>4, TotalsAreSum
  <2>6. Total(dos[r].wlH) = Sum(dos[r].wlH, Bin)
    BY TotalIsSum
  <2>7. QED
    BY <2>2, <2>3, <2>5, <2>6
<1>2. EveryVisitMerged
  BY <1>1 DEF EveryVisitMerged
<1>3. LocalDeltaWhileSampling
  BY DEF Counted, Walker, Sampling, LocalDeltaWhileSampling
<1>4. QED
  BY <1>2, <1>3 DEF VisitsCountOnce

(* When they are done, nothing is left to merge.                           *)
LEMMA CountedSamples == Counted => SamplesAtMostVisits
<1> SUFFICES ASSUME Counted, \A q \in Rank : at[q] = "done", NEW r \in Rank, NEW b \in Bin
             PROVE  MapThenSumSet(LAMBDA q : op[q][b], Rank) <= dos[r].wlH[b]
  BY DEF SamplesAtMostVisits
<1>1. Destined(r) = dos[r].wlH
  BY StationFixed DEF Destined, BoundFor, Position, At, Stations
<1>2. \A q \in Rank : op[q][b] - Pending(q, b) = op[q][b]
  <2> TAKE q \in Rank
  <2>1. op[q][b] \in Nat /\ wlHi[q][b] = 0
    BY DEF Counted, Typed, Walker, Quiet, Zero
  <2>2. QED
    BY <2>1 DEF Pending
<1>3. [q \in Rank |-> op[q][b] - Pending(q, b)] = [q \in Rank |-> op[q][b]]
  BY <1>2
<1>4. Sum([q \in Rank |-> op[q][b] - Pending(q, b)], Rank) <= Destined(r)[b]
  BY DEF Counted, Supported
<1>5. MapThenSumSet(LAMBDA q : op[q][b], Rank) = Sum([q \in Rank |-> op[q][b]], Rank)
  BY ColumnIsSum
<1>6. QED
  BY <1>1, <1>3, <1>4, <1>5

(* However many ranks and bins there are: if the counts of one sweep of    *)
(* all ranks fit their type, no visit is lost between the ranks' counters  *)
(* and the merged histogram, none is merged twice, and ln(f) enters ln(g)  *)
(* once for each.  (Where they do not fit, it is false: see the run        *)
(* wl_counter_overflow.)                                                   *)
THEOREM VisitsMergedOnce == Fits => (Spec => []VisitsCountOnce)
<1> SUFFICES ASSUME Fits PROVE Spec => []VisitsCountOnce
  OBVIOUS
<1>1. Init => Counted
  BY InitCounted
<1>2. Counted /\ [Next]_vars => Counted'
  BY StepCounted
<1>3. Counted => VisitsCountOnce
  BY CountedMerges
<1>4. QED
  BY <1>1, <1>2, <1>3, PTL DEF Spec

(* On the same condition no bin ends with more samples of the order        *)
(* parameter, over all ranks, than visits to divide their sum by.          *)
THEOREM SamplesHaveVisits == Fits => (Spec => []SamplesAtMostVisits)
<1> SUFFICES ASSUME Fits PROVE Spec => []SamplesAtMostVisits
  OBVIOUS
<1>1. Init => Counted
  BY InitCounted
<1>2. Counted /\ [Next]_vars => Counted'
  BY StepCounted
<1>3. Counted => SamplesAtMostVisits
  BY CountedSamples
<1>4. QED
  BY <1>1, <1>2, <1>3, PTL DEF Spec
=============================================================================
