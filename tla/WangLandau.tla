----------------------------- MODULE WangLandau -----------------------------
(***************************************************************************)
(* The distributed Wang-Landau run: main() of src/src/main.cc from the     *)
(* outer loop to MPI_Finalize, with global_update(), flatWL(), resetWL(),  *)
(* report_vae() and the acceptance test WangLandau() of                    *)
(* src/src/wanglandau.cc.                                                  *)
(*                                                                         *)
(* Every rank walks over the energy bins on its own and counts its visits  *)
(* in wlHi; an Allreduce sums the counts of all ranks, and every rank adds *)
(* the sum to its own copy of the histogram and of ln g.  Nothing but the  *)
(* equality of these copies keeps the ranks in the same loop, and so in    *)
(* the same collective call.                                               *)
(*                                                                         *)
(* A walker is the bin its energy lies in.  ln(f), ln(g) are integers in   *)
(* units of 1 / Unit, and the flatness a fraction.  DOS files, reports and *)
(* acceptance statistics are output only and left out; the collective that *)
(* gathers a report is kept.                                               *)
(***************************************************************************)
EXTENDS Integers, Sequences, FiniteSets, FiniteSetsExt

CONSTANTS NRanks,       \* mpiState.nprocs
          NBins,        \* wlState.D1BINS
          NMoves,       \* BondSwap calls in one sweep: N_3
          Unit,         \* ln(f) = 1 is Unit
          ModFactorInit, ModFactorFinal, IterationFactor,
          FlatNum, FlatDen,             \* Flatness = FlatNum / FlatDen
          ProductionBinSamps,
          ReportEvery,  \* 100 in the code
          ECut, ECutStep,   \* int(0.2 * D1BINS), int(0.01 * D1BINS)
          CounterMod,   \* 2^16: the range of an unsigned short
          GlobalUpdate, \* the GLOBAL_UPDATE build option
          MaxSweeps     \* bound of the model: no sweep is begun after it

Rank == 0 .. NRanks - 1
Bin == 0 .. NBins - 1
Outside == -1           \* any energy beyond the window

ASSUME SizeAssumption == /\ NRanks \in Nat \ {0}
                         /\ NBins \in Nat \ {0}
                         /\ NMoves \in Nat
                         /\ CounterMod \in Nat \ {0}
ASSUME LevelAssumption == /\ Unit \in Nat \ {0}
                          /\ ModFactorInit \in Nat
                          /\ ModFactorFinal \in Nat
                          /\ IterationFactor \in Nat \ {0}
ASSUME ScheduleAssumption == /\ FlatNum \in Nat /\ FlatDen \in Nat \ {0}
                             /\ ProductionBinSamps \in Nat
                             /\ ReportEvery \in Nat \ {0}
                             /\ ECut \in Int /\ ECutStep \in Int
                             /\ GlobalUpdate \in BOOLEAN
                             /\ MaxSweeps \in Nat

VARIABLES at,      \* where rank r is: a local segment or a collective call
          step,    \* moves made in the current segment
          dos,     \* dos[r]: rank r's copy of the state all ranks share
          wlHd,    \* the rank-summed counts an Allreduce left on rank r
          bin,     \* the bin of rank r's energy
          wlHi,    \* its visits since they were last merged
          wllngi,  \* its change to ln(g) since it was last cleared
          op,      \* op[r][b]: order-parameter samples rank r took in bin b
          visits   \* history: decisions since the histogram was last reset

vars == <<at, step, dos, wlHd, bin, wlHi, wllngi, op, visits>>
local == <<bin, wlHi, wllngi, op>>

Zero == [b \in Bin |-> 0]
Total(h) == MapThenSumSet(LAMBDA b : h[b], Bin)
SumOverRanks(h, b) == MapThenSumSet(LAMBDA r : h[r][b], Rank) % CounterMod

(* The calls of one segment, in order. *)
Swaps == [i \in 1 .. NMoves |-> "swap"]
Plan == [prior |-> Append(Swaps, "vae"), main |-> <<"gate">> \o Swaps,
         prod |-> Swaps]
Mode == [prior |-> "WLprior", main |-> "WLdos", prod |-> "WLproduction"]

(* Collective calls, and what a rank does when each returns. *)
Returns == [bar_level |-> IF GlobalUpdate THEN "prior" ELSE "main",
            rep_prior |-> "sum_prior", sum_prior |-> "merge_prior",
            bar_main |-> "sum_main", sum_main |-> "bar_sum",
            bar_sum |-> "merge_main", rep_main |-> "test_main",
            bar_prod |-> "test_prod", sum_prod |-> "merge_prod",
            sum_op |-> "sum_op2", sum_op2 |-> "done"]
Call == DOMAIN Returns
Allreduce == {"sum_prior", "sum_main", "sum_prod"}

(* What the code does to the shared state d, with the summed counts h.     *)
Add(g, h, factor) == [b \in Bin |-> g[b] + h[b] * factor]
Opened(d) == IF d.lnwlf > ModFactorFinal
             THEN [d EXCEPT !.wlH = Zero, !.IterSweeps = 0]
             ELSE [d EXCEPT !.wlH = Zero]
Swept(d) == [d EXCEPT !.IterSweeps = @ + 1, !.TotalSweeps = @ + 1]
Merged(d, h) == [d EXCEPT !.wlH = Add(@, h, 1), !.wllng = Add(@, h, d.lnwlf)]
PriorMerged(d, h) == [d EXCEPT !.wlH = Add(@, h, 1),
                               !.wllng_prior = Add(@, h, d.lnwlf)]
Folded(d) ==
  LET prior == [b \in Bin |-> (d.wllng_prior[b] * d.lnwlf) \div Unit]
  IN  [d EXCEPT !.wlH = Zero, !.wllng_prior = prior, !.wllng = Add(@, prior, 1)]
Refined(d) == [d EXCEPT !.numf = @ + 1, !.E_0 = @ - ECutStep,
                        !.lnwlf = @ \div IterationFactor]

(* Faulty variant: the production loop forgets the histogram. *)
SampledDensityOnly(d, h) == [Swept(d) EXCEPT !.wllng = Add(@, h, d.lnwlf), !.count = @ + 1]
Sampled(d, h) == [Merged(Swept(d), h) EXCEPT !.count = @ + 1]

-----------------------------------------------------------------------------
(* After initWL() without a g.dat: every walker inside the window.  (A     *)
(* walker that initWL() leaves outside is a matter of Alloy.)              *)
Init == /\ at = [r \in Rank |-> "level"]
        /\ step = [r \in Rank |-> 0]
        /\ dos = [r \in Rank |->
                    [lnwlf |-> ModFactorInit, numf |-> 1, E_0 |-> ECut,
                     IterSweeps |-> 0, TotalSweeps |-> 1, count |-> 0,
                     wlH |-> Zero, wllng |-> Zero, wllng_prior |-> Zero]]
        /\ wlHd = [r \in Rank |-> Zero]
        /\ bin \in [Rank -> Bin]
        /\ wlHi = [r \in Rank |-> Zero]
        /\ wllngi = [r \in Rank |-> Zero]
        /\ op = [r \in Rank |-> Zero]
        /\ visits = [r \in Rank |-> 0]

(* Faulty variant of Flat: unvisited bins do not count at all. *)
FlatAmongVisited(h, num, den) ==
  LET visited == {b \in Bin : h[b] > 0}
  IN  /\ visited # {}
      /\ Min({h[b] : b \in visited}) * Cardinality(visited) * den > Total(h) * num

(* flatWL() > num / den.  The minimum is over all bins, the average over   *)
(* the visited ones, so one unvisited bin makes the ratio zero.            *)
Flat(h, num, den) ==
  LET visited == {b \in Bin : h[b] > 0}
      min == Min({h[b] : b \in Bin})
  IN  min * Cardinality(visited) * den > Total(h) * num

(* WangLandau(): the visit of rank r when a move to bin f is proposed. *)
LnG(r, mode, b) == wllngi[r][b] + dos[r].wllng[b]
                     + (IF mode = "WLprior" THEN dos[r].wllng_prior[b] ELSE 0)
Rejects(r, mode, f) == f \in Bin => LnG(r, mode, bin[r]) < LnG(r, mode, f)
Samples(mode, f) == mode = "WLproduction" /\ f \in Bin

Count(r, b, sampled) ==
  /\ bin' = [bin EXCEPT ![r] = b]
  /\ wlHi' = [wlHi EXCEPT ![r][b] = (@ + 1) % CounterMod]
  /\ wllngi' = [wllngi EXCEPT ![r][b] = @ + dos[r].lnwlf]
  /\ op' = [op EXCEPT ![r][b] = @ + (IF sampled THEN 1 ELSE 0)]
  /\ visits' = [visits EXCEPT ![r] = @ + 1]

Visit(r, mode) ==
  \E f \in Bin \cup {Outside} :
    \/ f \in Bin /\ Count(r, f, Samples(mode, f))
    \/ Rejects(r, mode, f) /\ Count(r, bin[r], Samples(mode, f))

(* The theta gate: a VAE move every 2^numf sweeps below the energy cut. *)
Theta(r) == /\ dos[r].TotalSweeps % 2 ^ dos[r].numf = 0
            /\ bin[r] < dos[r].E_0

(* One call of the segment's plan.  BondSwap() returns without a decision  *)
(* when its two sites hold the same element.                               *)
Work(r) ==
  /\ at[r] \in DOMAIN Plan
  /\ step[r] < Len(Plan[at[r]])
  /\ LET call == Plan[at[r]][step[r] + 1]
         mode == Mode[at[r]]
     IN  \/ call = "swap" /\ UNCHANGED <<local, visits>>
         \/ call \in {"swap", "vae"} /\ Visit(r, mode)
         \/ call = "gate" /\ Theta(r) /\ Visit(r, mode)
         \/ call = "gate" /\ ~Theta(r) /\ UNCHANGED <<local, visits>>
  /\ step' = [step EXCEPT ![r] = @ + 1]
  /\ UNCHANGED <<at, dos, wlHd>>

Goto(r, a) == at' = [at EXCEPT ![r] = a]
PlanDone(r, a) == at[r] = a /\ step[r] = Len(Plan[a])
ReportDue(d) == d.IterSweeps % ReportEvery = 0

(* The outer loop's test: another level, or production. *)
StartLevel(r) ==
  /\ at[r] = "level"
  /\ dos' = [dos EXCEPT ![r] = Opened(@)]
  /\ visits' = [visits EXCEPT ![r] = 0]
  /\ Goto(r, IF dos[r].lnwlf > ModFactorFinal THEN "bar_level" ELSE "bar_prod")
  /\ UNCHANGED <<step, wlHd, local>>

(* The end of a sweep: the counters, and the next collective call. *)
EndSweep(r) ==
  /\ dos[r].TotalSweeps < MaxSweeps
  /\ \/ /\ PlanDone(r, "prior")
        /\ dos' = [dos EXCEPT ![r] = Swept(@)]
        /\ Goto(r, IF ReportDue(Swept(dos[r])) THEN "rep_prior" ELSE "sum_prior")
     \/ /\ PlanDone(r, "main")
        /\ dos' = [dos EXCEPT ![r] = Swept(@)]
        /\ Goto(r, "bar_main")
     \/ /\ PlanDone(r, "prod")
        /\ Goto(r, "sum_prod")
        /\ UNCHANGED dos
  /\ step' = [step EXCEPT ![r] = 0]
  /\ UNCHANGED <<wlHd, local, visits>>

(* Faulty variant: a Reduce, which leaves the sum on rank 0 only. *)
CollectiveReduce ==
  /\ \E c \in Call :
       /\ \A r \in Rank : at[r] = c
       /\ at' = [r \in Rank |-> Returns[c]]
       /\ wlHd' = IF c \in Allreduce
                  THEN [wlHd EXCEPT ![0] = [b \in Bin |-> SumOverRanks(wlHi, b)]]
                  ELSE wlHd
  /\ UNCHANGED <<step, dos, local, visits>>

(* A collective call returns when every rank is in it. *)
Collective ==
  /\ \E c \in Call :
       /\ \A r \in Rank : at[r] = c
       /\ at' = [r \in Rank |-> Returns[c]]
       /\ wlHd' = IF c \in Allreduce
                  THEN [r \in Rank |-> [b \in Bin |-> SumOverRanks(wlHi, b)]]
                  ELSE wlHd
  /\ UNCHANGED <<step, dos, local, visits>>

(* global_update() after its Allreduce: merge, and when the histogram is   *)
(* flat enough fold the prior into ln(g) and start the main loop.          *)
PriorFlat(d) == Flat(d.wlH, FlatNum * d.lnwlf, FlatDen * Unit)

MergePrior(r) ==
  /\ at[r] = "merge_prior"
  /\ LET d == PriorMerged(dos[r], wlHd[r])
     IN  IF PriorFlat(d)
         THEN /\ dos' = [dos EXCEPT ![r] = Folded(d)]
              /\ visits' = [visits EXCEPT ![r] = 0]
              /\ Goto(r, "main")
         ELSE /\ dos' = [dos EXCEPT ![r] = d]
              /\ Goto(r, "prior")
              /\ UNCHANGED visits
  /\ wlHi' = [wlHi EXCEPT ![r] = Zero]
  /\ wllngi' = [wllngi EXCEPT ![r] = Zero]
  /\ UNCHANGED <<step, wlHd, bin, op>>

(* Faulty variants: the local change to ln(g) is kept; the report is made  *)
(* inside the rank-0 guard.                                                *)
MergeMainKeepDelta(r) ==
  /\ at[r] = "merge_main"
  /\ dos' = [dos EXCEPT ![r] = Merged(@, wlHd[r])]
  /\ wlHi' = [wlHi EXCEPT ![r] = Zero]
  /\ Goto(r, IF ReportDue(dos[r]) THEN "rep_main" ELSE "test_main")
  /\ UNCHANGED <<step, wlHd, bin, wllngi, op, visits>>

MergeMainRankZeroReports(r) ==
  /\ at[r] = "merge_main"
  /\ dos' = [dos EXCEPT ![r] = Merged(@, wlHd[r])]
  /\ wlHi' = [wlHi EXCEPT ![r] = Zero]
  /\ wllngi' = [wllngi EXCEPT ![r] = Zero]
  /\ Goto(r, IF r = 0 /\ ReportDue(dos[r]) THEN "rep_main" ELSE "test_main")
  /\ UNCHANGED <<step, wlHd, bin, op, visits>>

MergeMain(r) ==
  /\ at[r] = "merge_main"
  /\ dos' = [dos EXCEPT ![r] = Merged(@, wlHd[r])]
  /\ wlHi' = [wlHi EXCEPT ![r] = Zero]
  /\ wllngi' = [wllngi EXCEPT ![r] = Zero]
  /\ Goto(r, IF ReportDue(dos[r]) THEN "rep_main" ELSE "test_main")
  /\ UNCHANGED <<step, wlHd, bin, op, visits>>

(* The inner loop's test; when it ends, the level does. *)
TestMain(r) ==
  /\ at[r] = "test_main"
  /\ IF Flat(dos[r].wlH, FlatNum, FlatDen)
     THEN /\ dos' = [dos EXCEPT ![r] = Refined(@)]
          /\ Goto(r, "level")
     ELSE /\ Goto(r, "main")
          /\ UNCHANGED dos
  /\ UNCHANGED <<step, wlHd, local, visits>>

NextSample(d) == IF d.count < ProductionBinSamps THEN "prod" ELSE "sum_op"

TestProd(r) == /\ at[r] = "test_prod"
               /\ Goto(r, NextSample(dos[r]))
               /\ UNCHANGED <<step, dos, wlHd, local, visits>>

(* The production loop clears the counts but not wllngi. *)
MergeProd(r) ==
  /\ at[r] = "merge_prod"
  /\ dos' = [dos EXCEPT ![r] = Sampled(@, wlHd[r])]
  /\ wlHi' = [wlHi EXCEPT ![r] = Zero]
  /\ Goto(r, NextSample(Sampled(dos[r], wlHd[r])))
  /\ UNCHANGED <<step, wlHd, bin, wllngi, op, visits>>

Local(r) == \/ Work(r) \/ StartLevel(r) \/ EndSweep(r)
            \/ MergePrior(r) \/ MergeMain(r) \/ TestMain(r)
            \/ TestProd(r) \/ MergeProd(r)

Done == (\A r \in Rank : at[r] = "done") /\ UNCHANGED vars
BoundReached == (\E r \in Rank : dos[r].TotalSweeps = MaxSweeps) /\ UNCHANGED vars

Next == (\E r \in Rank : Local(r)) \/ Collective \/ Done \/ BoundReached

Fairness == WF_vars(Collective) /\ \A r \in Rank : WF_vars(Local(r))
Spec == Init /\ [][Next]_vars /\ Fairness
-----------------------------------------------------------------------------
Segment == DOMAIN Plan \cup {"level", "merge_prior", "merge_main", "test_main",
                             "test_prod", "merge_prod", "done"}

(* Ranks that wait in a collective call wait in the same one, with the     *)
(* same histogram, ln(g), ln(f) and counters.  Each rank tests flatness on *)
(* its own copy: a copy that differed would send one rank to a Barrier     *)
(* while the others are in an Allreduce.                                   *)
RanksInStep == \A r, s \in Rank :
  at[r] \in Call /\ at[s] \in Call => at[r] = at[s] /\ dos[r] = dos[s]

(* Every Wang-Landau decision of every rank is in the histogram once: when *)
(* all ranks have entered an Allreduce, what is merged and what is about   *)
(* to be merged add up to the decisions since the histogram was reset.     *)
EveryVisitMerged ==
  (\E c \in Allreduce : \A r \in Rank : at[r] = c) =>
    \A r \in Rank :
      Total(dos[r].wlH) + MapThenSumSet(LAMBDA q : Total(wlHi[q]), Rank)
        = MapThenSumSet(LAMBDA q : visits[q], Rank)

(* wllngi is this rank's change to ln(g) since the last merge: its own     *)
(* unmerged counts weighted by ln(f).  The acceptance test adds it to the  *)
(* merged ln(g), so a visit left in wllngi after its merge counts twice.   *)
(* (The production loop, which does not clear wllngi, lets it.)            *)
LocalDeltaWhileSampling ==
  \A r \in Rank : at[r] \in {"prior", "main"} =>
    \A b \in Bin : wllngi[r][b] = wlHi[r][b] * dos[r].lnwlf

(* Together: each visit counts once, in the histogram and in ln(g), before *)
(* its merge and after it.                                                 *)
VisitsCountOnce == EveryVisitMerged /\ LocalDeltaWhileSampling

(* What an Allreduce left on a rank is the sum of the ranks' counts.  It   *)
(* is an unsigned short of its own, whatever room each rank's counts have. *)
CountersHoldASweep ==
  \A m \in {"merge_prior", "merge_main", "merge_prod"} :
    (\A r \in Rank : at[r] = m) =>
      \A r \in Rank, b \in Bin :
        wlHd[r][b] = MapThenSumSet(LAMBDA q : wlHi[q][b], Rank)

(* A level ends for a rank only when every bin of the window was visited   *)
(* within the level, however the average is taken.                         *)
LevelVisitsEveryBin ==
  [][\A r \in Rank : dos'[r].numf > dos[r].numf
                       => \A b \in Bin : dos[r].wlH[b] > 0]_vars

(* thermoqs() divides the order parameter summed over a bin by the         *)
(* production visits to the bin: no bin has more samples than visits.  (It *)
(* may have fewer: a move rejected for leaving the window is counted in    *)
(* the histogram and not sampled.)                                         *)
SamplesAtMostVisits ==
  (\A r \in Rank : at[r] = "done") =>
    \A r \in Rank : \A b \in Bin :
      MapThenSumSet(LAMBDA q : op[q][b], Rank) <= dos[r].wlH[b]

(* No rank waits forever in a collective call: the others reach the same   *)
(* one.                                                                    *)
CollectivesReturn == \A r \in Rank : at[r] \in Call ~> at[r] \notin Call
=============================================================================
