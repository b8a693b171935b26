---------------------------- MODULE EnergyWindow ----------------------------
(***************************************************************************)
(* How the ranks agree on the energy window between parallel tempering and *)
(* Wang-Landau sampling: the extension of the configured window by the     *)
(* energies the ladder reached (src/src/main.cc lines 81-85), the cut to a *)
(* whole number of bins and the relaxation into the window (initWL(),      *)
(* src/src/wanglandau.cc lines 105-138).                                   *)
(*                                                                         *)
(* Energies are per atom, integers in a unit that divides the bin width    *)
(* and the window.  The two Allreduce calls return when every rank is in   *)
(* them.  Restart has readg(), which initWL() calls before its barrier,    *)
(* and everything after it.                                                *)
(***************************************************************************)
EXTENDS Integers, FiniteSets, FiniteSetsExt

CONSTANTS NRanks, Energies,
          ConfigMin, ConfigMax,   \* wang_landau.e_min, e_max
          BinWidth

Rank == 0 .. NRanks - 1

ASSUME WindowAssumption == /\ NRanks \in Nat \ {0}
                           /\ Energies \subseteq Int
                           /\ ConfigMin \in Int /\ ConfigMax \in Int
                           /\ ConfigMin <= ConfigMax
                           /\ BinWidth \in Nat \ {0}

VARIABLES pc,       \* "ptEmin", "ptEmax", "extend", "bins", "relax", "readg",
                    \* "barrier", "wl", then as in Restart
          E,        \* currEtot / N of each rank
          ptEmin, ptEmax,
          WLD1min, WLD1max,   \* rank r's copy of the window
          D1BINS

vars == <<pc, E, ptEmin, ptEmax, WLD1min, WLD1max, D1BINS>>
window == <<WLD1min, WLD1max>>
ladder == <<ptEmin, ptEmax>>

Init == /\ pc = [r \in Rank |-> "ptEmin"]
        /\ E \in [Rank -> Energies]
        /\ ptEmin = [r \in Rank |-> 0]
        /\ ptEmax = [r \in Rank |-> 0]
        /\ WLD1min = [r \in Rank |-> ConfigMin]
        /\ WLD1max = [r \in Rank |-> ConfigMax]
        /\ D1BINS = [r \in Rank |-> 0]

AllAt(a) == \A r \in Rank : pc[r] = a
AllGoto(a) == pc' = [r \in Rank |-> a]
Goto(r, a) == pc' = [pc EXCEPT ![r] = a]

ReduceMin == /\ AllAt("ptEmin") /\ AllGoto("ptEmax")
             /\ ptEmin' = [r \in Rank |-> Min({E[q] : q \in Rank})]
             /\ UNCHANGED <<E, ptEmax, window, D1BINS>>

ReduceMax == /\ AllAt("ptEmax") /\ AllGoto("extend")
             /\ ptEmax' = [r \in Rank |-> Max({E[q] : q \in Rank})]
             /\ UNCHANGED <<E, ptEmin, window, D1BINS>>

(* Faulty variant: a rank extends the window by its own energy only. *)
ExtendByOwn(r) ==
  /\ pc[r] = "extend" /\ Goto(r, "bins")
  /\ WLD1min' = [WLD1min EXCEPT ![r] = Min({@, E[r]})]
  /\ WLD1max' = [WLD1max EXCEPT ![r] = Max({@, E[r]})]
  /\ UNCHANGED <<E, ladder, D1BINS>>

Extend(r) == /\ pc[r] = "extend" /\ Goto(r, "bins")
             /\ WLD1min' = [WLD1min EXCEPT ![r] = Min({@, ptEmin[r]})]
             /\ WLD1max' = [WLD1max EXCEPT ![r] = Max({@, ptEmax[r]})]
             /\ UNCHANGED <<E, ladder, D1BINS>>

(* The bin count is truncated, and the upper edge moves down to it. *)
CutBins(r) ==
  LET bins == (WLD1max[r] - WLD1min[r]) \div BinWidth
  IN  /\ pc[r] = "bins" /\ Goto(r, "relax")
      /\ D1BINS' = [D1BINS EXCEPT ![r] = bins]
      /\ WLD1max' = [WLD1max EXCEPT ![r] = WLD1min[r] + bins * BinWidth]
      /\ UNCHANGED <<E, ladder, WLD1min>>

NeedsRelaxationBelow(r) == E[r] < WLD1min[r]     \* faulty variant
NeedsRelaxation(r) == E[r] > WLD1max[r]

(* A whole Metropolis sweep at high temperature: it may end anywhere. *)
Relax(r) == /\ pc[r] = "relax"
            /\ NeedsRelaxation(r)
            /\ \E e \in Energies : E' = [E EXCEPT ![r] = e]
            /\ UNCHANGED <<pc, ladder, window, D1BINS>>

Relaxed(r) == /\ pc[r] = "relax"
              /\ ~NeedsRelaxation(r)
              /\ Goto(r, "readg")
              /\ UNCHANGED <<E, ladder, window, D1BINS>>
-----------------------------------------------------------------------------
(* Every variable stays in its range; no rank counts a negative number of  *)
(* bins.                                                                   *)
WindowTypeOK ==
  /\ pc \in [Rank -> {"ptEmin", "ptEmax", "extend", "bins", "relax", "readg",
                      "barrier", "wl", "production", "done", "dead"}]
  /\ E \in [Rank -> Energies]
  /\ ptEmin \in [Rank -> Int] /\ ptEmax \in [Rank -> Int]
  /\ WLD1min \in [Rank -> Int] /\ WLD1max \in [Rank -> Int]
  /\ D1BINS \in [Rank -> Nat]

(* All ranks merge histograms bin by bin: they have the same window and    *)
(* the same number of bins when the Allreduce calls begin, although each   *)
(* computed its own.                                                       *)
SameWindow == AllAt("wl") \/ AllAt("production") => \A r, s \in Rank :
  WLD1min[r] = WLD1min[s] /\ WLD1max[r] = WLD1max[s] /\ D1BINS[r] = D1BINS[s]

(* The final window holds the configured one and every energy the ladder   *)
(* reached, except for less than one bin at the top, which the cut to      *)
(* whole bins takes off again; a walker in that part is brought back, and  *)
(* no walker is above the window.                                          *)
NotAboveWindow == \A r \in Rank : pc[r] \in {"readg", "barrier", "wl"} =>
  /\ E[r] <= WLD1max[r]
  /\ WLD1min[r] = Min({ConfigMin, ptEmin[r]})
  /\ Max({ConfigMax, ptEmax[r]}) - WLD1max[r] \in 0 .. BinWidth - 1
  /\ WLD1max[r] = WLD1min[r] + D1BINS[r] * BinWidth
=============================================================================
