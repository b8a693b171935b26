------------------------------- MODULE Alloy -------------------------------
(***************************************************************************)
(* The walker of one rank (src/src/alloy.cc): the elements on the lattice  *)
(* sites, the pair counts W kept incrementally, the energy, and the two    *)
(* trial moves, BondSwap() and vae_update(), with the acceptance tests     *)
(* Metropolis() and WangLandau().                                          *)
(*                                                                         *)
(* A trial move changes Atom and W in place, and is undone from a saved    *)
(* copy when it is rejected.  What the acceptance test writes in between,  *)
(* a snapshot or an order-parameter sample, sees the trial configuration.  *)
(* So a move is two steps: the trial, and the decision.  The decoder is    *)
(* external and may put any element on any site.  Which in-range targets   *)
(* are accepted is left open here: module WangLandau has ln(g).            *)
(***************************************************************************)
EXTENDS Integers, FiniteSets, FiniteSetsExt

CONSTANTS NSites,       \* N_3
          NE,           \* number of elements
          Nneighbors,
          inputPos,     \* inputPos[i][n]: the n-th neighbour of site i
          Shell,        \* Shell[n]: the shell of the n-th neighbour
          J,            \* J[k]: coupling of a pair of unlike elements
          NT,           \* NT[t]: atoms of element t
          WLD1min, BinWidth, D1BINS,   \* the energy window
          LowSlots      \* 10 in the code: slots captured by print_list

Site == 0 .. NSites - 1
Element == 0 .. NE - 1
Neighbour == 1 .. Nneighbors
Bin == 0 .. D1BINS - 1
ShortSlot == {b \in Bin : b < LowSlots - 1}     \* faulty variant of Slot
Slot == {b \in Bin : b < LowSlots}
Key(a, b, s) == IF a <= b THEN <<a, b, s>> ELSE <<b, a, s>>
PairKey == {Key(a, b, Shell[n]) : a, b \in Element, n \in Neighbour}
Atoms(A, t) == Cardinality({i \in Site : A[i] = t})
Lattice == {A \in [Site -> Element] : \A t \in Element : Atoms(A, t) = NT[t]}

(* The coupling files have offsets in opposite pairs, each in the shell of *)
(* its opposite, and shorter than the lattice.  The table of such a file   *)
(* has these properties: Lattice_proofs!TableSuitsAlloy.                   *)
ASSUME NeighbourAssumption ==
  /\ inputPos \in [Site -> [Neighbour -> Site]]
  /\ \A i \in Site : \A n \in Neighbour : inputPos[i][n] # i
  /\ \E opposite \in [Neighbour -> Neighbour] : \A n \in Neighbour :
       /\ opposite[opposite[n]] = n
       /\ Shell[opposite[n]] = Shell[n]
       /\ \A i \in Site : inputPos[inputPos[i][n]][opposite[n]] = i
ASSUME CompositionAssumption ==
  /\ NSites \in Nat /\ NE \in Nat /\ Nneighbors \in Nat
  /\ NT \in [Element -> Nat]
  /\ MapThenSumSet(LAMBDA t : NT[t], Element) = NSites
ASSUME WindowAssumption == /\ WLD1min \in Int /\ BinWidth \in Nat \ {0}
                           /\ D1BINS \in Nat \ {0} /\ LowSlots \in Nat

VARIABLES pc,          \* "idle", "repair" (in decode()), "trial", or "undefined"
          mode,        \* the SamplingMode of the caller
          Atom, W, currEtot,
          saved,       \* the copies a rejection restores
          sum, elist,  \* decode(): atoms per element, sites not yet reassigned
          print_list,  \* slots whose snapshot was taken
          out          \* what the last step wrote: a snapshot, a sample or nothing

vars == <<pc, mode, Atom, W, currEtot, saved, sum, elist, print_list, out>>
decoding == <<sum, elist>>

Nothing == [kind |-> "nothing"]
NoSum == [t \in Element |-> 0]
NoList == [t \in Element |-> {}]
Modes == {"metropolis", "WLprior", "WLdos", "WLproduction"}

(* ini_W(): every site looks at every neighbour, so a bond counts twice. *)
Recount(A) == [k \in PairKey |->
  Cardinality({x \in Site \X Neighbour :
                 Key(A[x[1]], A[inputPos[x[1]][x[2]]], Shell[x[2]]) = k})]

(* updateWsite(): element a of site i becomes b; the bond to the other     *)
(* site of the swap keeps its two elements and is skipped.                 *)
SiteBondsAll(A, a, i, j, k) ==     \* faulty variant: no bond is skipped
  Cardinality({n \in Neighbour : Key(a, A[inputPos[i][n]], Shell[n]) = k})
SiteBonds(A, a, i, j, k) ==
  Cardinality({n \in Neighbour :
    inputPos[i][n] # j /\ Key(a, A[inputPos[i][n]], Shell[n]) = k})
SiteChange(A, a, b, i, j, k) ==
  2 * (SiteBonds(A, b, i, j, k) - SiteBonds(A, a, i, j, k))
Updated(A, w, i, j) == [k \in PairKey |->
  w[k] + SiteChange(A, A[i], A[j], i, j, k) + SiteChange(A, A[j], A[i], j, i, k)]

Etot(w) == MapThenSumSet(LAMBDA k : w[k] * J[k], {k \in PairKey : k[1] < k[2]})

(* static_cast<int> rounds toward zero. *)
Truncate(x) == IF x >= 0 THEN x \div BinWidth ELSE -((-x) \div BinWidth)
BinOf(E) == Truncate(E - WLD1min)
WLD1max == WLD1min + D1BINS * BinWidth

(* In the unit of J and of the window energies are integers. *)
ASSUME EnergyAssumption == \A A \in Lattice : Etot(Recount(A)) \in Int

Swapped(A, i, j) == [A EXCEPT ![i] = A[j], ![j] = A[i]]

-----------------------------------------------------------------------------
Init == /\ pc = "idle"
        /\ mode = "metropolis"
        /\ Atom \in Lattice
        /\ W = Recount(Atom)
        /\ currEtot = Etot(W)
        /\ saved = Nothing
        /\ sum = NoSum
        /\ elist = NoList
        /\ print_list = {}
        /\ out = Nothing

(* initWL() relaxes until the energy is at most the upper edge, and of one *)
(* below the window it only makes a note.  global_update(), the inner loop *)
(* or, when ln(f) is small already, production comes next.                 *)
initWL == /\ pc = "idle"
          /\ mode = "metropolis"
          /\ currEtot <= WLD1max
          /\ mode' \in {"WLprior", "WLdos", "WLproduction"}
          /\ out' = Nothing
          /\ UNCHANGED <<pc, Atom, W, currEtot, saved, decoding, print_list>>

(* The levels of main.cc: global_update() and the inner loop. *)
NextLoop == /\ pc = "idle"
            /\ \/ mode = "WLprior" /\ mode' = "WLdos"
               \/ mode = "WLdos" /\ mode' = "WLprior"
            /\ out' = Nothing
            /\ UNCHANGED <<pc, Atom, W, currEtot, saved, decoding, print_list>>

Production == /\ pc = "idle"
              /\ mode = "WLdos"
              /\ mode' = "WLproduction"
              /\ out' = Nothing
              /\ UNCHANGED <<pc, Atom, W, currEtot, saved, decoding, print_list>>

(* BondSwap() up to its acceptance test. *)
BondSwap(i, n) ==
  LET j == inputPos[i][n]
  IN  /\ pc = "idle"
      /\ Atom[i] # Atom[j]
      /\ saved' = [Atom |-> Atom, W |-> W]
      /\ W' = Updated(Atom, W, i, j)
      /\ Atom' = Swapped(Atom, i, j)
      /\ pc' = "trial"
      /\ out' = Nothing
      /\ UNCHANGED <<mode, currEtot, decoding, print_list>>

(* vae_update() up to the repair loop of decode(). *)
VaeDecode(D) ==
  /\ pc = "idle"
  /\ mode \in {"WLprior", "WLdos"}
  /\ saved' = [Atom |-> Atom, W |-> W]
  /\ Atom' = D
  /\ sum' = [t \in Element |-> Atoms(D, t)]
  /\ elist' = [t \in Element |-> {i \in Site : D[i] = t}]
  /\ pc' = "repair"
  /\ out' = Nothing
  /\ UNCHANGED <<mode, W, currEtot, print_list>>

OverfullByTwo == {t \in Element : sum[t] - 1 > NT[t]}     \* faulty variant
Overfull == {t \in Element : sum[t] > NT[t]}
Room(t) == {tt \in Element \ {t} : sum[tt] < NT[tt]}

(* Faulty variant of Repair: the overfull element's count is not lowered. *)
RepairUncounted(i) ==
  LET t == Min(Overfull)
      tid == IF Room(t) = {} THEN -1 ELSE Min(Room(t))
  IN  /\ pc = "repair"
      /\ Overfull # {}
      /\ i \in elist[t]
      /\ Atom' = [Atom EXCEPT ![i] = tid]
      /\ elist' = [elist EXCEPT ![t] = @ \ {i}]
      /\ sum' = [sum EXCEPT ![tid] = @ + 1]
      /\ out' = Nothing
      /\ UNCHANGED <<pc, mode, W, currEtot, saved, print_list>>

(* One hit of the repair loop: a site of the first overfull element that   *)
(* was not reassigned before goes to the first element that lacks atoms.   *)
Repair(i) ==
  LET t == Min(Overfull)
      tid == IF Room(t) = {} THEN -1 ELSE Min(Room(t))
  IN  /\ pc = "repair"
      /\ Overfull # {}
      /\ i \in elist[t]
      /\ Atom' = [Atom EXCEPT ![i] = tid]
      /\ elist' = [elist EXCEPT ![t] = @ \ {i}]
      /\ sum' = [sum EXCEPT ![t] = @ - 1, ![tid] = @ + 1]
      /\ out' = Nothing
      /\ UNCHANGED <<pc, mode, W, currEtot, saved, print_list>>

(* The end of decode(): ini_W() recounts the pairs. *)
Repaired == /\ pc = "repair"
            /\ Overfull = {}
            /\ W' = Recount(Atom)
            /\ sum' = NoSum /\ elist' = NoList    \* locals of decode()
            /\ pc' = "trial"
            /\ out' = Nothing
            /\ UNCHANGED <<mode, Atom, currEtot, saved, print_list>>

Accept == /\ currEtot' = Etot(W)
          /\ UNCHANGED <<Atom, W>>
Revert == /\ Atom' = saved.Atom
          /\ W' = saved.W
          /\ UNCHANGED currEtot

(* Metropolis(): a lower energy is always accepted. *)
DecideMetropolis == /\ pc = "trial"
                    /\ mode = "metropolis"
                    /\ Accept \/ (Etot(W) >= currEtot /\ Revert)
                    /\ pc' = "idle"
                    /\ out' = Nothing
                    /\ saved' = Nothing
                    /\ UNCHANGED <<mode, decoding, print_list>>

Frame == [kind |-> "snapshot", Atom |-> Atom]
Sample(b) == [kind |-> "sample", bin |-> b, Atom |-> Atom]

(* WangLandau(): first the one-shot snapshot of a low-energy target, then  *)
(* the range check, then the test.  OrderParameter() runs before a         *)
(* rejected trial is undone, and not at all for a target out of range.     *)
Capture == /\ pc = "trial"
           /\ mode # "metropolis"
           /\ BinOf(Etot(W)) \in Slot \ print_list
           /\ print_list' = print_list \cup {BinOf(Etot(W))}
           /\ out' = Frame
           /\ UNCHANGED <<pc, mode, Atom, W, currEtot, saved, decoding>>

Sampled(b) == IF mode = "WLproduction" THEN Sample(b) ELSE Nothing

(* The walker's own bin is used as an index before it is asserted to be    *)
(* one, and a release build asserts nothing.                               *)
IndexOutOfBins == /\ pc = "trial"
                  /\ mode # "metropolis"
                  /\ BinOf(Etot(W)) \notin Slot \ print_list
                  /\ BinOf(currEtot) \notin Bin
                  /\ pc' = "undefined"
                  /\ out' = Nothing
                  /\ UNCHANGED <<mode, Atom, W, currEtot, saved, decoding, print_list>>

(* Faulty variant: the bin after the last one is taken for in range. *)
DecideWLOffByOne ==
  LET iti == BinOf(currEtot)
      fti == BinOf(Etot(W))
  IN  /\ pc = "trial"
      /\ mode # "metropolis"
      /\ fti \notin Slot \ print_list
      /\ iti \in Bin
      /\ \/ fti \in 0 .. D1BINS /\ Accept /\ out' = Sampled(fti)
         \/ fti \in 0 .. D1BINS /\ Revert /\ out' = Sampled(iti)
         \/ fti \notin 0 .. D1BINS /\ Revert /\ out' = Nothing
      /\ pc' = "idle"
      /\ saved' = Nothing
      /\ UNCHANGED <<mode, decoding, print_list>>

DecideWL ==
  LET iti == BinOf(currEtot)
      fti == BinOf(Etot(W))
  IN  /\ pc = "trial"
      /\ mode # "metropolis"
      /\ fti \notin Slot \ print_list
      /\ iti \in Bin
      /\ \/ fti \in Bin /\ Accept /\ out' = Sampled(fti)
         \/ fti \in Bin /\ Revert /\ out' = Sampled(iti)
         \/ fti \notin Bin /\ Revert /\ out' = Nothing
      /\ pc' = "idle"
      /\ saved' = Nothing
      /\ UNCHANGED <<mode, decoding, print_list>>

Undefined == pc = "undefined" /\ UNCHANGED vars

Next == \/ initWL \/ NextLoop \/ Production
        \/ \E i \in Site, n \in Neighbour : BondSwap(i, n)
        \/ \E D \in [Site -> Element] : VaeDecode(D)
        \/ \E i \in Site : Repair(i)
        \/ Repaired
        \/ DecideMetropolis \/ Capture \/ DecideWL
        \/ IndexOutOfBins \/ Undefined

Spec == Init /\ [][Next]_vars
-----------------------------------------------------------------------------
(* Incremental bookkeeping: between moves, and for a trial, the pair       *)
(* counts are those a recount would find, and the energy is that of the    *)
(* configuration; no sequence of swaps, VAE moves and rejections drifts.   *)
CountsMatch == /\ pc # "repair" => W = Recount(Atom)
               /\ pc = "idle" => currEtot = Etot(Recount(Atom))
               /\ pc # "idle" => currEtot = Etot(Recount(saved.Atom))

(* The number of atoms of each element never changes: the repair loop ends *)
(* with sum = NT (asserted at src/src/alloy.cc line 423) and sum is what   *)
(* the lattice holds.                                                      *)
CompositionConserved ==
  /\ pc # "repair" => Atom \in Lattice
  /\ pc = "repair" /\ Overfull = {} => \A t \in Element : sum[t] = NT[t]

(* The bin of the walker is an index, asserted to be one at                *)
(* src/src/wanglandau.cc line 236 after its first use.  It need not be: a  *)
(* walker whose energy has no bin was left there by initWL(), at the upper *)
(* edge or a whole bin below the window.  But no move of Wang-Landau       *)
(* sampling takes one out of the bins.  (Rounding toward zero gives bin 0  *)
(* to an energy less than one bin below.)                                  *)
OutsideOnlyFromStart ==
  [][BinOf(currEtot') \notin Bin =>
       /\ mode # "metropolis" => UNCHANGED currEtot
       /\ mode = "metropolis" /\ mode' # "metropolis"
            => currEtot' = WLD1max \/ currEtot' <= WLD1min - BinWidth]_vars

(* Every low-energy slot a walker arrives in has its snapshot, and it is   *)
(* of a configuration in that slot: capturing precedes acceptance, and     *)
(* sees the trial.                                                         *)
ArrivalsCaptured ==
  [][/\ mode # "metropolis" /\ currEtot' # currEtot /\ BinOf(currEtot') < LowSlots
          => BinOf(currEtot') \in print_list'
     /\ print_list' # print_list
          => BinOf(Etot(Recount(out'.Atom))) \in print_list' \ print_list]_vars

(* L1() is of "the current configuration" (src/src/alloy.hpp line 116): a  *)
(* sample filed under a bin is of a configuration with an energy in that   *)
(* bin.  After a rejection it is of the rejected one.                      *)
SampleBelongsToBin ==
  out.kind = "sample" => BinOf(Etot(Recount(out.Atom))) = out.bin

(* The repair loop draws sites at random until no element is overfull: it  *)
(* cannot run forever on hits, nor run out of sites that would be one.     *)
Surplus == {a \in Element \X (1 .. NSites) : NT[a[1]] < a[2] /\ a[2] <= sum[a[1]]}
Excess == Cardinality(Surplus)    \* the atoms too many, over all elements
RepairAdvances ==
  [][/\ pc = "repair" /\ pc' = "repair" => Excess' < Excess
     /\ pc' = "repair" /\ Overfull' # {} => elist'[Min(Overfull')] # {}]_vars
=============================================================================
