--------------------------- MODULE Restart_proofs ---------------------------
(***************************************************************************)
(* Any number of ranks agree on the energy window, for every configured    *)
(* window, bin width and set of energies, and through every crash and      *)
(* restart.  And whatever a job restarts from, its level, its factor and   *)
(* the cut of its gate belong together, and each bin has ln(g) of its own  *)
(* energy.                                                                 *)
(***************************************************************************)
EXTENDS Restart, TLAPS, WellFoundedInduction, SequenceTheorems

(***************************************************************************)
(* Minimum and maximum.                                                    *)
(***************************************************************************)
(* Of two numbers.                                                         *)
LEMMA OfTwo ==
  ASSUME NEW a \in Int, NEW b \in Int
  PROVE  /\ Min({a, b}) \in Int /\ Min({a, b}) <= a /\ Min({a, b}) <= b
         /\ Max({a, b}) \in Int /\ Max({a, b}) >= a /\ Max({a, b}) >= b
<1>1. \E x \in {a, b} : \A y \in {a, b} : x <= y
  OBVIOUS
<1>2. \E x \in {a, b} : \A y \in {a, b} : x >= y
  OBVIOUS
<1>3. QED
  BY <1>1, <1>2 DEF Min, Max

(* Some rank has the lowest energy, and some the highest: by least         *)
(* counterexample over the number of ranks.                                *)
LEMMA Extremes ==
  ASSUME NEW f, NEW n \in Nat \ {0}, \A q \in 0 .. n - 1 : f[q] \in Int
  PROVE  /\ \E q \in 0 .. n - 1 : \A p \in 0 .. n - 1 : f[q] <= f[p]
         /\ \E q \in 0 .. n - 1 : \A p \in 0 .. n - 1 : f[q] >= f[p]
<1> DEFINE Has(k) == /\ \E q \in 0 .. k - 1 : \A p \in 0 .. k - 1 : f[q] <= f[p]
                     /\ \E q \in 0 .. k - 1 : \A p \in 0 .. k - 1 : f[q] >= f[p]
           Lacking == {k \in Nat : k \in 1 .. n /\ ~Has(k)}
<1>1. Has(1)
  <2>1. 0 .. 1 - 1 = {0} /\ f[0] \in Int
    OBVIOUS
  <2>2. QED
    BY <2>1
<1>2. ASSUME NEW k \in 1 .. n, k # n, Has(k) PROVE Has(k + 1)
  <2>1. 0 .. (k + 1) - 1 = (0 .. k - 1) \cup {k} /\ \A q \in (0 .. k - 1) \cup {k} : f[q] \in Int
    <3>1. k \in Nat \ {0} /\ k < n /\ k \in 0 .. n - 1
      BY <1>2
    <3>2. 0 .. (k + 1) - 1 = (0 .. k - 1) \cup {k}
      BY <3>1
    <3>3. \A q \in 0 .. k - 1 : q \in 0 .. n - 1
      BY <3>1
    <3>4. QED
      BY <3>1, <3>2, <3>3
  <2>2. PICK low \in 0 .. k - 1 : \A p \in 0 .. k - 1 : f[low] <= f[p]
    BY <1>2
  <2>3. PICK high \in 0 .. k - 1 : \A p \in 0 .. k - 1 : f[high] >= f[p]
    BY <1>2
  <2>4. \E q \in (0 .. k - 1) \cup {k} : \A p \in (0 .. k - 1) \cup {k} : f[q] <= f[p]
    <3>1. CASE f[low] <= f[k]
      BY <3>1, <2>1, <2>2
    <3>2. CASE f[k] <= f[low]
      BY <3>2, <2>1, <2>2
    <3>3. QED
      BY <3>1, <3>2, <2>1
  <2>5. \E q \in (0 .. k - 1) \cup {k} : \A p \in (0 .. k - 1) \cup {k} : f[q] >= f[p]
    <3>1. CASE f[high] >= f[k]
      BY <3>1, <2>1, <2>3
    <3>2. CASE f[k] >= f[high]
      BY <3>2, <2>1, <2>3
    <3>3. QED
      BY <3>1, <3>2, <2>1
  <2>6. QED
    BY <2>1, <2>4, <2>5
<1> HIDE DEF Has
<1>3. SUFFICES ASSUME Lacking # {} PROVE FALSE
  <2>1. Has(n)
    BY <1>3
  <2>2. QED
    BY <2>1 DEF Has
<1>4. PICK k \in Lacking : \A j \in Lacking : <<j, k>> \notin OpToRel(<, Nat)
  BY <1>3, WFMin, NatLessThanWellFounded, Zenon
<1>5. \A j \in Lacking : ~(j < k)
  BY <1>4, Zenon DEF OpToRel
<1>6. k # 1
  BY <1>1
<1>7. k - 1 \in 1 .. n /\ k - 1 # n /\ k - 1 < k /\ (k - 1) + 1 = k
  BY <1>6
<1>8. k - 1 \notin Lacking
  BY <1>5, <1>7
<1>9. Has(k - 1)
  BY <1>7, <1>8
<1>10. Has((k - 1) + 1)
  BY <1>2, <1>7, <1>9
<1>11. QED
  BY <1>7, <1>10

(* Whole bins, and a remainder of less than one.                           *)
LEMMA Whole ==
  ASSUME NEW x \in Nat, NEW w \in Nat \ {0}
  PROVE  x \div w \in Nat /\ x - (x \div w) * w \in 0 .. w - 1
OBVIOUS

(***************************************************************************)
(* The invariant.                                                          *)
(***************************************************************************)
Cut == {"relax", "readg", "barrier", "wl", "production", "done"}
Lowest(r) == Min({ConfigMin, ptEmin[r]})
Highest(r) == Max({ConfigMax, ptEmax[r]})

SameLadder == \A r, s \in Rank : ptEmin[r] = ptEmin[s] /\ ptEmax[r] = ptEmax[s]
Configured == \A r \in Rank : pc[r] \in {"ptEmin", "ptEmax", "extend"} =>
                WLD1min[r] = ConfigMin /\ WLD1max[r] = ConfigMax
Extended == \A r \in Rank : pc[r] = "bins" =>
              WLD1min[r] = Lowest(r) /\ WLD1max[r] = Highest(r)
WholeBins == \A r \in Rank : pc[r] \in Cut =>
               /\ WLD1min[r] = Lowest(r)
               /\ D1BINS[r] = (Highest(r) - Lowest(r)) \div BinWidth
               /\ WLD1max[r] = Lowest(r) + D1BINS[r] * BinWidth
Inside == \A r \in Rank : pc[r] \in Cut \ {"relax"} => E[r] <= WLD1max[r]

IInv == WindowTypeOK /\ SameLadder /\ Configured /\ Extended /\ WholeBins /\ Inside

USE WindowAssumption DEF Rank

(* The ends of the window, and the bins between them.                      *)
LEMMA Ends ==
  ASSUME WindowTypeOK, NEW r \in Rank
  PROVE  /\ Lowest(r) \in Int /\ Highest(r) \in Int
         /\ Highest(r) - Lowest(r) \in Nat
         /\ (Highest(r) - Lowest(r)) \div BinWidth \in Nat
         /\ Highest(r) - (Lowest(r) + ((Highest(r) - Lowest(r)) \div BinWidth) * BinWidth)
              \in 0 .. BinWidth - 1
<1>1. ptEmin[r] \in Int /\ ptEmax[r] \in Int
  BY DEF WindowTypeOK
<1>2. Lowest(r) \in Int /\ Lowest(r) <= ConfigMin
  BY <1>1, OfTwo DEF Lowest
<1>3. Highest(r) \in Int /\ Highest(r) >= ConfigMax
  BY <1>1, OfTwo DEF Highest
<1> DEFINE x == Highest(r) - Lowest(r)
<1>4. x \in Nat
  BY <1>2, <1>3
<1>5. x \div BinWidth \in Nat /\ x - (x \div BinWidth) * BinWidth \in 0 .. BinWidth - 1
  <2> HIDE DEF x
  <2>1. QED
    BY <1>4, Whole
<1>6. (x \div BinWidth) * BinWidth \in Int
  BY <1>5
<1>7. QED
  <2> DEFINE m == (x \div BinWidth) * BinWidth
  <2>1. m \in Int /\ x - m \in 0 .. BinWidth - 1
    BY <1>5, <1>6
  <2>2. Highest(r) - (Lowest(r) + m) = x - m
    <3> HIDE DEF m
    <3>1. QED
      BY <1>2, <1>3, <2>1
  <2>3. QED
    BY <1>2, <1>3, <1>4, <1>5, <2>1, <2>2

(* The invariant holds initially.                                          *)
LEMMA Initially == InitRestart => IInv
BY DEF InitRestart, Init, IInv, WindowTypeOK, SameLadder, Configured, Extended, WholeBins,
       Inside, Cut

(* A step that changes only the control of ranks that are past the cut, or *)
(* stops them, keeps the invariant.                                        *)
LEMMA ControlOnly ==
  ASSUME IInv, UNCHANGED <<E, ladder, window, D1BINS>>,
         pc' \in [Rank -> Cut \cup {"ptEmin", "ptEmax", "extend", "bins", "dead"}],
         \A r \in Rank : \/ pc'[r] = pc[r]
                         \/ pc'[r] = "dead"
                         \/ pc[r] \in Cut \ {"relax"} /\ pc'[r] \in Cut \ {"relax"}
  PROVE  IInv'
<1>1. \A r \in Rank : Lowest(r)' = Lowest(r) /\ Highest(r)' = Highest(r)
  BY DEF Lowest, Highest, ladder
<1>2. WindowTypeOK' /\ SameLadder'
  BY DEF IInv, WindowTypeOK, SameLadder, ladder, window, Cut
<1>3. Configured' /\ Extended'
  BY <1>1 DEF IInv, Configured, Extended, window, Cut
<1>4. WholeBins'
  BY <1>1 DEF IInv, WholeBins, window, Cut
<1>5. Inside'
  BY DEF IInv, Inside, window, Cut
<1>6. QED
  BY <1>2, <1>3, <1>4, <1>5 DEF IInv

(* The steps of initWL() up to readg().                                    *)
LEMMA WindowSteps ==
  ASSUME IInv, WindowStep
  PROVE  IInv'
<1>1. WindowTypeOK /\ SameLadder /\ Configured /\ Extended /\ WholeBins /\ Inside
  BY DEF IInv
<1>2. CASE ReduceMin
  <2>1. \A r \in Rank : pc[r] = "ptEmin" /\ pc'[r] = "ptEmax"
    BY <1>2 DEF ReduceMin, AllAt, AllGoto
  <2>2. Min({E[q] : q \in Rank}) \in Int
    <3>1. \A q \in 0 .. NRanks - 1 : E[q] \in Int
      BY <1>1 DEF WindowTypeOK
    <3>2. PICK low \in Rank : \A p \in Rank : E[low] <= E[p]
      BY <3>1, Extremes
    <3>3. \E x \in {E[q] : q \in Rank} : \A y \in {E[q] : q \in Rank} : x <= y
      BY <3>2
    <3>4. QED
      BY <3>1, <3>3 DEF Min
  <2>3. WindowTypeOK' /\ SameLadder' /\ Configured'
    BY <1>1, <1>2, <2>1, <2>2
       DEF ReduceMin, AllGoto, WindowTypeOK, SameLadder, Configured, window
  <2>4. QED
    BY <2>1, <2>3 DEF IInv, Extended, WholeBins, Inside, Cut
<1>3. CASE ReduceMax
  <2>1. \A r \in Rank : pc[r] = "ptEmax" /\ pc'[r] = "extend"
    BY <1>3 DEF ReduceMax, AllAt, AllGoto
  <2>2. Max({E[q] : q \in Rank}) \in Int
    <3>1. \A q \in 0 .. NRanks - 1 : E[q] \in Int
      BY <1>1 DEF WindowTypeOK
    <3>2. PICK high \in Rank : \A p \in Rank : E[high] >= E[p]
      BY <3>1, Extremes
    <3>3. \E x \in {E[q] : q \in Rank} : \A y \in {E[q] : q \in Rank} : x >= y
      BY <3>2
    <3>4. QED
      BY <3>1, <3>3 DEF Max
  <2>3. WindowTypeOK' /\ SameLadder' /\ Configured'
    BY <1>1, <1>3, <2>1, <2>2
       DEF ReduceMax, AllGoto, WindowTypeOK, SameLadder, Configured, window
  <2>4. QED
    BY <2>1, <2>3 DEF IInv, Extended, WholeBins, Inside, Cut
<1>4. ASSUME NEW r \in Rank, Extend(r) PROVE IInv'
  <2>1. /\ WLD1min' = [WLD1min EXCEPT ![r] = Lowest(r)]
        /\ WLD1max' = [WLD1max EXCEPT ![r] = Highest(r)]
        /\ pc' = [pc EXCEPT ![r] = "bins"]
        /\ UNCHANGED <<E, ptEmin, ptEmax, D1BINS>>
    BY <1>1, <1>4 DEF Extend, Goto, Configured, WindowTypeOK, Lowest, Highest, ladder
  <2>2. \A s \in Rank : Lowest(s)' = Lowest(s) /\ Highest(s)' = Highest(s)
    BY <2>1 DEF Lowest, Highest
  <2>3. Lowest(r) \in Int /\ Highest(r) \in Int
    BY <1>1, Ends
  <2>4. WindowTypeOK' /\ SameLadder' /\ Configured'
    BY <1>1, <2>1, <2>3 DEF WindowTypeOK, SameLadder, Configured
  <2>5. Extended' /\ WholeBins' /\ Inside'
    BY <1>1, <2>1, <2>2 DEF WindowTypeOK, Extended, WholeBins, Inside, Cut
  <2>6. QED
    BY <2>4, <2>5 DEF IInv
<1>5. ASSUME NEW r \in Rank, CutBins(r) PROVE IInv'
  <2> DEFINE bins == (Highest(r) - Lowest(r)) \div BinWidth
  <2>1. /\ WLD1min[r] = Lowest(r) /\ WLD1max[r] = Highest(r) /\ pc[r] = "bins"
        /\ UNCHANGED <<E, ptEmin, ptEmax, WLD1min>>
        /\ pc' = [pc EXCEPT ![r] = "relax"]
    BY <1>1, <1>5 DEF CutBins, Goto, Extended, ladder
  <2>2. /\ D1BINS' = [D1BINS EXCEPT ![r] = bins]
        /\ WLD1max' = [WLD1max EXCEPT ![r] = Lowest(r) + bins * BinWidth]
    BY <1>5, <2>1 DEF CutBins
  <2>3. \A s \in Rank : Lowest(s)' = Lowest(s) /\ Highest(s)' = Highest(s)
    BY <2>1 DEF Lowest, Highest
  <2>4. Lowest(r) \in Int /\ bins \in Nat
    BY <1>1, Ends
  <2>5. Lowest(r) + bins * BinWidth \in Int
    BY <2>4
  <2>6. WindowTypeOK' /\ SameLadder'
    BY <1>1, <2>1, <2>2, <2>4, <2>5 DEF WindowTypeOK, SameLadder
  <2>7. Configured' /\ Extended' /\ Inside'
    BY <1>1, <2>1, <2>2, <2>3 DEF WindowTypeOK, Configured, Extended, Inside, Cut
  <2>8. WholeBins'
    BY <1>1, <2>1, <2>2, <2>3 DEF WindowTypeOK, WholeBins, Cut
  <2>9. QED
    BY <2>6, <2>7, <2>8 DEF IInv
<1>6. ASSUME NEW r \in Rank, Relax(r) PROVE IInv'
  <2>1. PICK e \in Energies : E' = [E EXCEPT ![r] = e]
    BY <1>6 DEF Relax
  <2>2. pc[r] = "relax" /\ UNCHANGED <<pc, ptEmin, ptEmax, WLD1min, WLD1max, D1BINS>>
    BY <1>6 DEF Relax, ladder, window
  <2>3. \A s \in Rank : Lowest(s)' = Lowest(s) /\ Highest(s)' = Highest(s)
    BY <2>2 DEF Lowest, Highest
  <2>4. WindowTypeOK' /\ SameLadder' /\ Configured'
    BY <1>1, <2>1, <2>2 DEF WindowTypeOK, SameLadder, Configured
  <2>5. Extended' /\ WholeBins'
    BY <1>1, <2>2, <2>3 DEF Extended, WholeBins
  <2>6. Inside'
    BY <1>1, <2>1, <2>2 DEF WindowTypeOK, Inside
  <2>7. QED
    BY <2>4, <2>5, <2>6 DEF IInv
<1>7. ASSUME NEW r \in Rank, Relaxed(r) PROVE IInv'
  <2>1. /\ pc[r] = "relax" /\ pc' = [pc EXCEPT ![r] = "readg"]
        /\ UNCHANGED <<E, ptEmin, ptEmax, WLD1min, WLD1max, D1BINS>>
    BY <1>7 DEF Relaxed, Goto, ladder, window
  <2>2. \A s \in Rank : Lowest(s)' = Lowest(s) /\ Highest(s)' = Highest(s)
    BY <2>1 DEF Lowest, Highest
  <2>3. E[r] <= WLD1max[r]
    <3>1. E[r] \in Int /\ WLD1max[r] \in Int
      BY <1>1 DEF WindowTypeOK
    <3>2. ~(E[r] > WLD1max[r])
      BY <1>7 DEF Relaxed, NeedsRelaxation
    <3>3. QED
      BY <3>1, <3>2
  <2>4. WindowTypeOK' /\ SameLadder' /\ Configured'
    BY <1>1, <2>1 DEF WindowTypeOK, SameLadder, Configured
  <2>5. Extended' /\ WholeBins' /\ Inside'
    BY <1>1, <2>1, <2>2, <2>3 DEF WindowTypeOK, Extended, WholeBins, Inside, Cut
  <2>6. QED
    BY <2>4, <2>5 DEF IInv
<1>8. QED
  BY <1>2, <1>3, <1>4, <1>5, <1>6, <1>7 DEF WindowStep

(* Every step keeps the invariant.                                         *)
LEMMA NextKeeps ==
  ASSUME IInv, [Next]_allVars
  PROVE  IInv'
<1> DEFINE Controls == Cut \cup {"ptEmin", "ptEmax", "extend", "bins", "dead"}
           Unmoved == UNCHANGED <<E, ladder, window, D1BINS>>
<1>1. pc \in [Rank -> Controls] /\ 0 \in Rank
  BY DEF IInv, WindowTypeOK, Cut
<1>2. ASSUME Unmoved, pc' = pc PROVE IInv'
  BY <1>1, <1>2, ControlOnly
<1>3. ASSUME Unmoved, Die PROVE IInv'
  BY <1>3, ControlOnly DEF Die
<1>4. ASSUME Unmoved, NEW a \in Cut \ {"relax"}, NEW b \in Cut \ {"relax"},
             AllAt(a), AllGoto(b)
      PROVE  IInv'
  <2>1. pc' \in [Rank -> Controls]
    BY <1>4 DEF AllGoto
  <2>2. \A r \in Rank : pc[r] \in Cut \ {"relax"} /\ pc'[r] \in Cut \ {"relax"}
    BY <1>4 DEF AllAt, AllGoto
  <2>3. QED
    BY <1>4, <2>1, <2>2, ControlOnly
<1>5. \A factor : LoopOrProduction(factor) \in Cut \ {"relax"}
  BY DEF LoopOrProduction, Cut
<1>6. "barrier" \in Cut \ {"relax"} /\ "wl" \in Cut \ {"relax"} /\ "done" \in Cut \ {"relax"}
      /\ "production" \in Cut \ {"relax"} /\ "readg" \in Cut \ {"relax"}
  BY DEF Cut
<1>7. CASE WindowStep
  BY <1>7, WindowSteps
<1>8. CASE Begin
  BY <1>4, <1>5, <1>6, <1>8 DEF Begin, windowVars
<1>9. CASE Sweep
  BY <1>2, <1>9 DEF Sweep, vars, ladder, window
<1>10. CASE Checkpoint
  BY <1>2, <1>10 DEF Checkpoint, vars, ladder, window
<1>11. CASE EndLevel
  BY <1>4, <1>5, <1>6, <1>11 DEF EndLevel, windowVars
<1>12. CASE EndProduction
  BY <1>4, <1>6, <1>12 DEF EndProduction, windowVars
<1>13. CASE Crash
  BY <1>3, <1>13 DEF Crash, windowVars
<1>14. CASE CrashInFile
  BY <1>3, <1>14 DEF CrashInFile, windowVars
<1>15. CASE Submit
  <2>1. /\ E' \in [Rank -> Energies] /\ pc' = [r \in Rank |-> "ptEmin"]
        /\ ptEmin' = [r \in Rank |-> 0] /\ ptEmax' = [r \in Rank |-> 0]
        /\ WLD1min' = [r \in Rank |-> ConfigMin]
        /\ WLD1max' = [r \in Rank |-> ConfigMax]
        /\ D1BINS' = [r \in Rank |-> 0]
    BY <1>15 DEF Submit, AllGoto
  <2>2. QED
    BY <2>1 DEF IInv, WindowTypeOK, SameLadder, Configured, Extended, WholeBins, Inside, Cut
<1>16. ASSUME NEW r \in Rank, readg(r) PROVE IInv'
  <2>1. pc[r] = "readg" /\ pc' = [pc EXCEPT ![r] = "barrier"] /\ Unmoved
    BY <1>16 DEF readg, Goto, windowVars
  <2>2. pc' \in [Rank -> Controls]
    BY <1>1, <1>6, <2>1
  <2>3. QED
    BY <1>1, <1>6, <2>1, <2>2, ControlOnly
<1>17. CASE UNCHANGED allVars
  BY <1>2, <1>17 DEF allVars, vars, ladder, window
<1>18. QED
  BY <1>7, <1>8, <1>9, <1>10, <1>11, <1>12, <1>13, <1>14, <1>15, <1>16, <1>17 DEF Next

(* The invariant holds in every reachable state.                           *)
LEMMA Invariance == Spec => []IInv
<1>1. InitRestart => IInv
  BY Initially
<1>2. IInv /\ [Next]_allVars => IInv'
  BY NextKeeps
<1>3. QED
  BY <1>1, <1>2, PTL DEF Spec

(* Every variable of the window has its type: in particular no rank ever   *)
(* counts a negative number of bins.                                       *)
THEOREM WindowTyped == Spec => []WindowTypeOK
<1>1. IInv => WindowTypeOK
  BY DEF IInv
<1>2. QED
  BY <1>1, Invariance, PTL

(* For every number of ranks, window, bin width and set of energies, and   *)
(* for every sequence of crashes and restarts: the ranks that merge their  *)
(* histograms have the same window and the same number of bins.            *)
THEOREM RanksShareTheWindow == Spec => []SameWindow
<1>1. IInv => SameWindow
  <2> SUFFICES ASSUME IInv, AllAt("wl") \/ AllAt("production"),
                      NEW r \in Rank, NEW s \in Rank
               PROVE  WLD1min[r] = WLD1min[s] /\ WLD1max[r] = WLD1max[s]
                      /\ D1BINS[r] = D1BINS[s]
    BY DEF SameWindow
  <2>1. pc[r] \in Cut /\ pc[s] \in Cut
    BY DEF AllAt, Cut
  <2>2. Lowest(r) = Lowest(s) /\ Highest(r) = Highest(s)
    BY DEF IInv, SameLadder, Lowest, Highest
  <2>3. QED
    BY <2>1, <2>2 DEF IInv, WholeBins
<1>2. QED
  BY <1>1, Invariance, PTL

(* Likewise, the final window holds the configured one and the ladder's    *)
(* energies but for less than one bin, and no walker is above it.          *)
THEOREM WalkersBelowTheEdge == Spec => []NotAboveWindow
<1>1. IInv => NotAboveWindow
  <2> SUFFICES ASSUME IInv, NEW r \in Rank, pc[r] \in {"readg", "barrier", "wl"}
               PROVE  /\ E[r] <= WLD1max[r]
                      /\ WLD1min[r] = Lowest(r)
                      /\ Highest(r) - WLD1max[r] \in 0 .. BinWidth - 1
                      /\ WLD1max[r] = WLD1min[r] + D1BINS[r] * BinWidth
    BY DEF NotAboveWindow, Lowest, Highest
  <2>1. pc[r] \in Cut \ {"relax"}
    BY DEF Cut
  <2>2. E[r] <= WLD1max[r]
    BY <2>1 DEF IInv, Inside
  <2>3. /\ WLD1min[r] = Lowest(r)
        /\ D1BINS[r] = (Highest(r) - Lowest(r)) \div BinWidth
        /\ WLD1max[r] = Lowest(r) + D1BINS[r] * BinWidth
    BY <2>1 DEF IInv, WholeBins
  <2>4. Highest(r) - WLD1max[r] \in 0 .. BinWidth - 1
    BY <2>3, Ends DEF IInv
  <2>5. QED
    BY <2>2, <2>3, <2>4
<1>2. QED
  BY <1>1, Invariance, PTL

(***************************************************************************)
(* The factors of the levels.                                              *)
(***************************************************************************)
(* Induction over the natural numbers, from the least one that is missing. *)
LEMMA FromZeroOn ==
  ASSUME NEW S \in SUBSET Nat, 0 \in S, \A n \in S : n + 1 \in S
  PROVE  \A n \in Nat : n \in S
<1> DEFINE Missing == Nat \ S
<1>1. SUFFICES ASSUME Missing # {} PROVE FALSE
  OBVIOUS
<1>2. PICK k \in Missing : \A j \in Missing : <<j, k>> \notin OpToRel(<, Nat)
  BY <1>1, WFMin, NatLessThanWellFounded, Zenon
<1>3. \A j \in Missing : ~(j < k)
  BY <1>2, Zenon DEF OpToRel
<1>4. k \in Nat /\ k # 0
  OBVIOUS
<1>5. k - 1 \in Nat /\ k - 1 < k /\ (k - 1) + 1 = k
  BY <1>4
<1>6. k - 1 \in S
  BY <1>3, <1>5
<1>7. k \in S
  BY <1>5, <1>6
<1>8. QED
  BY <1>7

(* A beginning of the powers of the iteration factor.                      *)
PowersUpTo(f, n) == /\ f \in [0 .. n -> Nat \ {0}] /\ f[0] = 1
                    /\ \A m \in 1 .. n : f[m] = IterationFactor * f[m - 1]

(* For every n there is one.                                               *)
LEMMA PowersBegin == \A n \in Nat : \E f : PowersUpTo(f, n)
<1> DEFINE S == {n \in Nat : \E f : PowersUpTo(f, n)}
<1>1. 0 \in S
  <2>1. PowersUpTo([m \in 0 .. 0 |-> 1], 0)
    BY DEF PowersUpTo
  <2>2. QED
    BY <2>1
<1>2. ASSUME NEW n \in S PROVE n + 1 \in S
  <2>1. PICK f : PowersUpTo(f, n)
    OBVIOUS
  <2> DEFINE g == [m \in 0 .. n + 1 |-> IF m = n + 1 THEN IterationFactor * f[n] ELSE f[m]]
  <2>2. /\ n \in Nat /\ n \in 0 .. n /\ 0 \in 0 .. n
        /\ f \in [0 .. n -> Nat \ {0}] /\ f[0] = 1
        /\ \A m \in 1 .. n : f[m] = IterationFactor * f[m - 1]
    BY <2>1 DEF PowersUpTo
  <2>3. IterationFactor * f[n] \in Nat \ {0}
    BY <2>2, RestartAssumption
  <2>4. g \in [0 .. n + 1 -> Nat \ {0}] /\ g[0] = 1
    BY <2>2, <2>3
  <2>5. ASSUME NEW m \in 1 .. n + 1 PROVE g[m] = IterationFactor * g[m - 1]
    <3>1. m - 1 \in 0 .. n /\ m - 1 # n + 1 /\ m \in 0 .. n + 1
      BY <2>2
    <3>2. g[m - 1] = f[m - 1]
      BY <2>2, <3>1
    <3>3. CASE m = n + 1
      BY <2>2, <3>1, <3>2, <3>3
    <3>4. CASE m # n + 1
      <4>1. m \in 1 .. n
        BY <2>2, <3>4
      <4>2. QED
        BY <2>2, <3>1, <3>2, <3>4, <4>1
    <3>5. QED
      BY <3>3, <3>4
  <2>6. PowersUpTo(g, n + 1)
    <3> HIDE DEF g
    <3>1. QED
      BY <2>4, <2>5 DEF PowersUpTo
  <2>7. QED
    BY <2>2, <2>6
<1> HIDE DEF S
<1>3. S \in SUBSET Nat
  BY DEF S
<1>4. QED
  BY <1>1, <1>2, <1>3, FromZeroOn DEF S

(* Two of them agree as far as both go.                                    *)
LEMMA PowersUnique ==
  ASSUME NEW n \in Nat, NEW f, PowersUpTo(f, n), NEW g, PowersUpTo(g, n + 1)
  PROVE  f[n] = g[n]
<1> DEFINE S == {m \in Nat : m <= n => f[m] = g[m]}
<1>1. 0 \in S
  BY DEF PowersUpTo
<1>2. ASSUME NEW m \in S PROVE m + 1 \in S
  <2>1. CASE m + 1 <= n
    <3>1. m \in Nat /\ m <= n /\ m + 1 \in 1 .. n /\ m + 1 \in 1 .. n + 1 /\ (m + 1) - 1 = m
      BY <2>1
    <3>2. f[m + 1] = IterationFactor * f[m] /\ g[m + 1] = IterationFactor * g[m]
      BY <3>1 DEF PowersUpTo
    <3>3. QED
      BY <3>1, <3>2
  <2>2. CASE ~(m + 1 <= n)
    BY <2>2
  <2>3. QED
    BY <2>1, <2>2
<1>3. \A m \in Nat : m \in S
  <2>1. S \in SUBSET Nat
    OBVIOUS
  <2> HIDE DEF S
  <2>2. QED
    BY <1>1, <1>2, <2>1, FromZeroOn
<1>4. QED
  BY <1>3

(* Power is what its definition says.                                      *)
LEMMA Powers ==
  /\ Power \in [Nat -> Nat \ {0}] /\ Power[0] = 1
  /\ \A n \in Nat : Power[n + 1] = Power[n] * IterationFactor
<1> DEFINE h(n) == CHOOSE f : PowersUpTo(f, n)
           G == [n \in Nat |-> h(n)[n]]
<1>1. \A n \in Nat : PowersUpTo(h(n), n)
  BY PowersBegin
<1> HIDE DEF h
<1>2. \A n \in Nat : G[n] \in Nat \ {0}
  BY <1>1 DEF PowersUpTo
<1>3. G[0] = 1
  BY <1>1 DEF PowersUpTo
<1>4. ASSUME NEW n \in Nat PROVE G[n + 1] = IterationFactor * G[n]
  <2>1. PowersUpTo(h(n), n) /\ PowersUpTo(h(n + 1), n + 1)
    BY <1>1
  <2>2. h(n)[n] = h(n + 1)[n]
    BY <2>1, PowersUnique
  <2>3. n + 1 \in 1 .. n + 1 /\ (n + 1) - 1 = n
    OBVIOUS
  <2>4. h(n + 1)[n + 1] = IterationFactor * h(n + 1)[n]
    BY <2>1, <2>3 DEF PowersUpTo
  <2>5. QED
    BY <2>2, <2>4
<1>5. G = [n \in Nat |-> IF n = 0 THEN 1 ELSE IterationFactor * G[n - 1]]
  <2>1. ASSUME NEW n \in Nat
        PROVE  G[n] = IF n = 0 THEN 1 ELSE IterationFactor * G[n - 1]
    <3>1. CASE n = 0
      BY <1>3, <3>1
    <3>2. CASE n # 0
      <4>1. n - 1 \in Nat /\ (n - 1) + 1 = n
        BY <3>2
      <4>2. G[(n - 1) + 1] = IterationFactor * G[n - 1]
        BY <1>4, <4>1
      <4>3. QED
        BY <3>2, <4>1, <4>2
    <3>3. QED
      BY <3>1, <3>2
  <2>2. QED
    BY <2>1
<1> HIDE DEF G
<1>6. Power = [n \in Nat |-> IF n = 0 THEN 1 ELSE IterationFactor * Power[n - 1]]
  BY <1>5 DEF Power
<1> DEFINE S == {n \in Nat : Power[n] \in Nat \ {0}}
<1>7. 0 \in S
  BY <1>6
<1>8. \A n \in Nat : Power[n + 1] = IterationFactor * Power[n]
  <2>1. ASSUME NEW n \in Nat PROVE Power[n + 1] = IterationFactor * Power[n]
    <3>1. n + 1 \in Nat /\ n + 1 # 0 /\ (n + 1) - 1 = n
      OBVIOUS
    <3>2. \A m \in Nat : Power[m] = IF m = 0 THEN 1 ELSE IterationFactor * Power[m - 1]
      BY <1>6
    <3>3. Power[n + 1] = IterationFactor * Power[(n + 1) - 1]
      BY <3>1, <3>2
    <3>4. QED
      BY <3>1, <3>3
  <2>2. QED
    BY <2>1
<1>9. ASSUME NEW n \in S PROVE n + 1 \in S
  <2>1. n \in Nat /\ Power[n] \in Nat \ {0}
    OBVIOUS
  <2>2. IterationFactor * Power[n] \in Nat \ {0}
    BY <2>1, RestartAssumption
  <2>3. QED
    BY <1>8, <2>1, <2>2
<1>10. \A n \in Nat : n \in S
  <2>1. S \in SUBSET Nat
    OBVIOUS
  <2> HIDE DEF S
  <2>2. QED
    BY <1>7, <1>9, <2>1, FromZeroOn
<1>11. \A n \in Nat : Power[n] \in Nat \ {0}
  BY <1>10
<1>12. Power \in [Nat -> Nat \ {0}]
  BY <1>6, <1>11
<1>13. Power[0] = 1
  BY <1>6
<1>14. \A n \in Nat : Power[n + 1] = Power[n] * IterationFactor
  BY <1>8, <1>11, RestartAssumption
<1>15. QED
  BY <1>12, <1>13, <1>14

(* Dividing twice is dividing by the product.                              *)
LEMMA DivDiv ==
  ASSUME NEW x \in Nat, NEW a \in Nat \ {0}, NEW b \in Nat \ {0}
  PROVE  (x \div a) \div b = x \div (a * b)
<1> DEFINE q == x \div a
           e == x % a
           p == q \div b
           d == q % b
<1>1. q \in Nat /\ e \in 0 .. a - 1 /\ x = a * q + e
  OBVIOUS
<1>2. p \in Nat /\ d \in 0 .. b - 1 /\ q = b * p + d
  <2> HIDE DEF q
  <2>1. QED
    BY <1>1
<1> HIDE DEF q, e, p, d
<1>3. x = (a * b) * p + (a * d + e)
  BY <1>1, <1>2
<1>4. a * d + e \in 0 .. (a * b) - 1
  <2>1. a * d <= a * (b - 1)
    BY <1>2
  <2>2. a * (b - 1) = a * b - a
    OBVIOUS
  <2>3. a * d \in Nat /\ a * b \in Nat
    BY <1>2
  <2> DEFINE u == a * d
             v == a * b
             w == a * (b - 1)
  <2>4. u \in Nat /\ v \in Nat /\ u <= w /\ w = v - a
    BY <2>1, <2>2, <2>3
  <2> HIDE DEF u, v, w
  <2>5. u + e \in 0 .. v - 1
    BY <1>1, <2>4
  <2>6. QED
    BY <2>5 DEF u, v
<1>5. a * b \in Nat \ {0}
  OBVIOUS
<1>6. x \div (a * b) = p
  <2> DEFINE v == a * b
             y == a * d + e
  <2>1. v \in Nat \ {0} /\ y \in 0 .. v - 1 /\ x = v * p + y
    BY <1>3, <1>4, <1>5
  <2> HIDE DEF v, y
  <2>2. x \div v = p
    BY <1>2, <2>1
  <2>3. QED
    BY <2>2 DEF v
<1>7. QED
  BY <1>6 DEF p, q

(***************************************************************************)
(* Level numbers, factors and cuts.                                        *)
(***************************************************************************)
Early == {"ptEmin", "ptEmax", "extend", "bins", "relax", "readg"}
Read == {"barrier", "wl", "production", "done"}
Running == Read \ {"barrier"}

Factor(n) == ModFactorStart \div Power[n - 1]
Unstopped(r) == FirstE_0(r) - (numf[r] - 1) * (D1BINS[r] \div CutStep)
Files == {gdat} \cup {dos[n] : n \in 1 .. MaxNumf}

WellNumbered(g) == g.numf \in Nat \ {0} /\ g.lnwlf = Factor(g.numf)

LevelTypes == /\ numf \in [Rank -> Nat \ {0}]
              /\ ModFactorInit \in [Rank -> Nat] /\ lnwlf \in [Rank -> Nat]
              /\ E_0 \in [Rank -> Int] /\ wllng = [r \in Rank |-> wllng[r]]
              /\ dos = [n \in 1 .. MaxNumf |-> dos[n]]
FilesNumbered == \A g \in Files : HasHeader(g) => WellNumbered(g)
AtLevel(r) == /\ pc[r] \in Early => numf[r] = 1 /\ ModFactorInit[r] = ModFactorStart
              /\ pc[r] = "barrier" => ModFactorInit[r] = Factor(numf[r])
              /\ pc[r] \in Running => lnwlf[r] = Factor(numf[r])
              /\ pc[r] \in Read => E_0[r] \in Unstopped(r) - (numf[r] - 1) .. Unstopped(r)

Leveled == LevelTypes /\ FilesNumbered /\ \A r \in Rank : AtLevel(r)

USE RestartAssumption

(* The factors are natural numbers, from that of the first level on, and   *)
(* each is that of the level before, divided once more.                    *)
LEMMA Factors ==
  /\ Factor(1) = ModFactorStart
  /\ \A n \in Nat \ {0} : Factor(n) \in Nat /\ Factor(n + 1) = Factor(n) \div IterationFactor
<1>1. Factor(1) = ModFactorStart
  BY Powers DEF Factor
<1>2. ASSUME NEW n \in Nat \ {0}
      PROVE  Factor(n) \in Nat /\ Factor(n + 1) = Factor(n) \div IterationFactor
  <2> DEFINE p == Power[n - 1]
  <2>1. n - 1 \in Nat /\ (n + 1) - 1 = (n - 1) + 1
    OBVIOUS
  <2>2. p \in Nat \ {0} /\ Power[(n - 1) + 1] = p * IterationFactor
    BY <2>1, Powers
  <2> HIDE DEF p
  <2>3. ModFactorStart \div p \in Nat
    BY <2>2
  <2>4. (ModFactorStart \div p) \div IterationFactor = ModFactorStart \div (p * IterationFactor)
    <3>1. ModFactorStart \in Nat /\ IterationFactor \in Nat \ {0}
      OBVIOUS
    <3>2. \A a, b \in Nat \ {0} : (ModFactorStart \div a) \div b = ModFactorStart \div (a * b)
      BY <3>1, DivDiv
    <3>3. QED
      BY <2>2, <3>1, <3>2, Zenon
  <2>5. QED
    BY <2>1, <2>2, <2>3, <2>4 DEF Factor, p
<1>3. QED
  BY <1>1, <1>2

(* Multiplying before dividing lowers the cut by less than one bin per     *)
(* level more than dividing first.                                         *)
LEMMA Truncated ==
  ASSUME NEW m \in Nat, NEW d \in Nat, NEW c \in Nat \ {0}
  PROVE  (m * d) \div c \in m * (d \div c) .. m * (d \div c) + m
<1> DEFINE q == d \div c
           e == d % c
<1>1. q \in Nat /\ e \in 0 .. c - 1 /\ d = c * q + e
  OBVIOUS
<1> HIDE DEF q, e
<1>2. m * d = c * (m * q) + m * e
  BY <1>1
<1>3. m * e \in Nat /\ m * e <= m * c /\ m * q \in Nat
  BY <1>1
<1>4. (m * d) \div c \in m * q .. m * q + m
  <2> DEFINE u == m * e
             v == m * q
             k == (m * d) \div c
             z == (m * d) % c
  <2>1. k \in Nat /\ z \in 0 .. c - 1 /\ m * d = c * k + z
    <3>1. m * d \in Nat
      OBVIOUS
    <3>2. QED
      BY <3>1
  <2>2. u \in Nat /\ v \in Nat /\ u <= m * c
    BY <1>3
  <2>3. c * v + u = c * k + z
    BY <1>2, <2>1
  <2> HIDE DEF u, v, k, z
  <2>4. v <= k
    <3>1. SUFFICES ASSUME k + 1 <= v PROVE FALSE
      BY <2>1, <2>2
    <3>2. c * (k + 1) <= c * v
      BY <2>1, <2>2, <3>1
    <3>3. c * (k + 1) = c * k + c
      BY <2>1
    <3>4. c * k \in Nat /\ c * v \in Nat
      BY <2>1, <2>2
    <3>5. QED
      BY <2>1, <2>2, <2>3, <3>2, <3>3, <3>4
  <2>5. k <= v + m
    <3>1. SUFFICES ASSUME v + m + 1 <= k PROVE FALSE
      BY <2>1, <2>2
    <3>2. c * (v + m + 1) <= c * k
      BY <2>1, <2>2, <3>1
    <3>3. c * (v + m + 1) = c * v + m * c + c
      BY <2>2
    <3>4. c * k \in Nat /\ c * v \in Nat /\ m * c \in Nat
      BY <2>1, <2>2
    <3>5. QED
      BY <2>1, <2>2, <2>3, <3>2, <3>3, <3>4
  <2>6. k \in v .. v + m
    BY <2>1, <2>2, <2>4, <2>5
  <2>7. QED
    BY <2>6 DEF k, v
<1>5. QED
  BY <1>4 DEF q

(* A step towards the window changes nothing that the ranks past the       *)
(* barrier use.                                                            *)
LEMMA TowardsWindow ==
  ASSUME WindowTypeOK, WindowStep, NEW r \in Rank
  PROVE  \/ pc[r] \in Early /\ pc'[r] \in Early
         \/ pc'[r] = pc[r] /\ D1BINS'[r] = D1BINS[r] /\ WLD1min'[r] = WLD1min[r]
<1>1. CASE ReduceMin
  BY <1>1 DEF ReduceMin, AllAt, AllGoto, Early
<1>2. CASE ReduceMax
  BY <1>2 DEF ReduceMax, AllAt, AllGoto, Early
<1>3. ASSUME NEW s \in Rank, Extend(s) \/ CutBins(s) \/ Relax(s) \/ Relaxed(s)
      PROVE  \/ pc[r] \in Early /\ pc'[r] \in Early
             \/ pc'[r] = pc[r] /\ D1BINS'[r] = D1BINS[r] /\ WLD1min'[r] = WLD1min[r]
  <2>1. CASE Extend(s)
    BY <2>1 DEF WindowTypeOK, Extend, Goto, Early
  <2>2. CASE CutBins(s)
    BY <2>2 DEF WindowTypeOK, CutBins, Goto, Early
  <2>3. CASE Relax(s)
    BY <2>3 DEF WindowTypeOK, Relax, window, Early
  <2>4. CASE Relaxed(s)
    BY <2>4 DEF WindowTypeOK, Relaxed, Goto, window, Early
  <2>5. QED
    BY <1>3, <2>1, <2>2, <2>3, <2>4
<1>4. QED
  BY <1>1, <1>2, <1>3 DEF WindowStep

(* The first job begins at the first level, without files.                 *)
LEMMA LeveledInitially == InitRestart => Leveled
<1> SUFFICES ASSUME InitRestart PROVE Leveled
  OBVIOUS
<1>1. LevelTypes
  BY DEF InitRestart, LevelTypes
<1>2. FilesNumbered
  BY DEF InitRestart, FilesNumbered, Files, HasHeader
<1>3. \A r \in Rank : AtLevel(r)
  BY DEF InitRestart, Init, AtLevel, Early, Read, Running
<1>4. QED
  BY <1>1, <1>2, <1>3 DEF Leveled

(* A step that writes no file but one of its own level.                    *)
LEMMA WritesItsLevel ==
  ASSUME WindowTypeOK, Leveled, AllAt("wl") \/ AllAt("production"), gdat' = gdat,
         NEW part, HasHeader(part) => part.numf = numf[0] /\ part.lnwlf = lnwlf[0],
         dos' = [dos EXCEPT ![numf[0]] = part]
  PROVE  /\ dos' = [n \in 1 .. MaxNumf |-> dos'[n]]
         /\ FilesNumbered'
<1>1. 0 \in Rank /\ numf[0] \in Nat \ {0}
  <2>1. 0 \in Rank
    OBVIOUS
  <2>2. QED
    BY <2>1 DEF Leveled, LevelTypes
<1>2. lnwlf[0] = Factor(numf[0])
  BY <1>1 DEF Leveled, AtLevel, AllAt, Running, Read
<1>3. HasHeader(part) => WellNumbered(part)
  BY <1>1, <1>2 DEF WellNumbered
<1>4. dos' = [n \in 1 .. MaxNumf |-> dos'[n]]
  BY DEF Leveled, LevelTypes
<1>5. \A n \in 1 .. MaxNumf : dos'[n] \in Files \cup {part}
  BY DEF Leveled, LevelTypes, Files
<1>6. ASSUME NEW g \in Files' PROVE g \in Files \cup {part}
  BY <1>5 DEF Files
<1>7. \A g : HasHeader(g)' <=> HasHeader(g)
  BY DEF HasHeader
<1>8. \A g : WellNumbered(g)' <=> WellNumbered(g)
  BY DEF WellNumbered, Factor
<1>9. QED
  BY <1>3, <1>4, <1>6, <1>7, <1>8 DEF Leveled, FilesNumbered

(* What write_DOS_H() writes.                                              *)
LEMMA Written == /\ DosFile.numf = numf[0] /\ DosFile.lnwlf = lnwlf[0]
                 /\ DosFile.min = WLD1min[0] /\ DosFile.bins = D1BINS[0]
                 /\ DosFile.rows = [x \in 1 .. D1BINS[0] |-> wllng[0][x - 1]]
BY DEF DosFile

(* A step that writes no file, though it may copy one to g.dat.            *)
LEMMA SameFiles ==
  ASSUME Leveled, dos' = dos, gdat' \in Files
  PROVE  FilesNumbered'
<1>1. Files' \subseteq Files
  BY DEF Files
<1>2. \A g : HasHeader(g)' <=> HasHeader(g)
  BY DEF HasHeader
<1>3. \A g : WellNumbered(g)' <=> WellNumbered(g)
  BY DEF WellNumbered, Factor
<1>4. QED
  BY <1>1, <1>2, <1>3 DEF Leveled, FilesNumbered

(* A rank that stays at its level, keeps its window, and does not pass the *)
(* barrier.                                                                *)
LEMMA StaysAtLevel ==
  ASSUME NEW r \in Rank, AtLevel(r), numf'[r] = numf[r], ModFactorInit'[r] = ModFactorInit[r],
         lnwlf'[r] = lnwlf[r], E_0'[r] = E_0[r],
         \/ pc'[r] = "dead"
         \/ pc[r] \in Early /\ pc'[r] \in Early
         \/ /\ D1BINS'[r] = D1BINS[r]
            /\ \/ pc'[r] = pc[r]
               \/ pc[r] \in Running /\ pc'[r] \in Running
  PROVE  AtLevel(r)'
<1>1. Factor(numf[r])' = Factor(numf[r])
  BY DEF Factor
<1>2. CASE pc'[r] = "dead"
  BY <1>2 DEF AtLevel, Early, Read, Running
<1>3. CASE pc[r] \in Early /\ pc'[r] \in Early
  BY <1>3 DEF AtLevel, Early, Read, Running
<1>4. CASE D1BINS'[r] = D1BINS[r] /\ (pc'[r] = pc[r] \/ (pc[r] \in Running /\ pc'[r] \in Running))
  <2>1. Unstopped(r)' = Unstopped(r)
    BY <1>4 DEF Unstopped, FirstE_0
  <2>2. QED
    BY <1>1, <1>4, <2>1 DEF AtLevel, Early, Read, Running
<1>5. QED
  BY <1>2, <1>3, <1>4

(* A run begins at the first level, whatever it stopped at.                *)
LEMMA Resubmitted ==
  ASSUME Leveled, Submit
  PROVE  Leveled'
<1>1. FreshLevels /\ AllGoto("ptEmin") /\ dos' = dos
  BY DEF Submit
<1>2. LevelTypes'
  BY <1>1 DEF FreshLevels, Leveled, LevelTypes
<1>3. gdat' \in Files
  BY DEF Submit, Leveled, LevelTypes, Files
<1>4. FilesNumbered'
  BY <1>1, <1>3, SameFiles
<1>5. \A r \in Rank : AtLevel(r)'
  BY <1>1 DEF FreshLevels, AllGoto, AtLevel, Early, Read, Running
<1>6. QED
  BY <1>2, <1>4, <1>5 DEF Leveled

(* readg() takes the number and the factor from one file, and the cut it   *)
(* computes is that of this number, but for the truncation.                *)
LEMMA ReadsItsLevel ==
  ASSUME WindowTypeOK, Leveled, NEW r \in Rank, readg(r)
  PROVE  Leveled'
<1>1. /\ pc[r] = "readg" /\ pc' = [pc EXCEPT ![r] = "barrier"]
      /\ UNCHANGED <<D1BINS, lnwlf, dos, gdat>>
  BY DEF readg, Goto, windowVars, files
<1>2. numf[r] = 1 /\ ModFactorInit[r] = ModFactorStart
  BY <1>1 DEF Leveled, AtLevel, Early
<1>3. gdat \in Files /\ (HasHeader(gdat) => WellNumbered(gdat))
  BY DEF Leveled, FilesNumbered, Files
<1>4. \E n \in Nat \ {0}, f \in Nat :
        /\ f = Factor(n)
        /\ numf' = [numf EXCEPT ![r] = n]
        /\ ModFactorInit' = [ModFactorInit EXCEPT ![r] = f]
  <2>1. CASE HasHeader(gdat)
    <3>1. /\ numf' = [numf EXCEPT ![r] = gdat.numf]
          /\ ModFactorInit' = [ModFactorInit EXCEPT ![r] = gdat.lnwlf]
      BY <2>1 DEF readg
    <3>2. gdat.numf \in Nat \ {0} /\ gdat.lnwlf = Factor(gdat.numf)
      BY <1>3, <2>1 DEF WellNumbered
    <3>3. gdat.lnwlf \in Nat
      BY <3>2, Factors
    <3>4. QED
      BY <3>1, <3>2, <3>3
  <2>2. CASE ~HasHeader(gdat)
    <3>1. numf' = numf /\ ModFactorInit' = ModFactorInit
      BY <2>2 DEF readg
    <3>2. numf' = [numf EXCEPT ![r] = 1] /\ ModFactorInit' = [ModFactorInit EXCEPT ![r] = ModFactorStart]
      BY <1>2, <3>1 DEF Leveled, LevelTypes
    <3>3. 1 \in Nat \ {0} /\ ModFactorStart \in Nat
      OBVIOUS
    <3>4. QED
      BY <3>2, <3>3, Factors
  <2>3. QED
    BY <2>1, <2>2
<1>5. PICK n \in Nat \ {0}, f \in Nat :
        /\ f = Factor(n)
        /\ numf' = [numf EXCEPT ![r] = n]
        /\ ModFactorInit' = [ModFactorInit EXCEPT ![r] = f]
  BY <1>4
<1>6. numf'[r] = n /\ ModFactorInit'[r] = f /\ numf' \in [Rank -> Nat \ {0}]
      /\ ModFactorInit' \in [Rank -> Nat]
  BY <1>5 DEF Leveled, LevelTypes
<1> DEFINE d == D1BINS[r]
           cut == FirstE_0(r) - ((n - 1) * d) \div CutStep
           unstopped == FirstE_0(r) - (n - 1) * (d \div CutStep)
<1>7. E_0' = [E_0 EXCEPT ![r] = cut]
  BY <1>6 DEF readg, CutOnRestart
<1>8. cut \in Int /\ cut \in unstopped - (n - 1) .. unstopped
  <2>1. d \in Nat /\ n - 1 \in Nat /\ FirstE_0(r) \in Nat /\ CutStep \in Nat \ {0}
    <3>1. D1BINS[r] \in Nat
      BY DEF WindowTypeOK
    <3>2. D1BINS[r] \div FirstCut \in Nat
      BY <3>1
    <3>3. QED
      BY <3>1, <3>2 DEF FirstE_0
  <2> DEFINE a == (n - 1) * (d \div CutStep)
             b == ((n - 1) * d) \div CutStep
  <2>2. b \in a .. a + (n - 1)
    <3> DEFINE m == n - 1
    <3>1. m \in Nat
      BY <2>1
    <3> HIDE DEF m, d
    <3>2. (m * d) \div CutStep \in m * (d \div CutStep) .. m * (d \div CutStep) + m
      BY <2>1, <3>1, Truncated
    <3>3. QED
      BY <3>2 DEF m
  <2>3. a \in Nat /\ b \in Nat
    <3> HIDE DEF d
    <3>1. d \div CutStep \in Nat /\ (n - 1) * d \in Nat
      BY <2>1
    <3>2. QED
      BY <2>1, <3>1
  <2>4. cut = FirstE_0(r) - b /\ unstopped = FirstE_0(r) - a
    OBVIOUS
  <2> HIDE DEF a, b, cut, unstopped, d
  <2>5. QED
    BY <2>1, <2>2, <2>3, <2>4
<1>9. LevelTypes'
  <2>1. E_0' \in [Rank -> Int]
    <3> HIDE DEF cut
    <3>1. QED
      BY <1>7, <1>8 DEF Leveled, LevelTypes
  <2>2. wllng' = [s \in Rank |-> wllng'[s]]
    BY DEF readg, Leveled, LevelTypes
  <2>3. QED
    BY <1>1, <1>6, <2>1, <2>2 DEF Leveled, LevelTypes
<1>10. FilesNumbered'
  BY <1>1, <1>3, SameFiles
<1>11. AtLevel(r)'
  <2>1. pc'[r] = "barrier" /\ E_0'[r] = cut
    BY <1>1, <1>7 DEF WindowTypeOK, Leveled, LevelTypes
  <2>2. Factor(numf[r])' = Factor(n)
    BY <1>6 DEF Factor
  <2>3. Unstopped(r)' = unstopped
    BY <1>1, <1>6 DEF Unstopped, FirstE_0
  <2>4. E_0'[r] \in Unstopped(r)' - (numf'[r] - 1) .. Unstopped(r)'
    <3> HIDE DEF cut, unstopped
    <3>1. QED
      BY <1>6, <1>8, <2>1, <2>3
  <2>5. QED
    BY <1>5, <1>6, <2>1, <2>2, <2>4 DEF AtLevel, Early, Read, Running
<1>12. ASSUME NEW s \in Rank, s # r PROVE AtLevel(s)'
  <2>1. /\ pc'[s] = pc[s] /\ numf'[s] = numf[s] /\ ModFactorInit'[s] = ModFactorInit[s]
        /\ lnwlf'[s] = lnwlf[s] /\ D1BINS'[s] = D1BINS[s]
    BY <1>1, <1>5, <1>12 DEF WindowTypeOK, Leveled, LevelTypes
  <2>2. E_0'[s] = E_0[s]
    <3> HIDE DEF cut
    <3>1. QED
      BY <1>7, <1>12 DEF Leveled, LevelTypes
  <2>3. QED
    BY <2>1, <2>2, StaysAtLevel DEF Leveled
<1>13. QED
  BY <1>9, <1>10, <1>11, <1>12 DEF Leveled

(* After a level there is another, or production.                          *)
LEMMA LoopFrom == \A factor : LoopOrProduction(factor) \in {"wl", "production"}
BY DEF LoopOrProduction

(* The loop of main() begins with the factor of the level that was read.   *)
LEMMA BeginsItsLevel ==
  ASSUME WindowTypeOK, Leveled, Begin
  PROVE  Leveled'
<1>1. /\ AllAt("barrier") /\ lnwlf' = ModFactorInit
      /\ UNCHANGED <<D1BINS, numf, ModFactorInit, E_0, wllng, dos, gdat>>
      /\ pc' = [r \in Rank |-> LoopOrProduction(ModFactorInit[0])]
  BY DEF Begin, AllGoto, windowVars, files
<1>2. LevelTypes'
  BY <1>1 DEF Leveled, LevelTypes
<1>3. FilesNumbered'
  BY <1>1, SameFiles DEF Files
<1>4. ASSUME NEW r \in Rank PROVE AtLevel(r)'
  <2>1. pc[r] = "barrier" /\ pc'[r] \in {"wl", "production"}
    BY <1>1, LoopFrom DEF AllAt
  <2>2. Factor(numf[r])' = Factor(numf[r]) /\ Unstopped(r)' = Unstopped(r)
    BY <1>1 DEF Factor, Unstopped, FirstE_0
  <2>3. QED
    BY <1>1, <2>1, <2>2 DEF Leveled, AtLevel, Early, Read, Running
<1>5. QED
  BY <1>2, <1>3, <1>4 DEF Leveled

(* At the end of a level number, factor and cut go on together.            *)
LEMMA EndsItsLevel ==
  ASSUME WindowTypeOK, Leveled, EndLevel
  PROVE  Leveled'
<1>1. /\ AllAt("wl") /\ dos' = [dos EXCEPT ![numf[0]] = DosFile]
      /\ numf' = [r \in Rank |-> numf[r] + 1]
      /\ E_0' = [r \in Rank |-> E_0[r] - D1BINS[r] \div CutStep]
      /\ lnwlf' = [r \in Rank |-> lnwlf[r] \div IterationFactor]
      /\ pc' = [r \in Rank |-> LoopOrProduction(lnwlf'[0])]
      /\ UNCHANGED <<D1BINS, ModFactorInit, wllng, gdat>>
  BY DEF EndLevel, write_DOS_H, AllGoto, windowVars
<1>2. dos' = [n \in 1 .. MaxNumf |-> dos'[n]] /\ FilesNumbered'
  BY <1>1, Written, WritesItsLevel
<1>3. ASSUME NEW r \in Rank
      PROVE  /\ numf'[r] = numf[r] + 1 /\ numf[r] \in Nat \ {0} /\ numf'[r] \in Nat \ {0}
             /\ lnwlf'[r] = Factor(numf[r] + 1) /\ lnwlf'[r] \in Nat
             /\ E_0'[r] = E_0[r] - D1BINS[r] \div CutStep
             /\ D1BINS[r] \div CutStep \in Nat /\ E_0[r] \in Int /\ E_0'[r] \in Int
  <2>1. numf[r] \in Nat \ {0} /\ D1BINS[r] \in Nat /\ E_0[r] \in Int
    BY DEF WindowTypeOK, Leveled, LevelTypes
  <2>2. numf'[r] = numf[r] + 1 /\ lnwlf'[r] = lnwlf[r] \div IterationFactor
        /\ E_0'[r] = E_0[r] - D1BINS[r] \div CutStep
    BY <1>1
  <2>3. lnwlf[r] = Factor(numf[r])
    BY <1>1 DEF AllAt, Leveled, AtLevel, Running, Read
  <2>4. lnwlf'[r] = Factor(numf[r] + 1) /\ lnwlf'[r] \in Nat
    <3>1. numf[r] + 1 \in Nat \ {0}
      BY <2>1
    <3>2. QED
      BY <2>1, <2>2, <2>3, <3>1, Factors
  <2>5. D1BINS[r] \div CutStep \in Nat
    BY <2>1
  <2>6. E_0'[r] \in Int
    BY <2>1, <2>2, <2>5
  <2>7. QED
    BY <2>1, <2>2, <2>4, <2>5, <2>6
<1>4. LevelTypes'
  BY <1>1, <1>2, <1>3 DEF Leveled, LevelTypes
<1>5. ASSUME NEW r \in Rank PROVE AtLevel(r)'
  <2> DEFINE n == numf[r]
             d == D1BINS[r] \div CutStep
             first == FirstE_0(r)
  <2>1. pc[r] = "wl" /\ pc'[r] \in {"wl", "production"}
    BY <1>1, LoopFrom DEF AllAt
  <2>2. Factor(numf[r])' = Factor(n + 1)
    BY <1>3 DEF Factor
  <2>3. E_0[r] \in (first - (n - 1) * d) - (n - 1) .. first - (n - 1) * d
    BY <2>1 DEF Leveled, AtLevel, Read, Unstopped
  <2>4. n \in Nat \ {0} /\ d \in Nat /\ first \in Nat /\ E_0'[r] = E_0[r] - d /\ E_0[r] \in Int
    <3>1. D1BINS[r] \in Nat
      BY DEF WindowTypeOK
    <3>2. first \in Nat
      BY <3>1 DEF FirstE_0
    <3>3. QED
      BY <1>3, <3>2
  <2>5. Unstopped(r)' = first - ((n + 1) - 1) * d
    BY <1>1, <1>3 DEF Unstopped, FirstE_0
  <2>6. numf'[r] - 1 = n
    BY <1>3
  <2>7. E_0'[r] \in Unstopped(r)' - (numf'[r] - 1) .. Unstopped(r)'
    <3> DEFINE a == (n - 1) * d
               b == ((n + 1) - 1) * d
    <3> HIDE DEF n, d, first
    <3>1. b = a + d /\ a \in Nat
      BY <2>4
    <3>2. E_0[r] \in (first - a) - (n - 1) .. first - a
      BY <2>3
    <3>3. Unstopped(r)' = first - b
      BY <2>5
    <3> HIDE DEF a, b
    <3>4. E_0[r] - d \in (first - b) - n .. first - b
      BY <2>4, <3>1, <3>2
    <3>5. QED
      BY <2>4, <2>6, <3>3, <3>4
  <2>8. QED
    BY <1>3, <2>1, <2>2, <2>7 DEF AtLevel, Early, Read, Running
<1>6. QED
  BY <1>2, <1>4, <1>5 DEF Leveled

(* Every step keeps the levels.                                            *)
LEMMA NextKeepsLevels ==
  ASSUME IInv, Leveled, [Next]_allVars
  PROVE  Leveled'
<1>1. WindowTypeOK /\ LevelTypes /\ FilesNumbered /\ \A r \in Rank : AtLevel(r)
  BY DEF IInv, Leveled
<1>2. ASSUME UNCHANGED levels, dos' = [n \in 1 .. MaxNumf |-> dos'[n]], FilesNumbered',
             \A r \in Rank : \/ pc'[r] = "dead"
                             \/ pc[r] \in Early /\ pc'[r] \in Early
                             \/ /\ D1BINS'[r] = D1BINS[r]
                                /\ \/ pc'[r] = pc[r]
                                   \/ pc[r] \in Running /\ pc'[r] \in Running
      PROVE  Leveled'
  <2>1. LevelTypes'
    BY <1>1, <1>2 DEF LevelTypes, levels
  <2>2. \A r \in Rank : AtLevel(r)'
    BY <1>1, <1>2, StaysAtLevel DEF levels
  <2>3. QED
    BY <1>2, <2>1, <2>2 DEF Leveled
<1>3. ASSUME UNCHANGED files
      PROVE  dos' = [n \in 1 .. MaxNumf |-> dos'[n]] /\ FilesNumbered'
  <2>1. dos' = dos /\ gdat' \in Files
    BY <1>3 DEF files, Files
  <2>2. QED
    BY <1>1, <2>1, SameFiles DEF LevelTypes
<1>4. CASE WindowStep
  <2>1. UNCHANGED <<levels, files>>
    BY <1>4 DEF WindowStep
  <2>2. QED
    BY <1>1, <1>2, <1>3, <1>4, <2>1, TowardsWindow
<1>5. CASE Begin
  BY <1>1, <1>5, BeginsItsLevel
<1>6. CASE Sweep
  <2>1. PICK b \in Bins(0) : Counted(b) /\ visited' = visited \cup {b}
    BY <1>6 DEF Sweep
  <2>2. UNCHANGED <<pc, D1BINS, numf, ModFactorInit, lnwlf, E_0, files>>
    BY <1>6 DEF Sweep, vars
  <2>3. LevelTypes'
    BY <1>1, <1>3, <2>1, <2>2 DEF Counted, LevelTypes
  <2>4. \A r \in Rank : AtLevel(r)'
    BY <1>1, <2>2, StaysAtLevel
  <2>5. QED
    BY <1>3, <2>2, <2>3, <2>4 DEF Leveled
<1>7. CASE Checkpoint
  <2>1. AllAt("wl") /\ dos' = [dos EXCEPT ![numf[0]] = DosFile] /\ gdat' = gdat
        /\ UNCHANGED levels /\ UNCHANGED <<pc, D1BINS>>
    BY <1>7 DEF Checkpoint, write_DOS_H, vars
  <2>2. dos' = [n \in 1 .. MaxNumf |-> dos'[n]] /\ FilesNumbered'
    BY <1>1, <2>1, Written, WritesItsLevel DEF Leveled
  <2>3. QED
    BY <1>2, <2>1, <2>2
<1>8. CASE EndLevel
  BY <1>1, <1>8, EndsItsLevel
<1>9. CASE EndProduction
  <2>1. /\ AllAt("production") /\ dos' = [dos EXCEPT ![numf[0]] = DosFile] /\ gdat' = gdat
        /\ UNCHANGED levels /\ UNCHANGED D1BINS /\ pc' = [r \in Rank |-> "done"]
    BY <1>9 DEF EndProduction, write_DOS_H, AllGoto, windowVars
  <2>2. dos' = [n \in 1 .. MaxNumf |-> dos'[n]] /\ FilesNumbered'
    BY <1>1, <2>1, Written, WritesItsLevel DEF Leveled
  <2>3. \A r \in Rank : pc[r] \in Running /\ pc'[r] \in Running
    BY <2>1 DEF AllAt, Running, Read
  <2>4. QED
    BY <1>2, <2>1, <2>2, <2>3
<1>10. CASE Crash
  <2>1. UNCHANGED <<levels, files>> /\ \A r \in Rank : pc'[r] = "dead"
    BY <1>10 DEF Crash, Die
  <2>2. QED
    BY <1>2, <1>3, <2>1
<1>11. CASE CrashInFile
  <2>1. PICK part \in {<<>>} \cup {[DosFile EXCEPT !.rows = SubSeq(@, 1, n)] :
                                     n \in 0 .. D1BINS[0] - 1} :
               dos' = [dos EXCEPT ![numf[0]] = part]
    BY <1>11 DEF CrashInFile
  <2>2. HasHeader(part) => part.numf = numf[0] /\ part.lnwlf = lnwlf[0]
    BY <2>1 DEF HasHeader, DosFile
  <2>3. /\ AllAt("wl") \/ AllAt("production")
        /\ gdat' = gdat /\ UNCHANGED levels /\ \A r \in Rank : pc'[r] = "dead"
    BY <1>11 DEF CrashInFile, Sampling, Die
  <2>4. dos' = [n \in 1 .. MaxNumf |-> dos'[n]] /\ FilesNumbered'
    BY <1>1, <2>1, <2>2, <2>3, WritesItsLevel DEF Leveled
  <2>5. QED
    BY <1>2, <2>3, <2>4
<1>12. CASE Submit
  BY <1>12, Resubmitted
<1>13. ASSUME NEW r \in Rank, readg(r) PROVE Leveled'
  BY <1>1, <1>13, ReadsItsLevel
<1>14. CASE UNCHANGED allVars
  <2>1. UNCHANGED <<levels, files>> /\ UNCHANGED <<pc, D1BINS>>
    BY <1>14 DEF allVars, vars
  <2>2. QED
    BY <1>2, <1>3, <2>1
<1>15. QED
  BY <1>4, <1>5, <1>6, <1>7, <1>8, <1>9, <1>10, <1>11, <1>12, <1>13, <1>14 DEF Next

(* The levels are in order in every reachable state.                       *)
LEMMA LevelsInvariant == Spec => []Leveled
<1>1. InitRestart => Leveled
  BY LeveledInitially
<1>2. IInv /\ Leveled /\ [Next]_allVars => Leveled'
  BY NextKeepsLevels
<1>3. QED
  BY <1>1, <1>2, Invariance, PTL DEF Spec

(* Through every sequence of crashes, files and restarts, whatever the     *)
(* files hold: the level number and ln(f) belong together, because every   *)
(* file that has a header holds a pair that belongs together, and every    *)
(* job starts from such a pair or from the first level.                    *)
THEOREM FactorsOfLevels == Spec => []FactorOfLevel
<1>1. Leveled => FactorOfLevel
  <2> SUFFICES ASSUME Leveled, Sampling, NEW r \in Rank
               PROVE  lnwlf[r] = Factor(numf[r])
    BY DEF FactorOfLevel, Factor
  <2>1. pc[r] \in Running
    BY DEF Sampling, AllAt, Running, Read
  <2>2. QED
    BY <2>1 DEF Leveled, AtLevel
<1>2. QED
  BY <1>1, LevelsInvariant, PTL

(* Likewise, for any number of levels, bins and restarts: the cut of the   *)
(* gate is never above that of a run that was not stopped, and below it by *)
(* less than one bin for each level that has ended.                        *)
THEOREM CutsNeverRaised == Spec => []CutNeverRaised
<1>1. Leveled => CutNeverRaised
  <2> SUFFICES ASSUME Leveled, Sampling, NEW r \in Rank
               PROVE  E_0[r] \in Unstopped(r) - (numf[r] - 1) .. Unstopped(r)
    BY DEF CutNeverRaised, Unstopped
  <2>1. pc[r] \in Read
    BY DEF Sampling, AllAt, Read
  <2>2. QED
    BY <2>1 DEF Leveled, AtLevel
<1>2. QED
  BY <1>1, LevelsInvariant, PTL

(***************************************************************************)
(* What ln(g) was built from.                                              *)
(***************************************************************************)
Density(entry, e, n) == /\ \A c \in entry : c[1] = e
                        /\ \A m \in 1 .. n - 1 : <<e, m>> \in entry
WellFilled(g) ==
  /\ g.bins \in Nat /\ Len(g.rows) \in Nat
  /\ \A x \in 1 .. Len(g.rows) : Density(g.rows[x], g.min + (x - 1) * BinWidth, g.numf)
Filled(r) == /\ wllng[r] = [b \in Bins(r) |-> wllng[r][b]]
             /\ \A b \in Bins(r) : Density(wllng[r][b], Energy(r, b), numf[r])
             /\ \A b \in Bins(r) : b \in visited => <<Energy(r, b), numf[r]>> \in wllng[r][b]

FilesFilled == \A g \in Files : HasHeader(g) => WellFilled(g)
NotVisited == \A r \in Rank : pc[r] \in Early \cup {"barrier"} => visited = {}
AllFilled == \A r \in Rank : pc[r] \in Read => Filled(r)

Dense == ~torn /\ ~moved => FilesFilled /\ NotVisited /\ AllFilled

(* In the initial states there is no file, and no rank is past readg().    *)
LEMMA DenseInitially == InitRestart => Dense
BY DEF InitRestart, Init, Dense, FilesFilled, Files, HasHeader, NotVisited, AllFilled, Early, Read

(* The rows of a file that is complete, or cut off behind one of them.     *)
LEMMA RowsOnDisk ==
  ASSUME NEW n \in Nat, NEW f, NEW k \in 0 .. n
  PROVE  LET rows == [x \in 1 .. n |-> f[x - 1]]
             part == SubSeq(rows, 1, k)
         IN  /\ Len(rows) = n
             /\ Len(part) = k /\ \A x \in 1 .. k : part[x] = f[x - 1]
<1> DEFINE rows == [x \in 1 .. n |-> f[x - 1]]
           S == {f[x - 1] : x \in 1 .. n}
<1>1. rows \in [1 .. n -> S]
  OBVIOUS
<1>2. rows \in Seq(S)
  <2> HIDE DEF rows, S
  <2>1. QED
    BY <1>1, SeqDef
<1>3. Len(rows) \in Nat /\ DOMAIN rows = 1 .. Len(rows)
  BY <1>2, LenProperties
<1>4. DOMAIN rows = 1 .. n
  OBVIOUS
<1>5. Len(rows) = n
  <2> DEFINE m == Len(rows)
  <2>1. m \in Nat /\ 1 .. m = 1 .. n
    BY <1>3, <1>4, Zenon
  <2> HIDE DEF m, rows
  <2>2. m # 0 => m \in 1 .. n
    BY <2>1
  <2>3. n # 0 => n \in 1 .. m
    BY <2>1
  <2>4. m = n
    BY <2>1, <2>2, <2>3
  <2>5. QED
    BY <2>4 DEF m
<1>6. \A i \in 1 .. k : rows[i] \in S /\ rows[i] = f[i - 1]
  BY <1>1
<1>7. /\ Len(SubSeq(rows, 1, k)) = IF 1 <= k THEN k - 1 + 1 ELSE 0
      /\ \A i \in 1 .. k - 1 + 1 : SubSeq(rows, 1, k)[i] = rows[1 + i - 1]
  <2>1. 1 \in Int /\ k \in Int
    OBVIOUS
  <2> HIDE DEF rows, S
  <2>2. QED
    BY <1>6, <2>1, SubSeqProperties
<1>8. Len(SubSeq(rows, 1, k)) = k
  BY <1>7
<1>9. ASSUME NEW x \in 1 .. k PROVE SubSeq(rows, 1, k)[x] = f[x - 1]
  <2>1. x \in 1 .. k - 1 + 1 /\ 1 + x - 1 = x
    OBVIOUS
  <2>2. SubSeq(rows, 1, k)[x] = rows[x]
    <3> HIDE DEF rows
    <3>1. QED
      BY <1>7, <2>1
  <2>3. QED
    BY <1>6, <2>2
<1>10. QED
  BY <1>5, <1>8, <1>9

(* Whatever part of its file a sampling rank leaves, every row that is     *)
(* there is that of its own bin.                                           *)
LEMMA FillsFile ==
  ASSUME WindowTypeOK, Filled(0), NEW k \in 0 .. D1BINS[0]
  PROVE  /\ WellFilled(DosFile)
         /\ WellFilled([DosFile EXCEPT !.rows = SubSeq(@, 1, k)])
<1>1. 0 \in Rank
  OBVIOUS
<1>2. D1BINS[0] \in Nat /\ WLD1min[0] \in Int
  BY <1>1 DEF WindowTypeOK
<1> DEFINE n == D1BINS[0]
           rows == [x \in 1 .. n |-> wllng[0][x - 1]]
           part == SubSeq(rows, 1, k)
<1>3. Len(rows) = n /\ Len(part) = k /\ \A x \in 1 .. k : part[x] = wllng[0][x - 1]
  <2> HIDE DEF n
  <2>1. n \in Nat /\ k \in 0 .. n
    BY <1>2 DEF n
  <2>2. QED
    BY <2>1, RowsOnDisk
<1>4. ASSUME NEW x \in 1 .. n
      PROVE  /\ rows[x] = wllng[0][x - 1]
             /\ Density(wllng[0][x - 1], WLD1min[0] + (x - 1) * BinWidth, numf[0])
  <2>1. x - 1 \in Bins(0)
    BY <1>2 DEF Bins
  <2>2. QED
    BY <2>1 DEF Filled, Energy
<1>5. k \in Nat /\ k <= n
  BY <1>2
<1> HIDE DEF rows, part, n
<1>6. /\ DosFile.numf = numf[0] /\ DosFile.min = WLD1min[0] /\ DosFile.bins = n
      /\ DosFile.rows = rows
  BY DEF DosFile, rows, n
<1>7. WellFilled(DosFile)
  BY <1>2, <1>3, <1>4, <1>6 DEF WellFilled, n
<1> DEFINE cut == [DosFile EXCEPT !.rows = SubSeq(@, 1, k)]
<1>8. cut.numf = numf[0] /\ cut.min = WLD1min[0] /\ cut.bins = n /\ cut.rows = part
  BY DEF DosFile, rows, part, n
<1> HIDE DEF cut
<1>9. \A x \in 1 .. k : x \in 1 .. n
  BY <1>2, <1>5 DEF n
<1>10. WellFilled(cut)
  BY <1>2, <1>3, <1>4, <1>5, <1>8, <1>9 DEF WellFilled, n
<1>11. QED
  BY <1>7, <1>10 DEF cut

(* What the files hold does not depend on the state, so that it stays      *)
(* while every new file is well filled.                                    *)
LEMMA FilesStayFilled ==
  ASSUME FilesFilled, NEW part, HasHeader(part) => WellFilled(part),
         \A n \in 1 .. MaxNumf : dos'[n] \in Files \cup {part},
         gdat' \in Files
  PROVE  FilesFilled'
<1>1. Files' \subseteq Files \cup {part}
  BY DEF Files
<1>2. \A g : HasHeader(g)' <=> HasHeader(g)
  BY DEF HasHeader
<1>3. \A g : WellFilled(g)' <=> WellFilled(g)
  BY DEF WellFilled, Density
<1>4. QED
  BY <1>1, <1>2, <1>3 DEF FilesFilled

(* write_DOS_H() and the job that dies in it replace one file by another.  *)
LEMMA WritesFilled ==
  ASSUME Leveled, FilesFilled, NEW part, HasHeader(part) => WellFilled(part),
         dos' = [dos EXCEPT ![numf[0]] = part], gdat' = gdat
  PROVE  FilesFilled'
<1>1. \A n \in 1 .. MaxNumf : dos'[n] \in Files \cup {part}
  BY DEF Leveled, LevelTypes, Files
<1>2. gdat' \in Files
  BY DEF Files
<1>3. QED
  BY <1>1, <1>2, FilesStayFilled

(* A step that writes no file, though it may copy one to g.dat.            *)
LEMMA KeepsFilled ==
  ASSUME FilesFilled, dos' = dos, gdat' \in Files
  PROVE  FilesFilled'
<1>1. gdat \in Files /\ (HasHeader(gdat) => WellFilled(gdat))
  BY DEF FilesFilled, Files
<1>2. \A n \in 1 .. MaxNumf : dos'[n] \in Files \cup {gdat}
  BY DEF Files
<1>3. QED
  BY <1>1, <1>2, FilesStayFilled

(* A rank whose bins, window and level a step leaves alone.                *)
LEMMA StaysFilled ==
  ASSUME NEW r \in Rank, Filled(r), wllng'[r] = wllng[r], numf'[r] = numf[r],
         D1BINS'[r] = D1BINS[r], WLD1min'[r] = WLD1min[r],
         visited' = visited
  PROVE  Filled(r)'
<1>1. Bins(r)' = Bins(r) /\ \A b : Energy(r, b)' = Energy(r, b)
  BY DEF Bins, Energy
<1>2. wllng[r]' = wllng[r] /\ numf[r]' = numf[r]
  OBVIOUS
<1>3. QED
  BY <1>1, <1>2 DEF Filled, Density

(* A row of a complete file of this window is that of its bin.             *)
LEMMA RowOfBin ==
  ASSUME NEW r \in Rank, WindowTypeOK, NEW g, WellFilled(g), NEW b \in Bins(r),
         ~(Len(g.rows) < g.bins), g.min = WLD1min[r], g.bins = D1BINS[r]
  PROVE  Density(Row(g, b), Energy(r, b), g.numf)
<1>1. D1BINS[r] \in Nat /\ b \in Nat /\ b < D1BINS[r]
  BY DEF WindowTypeOK, Bins
<1>2. Len(g.rows) \in Nat /\ b < Len(g.rows) /\ b + 1 \in 1 .. Len(g.rows) /\ (b + 1) - 1 = b
  BY <1>1 DEF WellFilled
<1>3. Density(g.rows[b + 1], g.min + b * BinWidth, g.numf)
  <2>1. Density(g.rows[b + 1], g.min + ((b + 1) - 1) * BinWidth, g.numf)
    BY <1>2 DEF WellFilled
  <2>2. QED
    BY <1>2, <2>1
<1>4. QED
  BY <1>2, <1>3 DEF Row, Energy

(* readg() fills the bins of its rank from such a file, or begins the      *)
(* first level with empty ones.                                            *)
LEMMA ReadsFilled ==
  ASSUME WindowTypeOK, Leveled, Dense, ~torn', ~moved', NEW r \in Rank, readg(r)
  PROVE  FilesFilled' /\ NotVisited' /\ AllFilled'
<1>1. /\ pc[r] = "readg" /\ pc' = [pc EXCEPT ![r] = "barrier"]
      /\ UNCHANGED <<D1BINS, WLD1min, dos, gdat, visited>>
  BY DEF readg, Goto, windowVars, window, files
<1>2. ~torn /\ ~moved
  BY DEF readg, histories
<1>3. FilesFilled /\ NotVisited /\ AllFilled
  BY <1>2 DEF Dense
<1>4. FilesFilled'
  BY <1>1, <1>3, KeepsFilled DEF Files
<1>5. visited = {}
  BY <1>1, <1>3 DEF NotVisited, Early
<1>6. NotVisited'
  BY <1>1, <1>5 DEF NotVisited
<1>7. Filled(r)'
  <2> DEFINE Fills(f, n) == /\ wllng' = [wllng EXCEPT ![r] = f]
                            /\ f = [b \in Bins(r) |-> f[b]]
                            /\ numf'[r] = n
                            /\ \A b \in Bins(r) : Density(f[b], Energy(r, b), n)
  <2>1. \E f, n : Fills(f, n)
    <3>1. CASE HasHeader(gdat)
      <4> DEFINE f == [b \in Bins(r) |-> Row(gdat, b)]
      <4>1. /\ numf' = [numf EXCEPT ![r] = gdat.numf]
            /\ wllng' = [wllng EXCEPT ![r] = f]
            /\ torn' = (torn \/ Len(gdat.rows) < gdat.bins)
            /\ moved' = (moved \/ gdat.min # WLD1min[r] \/ gdat.bins # D1BINS[r])
        BY <3>1 DEF readg
      <4>2. WellFilled(gdat)
        BY <1>3, <3>1 DEF FilesFilled, Files
      <4>3. ~(Len(gdat.rows) < gdat.bins) /\ gdat.min = WLD1min[r] /\ gdat.bins = D1BINS[r]
        BY <4>1
      <4>4. \A b \in Bins(r) : Density(Row(gdat, b), Energy(r, b), gdat.numf)
        BY <4>2, <4>3, RowOfBin
      <4>5. \A b \in Bins(r) : f[b] = Row(gdat, b)
        OBVIOUS
      <4>6. f = [b \in Bins(r) |-> f[b]]
        OBVIOUS
      <4>7. numf'[r] = gdat.numf
        BY <4>1 DEF Leveled, LevelTypes
      <4> HIDE DEF f
      <4>8. Fills(f, gdat.numf)
        BY <4>1, <4>4, <4>5, <4>6, <4>7
      <4> HIDE DEF Fills
      <4>9. QED
        BY <4>8
    <3>2. CASE ~HasHeader(gdat)
      <4> DEFINE f == [b \in Bins(r) |-> {}]
      <4>1. /\ numf' = numf /\ wllng' = [wllng EXCEPT ![r] = f]
        BY <3>2 DEF readg
      <4>2. numf'[r] = 1
        BY <1>1, <4>1 DEF Leveled, AtLevel, Early
      <4>3. \A b \in Bins(r) : f[b] = {} /\ Density({}, Energy(r, b), 1)
        BY DEF Density
      <4>4. f = [b \in Bins(r) |-> f[b]]
        OBVIOUS
      <4> HIDE DEF f
      <4>5. Fills(f, 1)
        BY <4>1, <4>2, <4>3, <4>4
      <4> HIDE DEF Fills
      <4>6. QED
        BY <4>5
    <3>3. QED
      BY <3>1, <3>2
  <2>2. PICK f, n : Fills(f, n)
    BY <2>1
  <2>3. Bins(r)' = Bins(r) /\ \A b : Energy(r, b)' = Energy(r, b)
    BY <1>1 DEF Bins, Energy
  <2>4. wllng'[r] = [b \in Bins(r) |-> f[b]]
    BY <2>2 DEF Leveled, LevelTypes
  <2>5. visited' = {}
    BY <1>1, <1>5
  <2>6. \A b \in Bins(r) : wllng'[r][b] = f[b]
    BY <2>4
  <2>7. wllng'[r] = [b \in Bins(r) |-> wllng'[r][b]]
    BY <2>4
  <2>8. \A b \in Bins(r) : Density(wllng'[r][b], Energy(r, b), numf'[r])
    BY <2>2, <2>6
  <2>9. QED
    BY <2>3, <2>5, <2>7, <2>8 DEF Filled, Density
<1>8. ASSUME NEW s \in Rank, s # r, pc'[s] \in Read PROVE Filled(s)'
  <2>1. pc[s] = pc'[s] /\ numf'[s] = numf[s] /\ wllng'[s] = wllng[s]
    <3>1. pc[s] = pc'[s]
      BY <1>1, <1>8 DEF WindowTypeOK
    <3>2. numf'[s] = numf[s] /\ wllng'[s] = wllng[s]
      BY <1>8 DEF readg, Leveled, LevelTypes
    <3>3. QED
      BY <3>1, <3>2
  <2>2. Filled(s)
    BY <1>3, <1>8, <2>1 DEF AllFilled
  <2>3. QED
    BY <1>1, <2>1, <2>2, StaysFilled
<1>9. AllFilled'
  BY <1>7, <1>8 DEF AllFilled
<1>10. QED
  BY <1>4, <1>6, <1>9

(* A sweep adds to each bin only what belongs to it, and notes its visit.  *)
LEMMA SweepFills ==
  ASSUME WindowTypeOK, Leveled, FilesFilled, NotVisited, AllFilled, Sweep
  PROVE  FilesFilled' /\ NotVisited' /\ AllFilled'
<1>1. PICK b \in Bins(0) : Counted(b) /\ visited' = visited \cup {b}
  BY DEF Sweep
<1>2. /\ AllAt("wl") \/ AllAt("production")
      /\ UNCHANGED <<pc, D1BINS, WLD1min, numf, dos, gdat>>
  BY DEF Sweep, Sampling, vars, window, files
<1>3. \A r \in Rank : pc[r] \in Read \ {"barrier"} /\ pc'[r] = pc[r]
  BY <1>2 DEF AllAt, Read
<1>4. FilesFilled'
  BY <1>2, KeepsFilled DEF Files
<1>5. NotVisited'
  BY <1>3 DEF NotVisited, Early, Read
<1>6. ASSUME NEW r \in Rank PROVE Filled(r)'
  <2>1. Filled(r)
    BY <1>3 DEF AllFilled
  <2>2. Bins(r)' = Bins(r) /\ (\A d : Energy(r, d)' = Energy(r, d)) /\ numf'[r] = numf[r]
    BY <1>2 DEF Bins, Energy
  <2> DEFINE new == <<Energy(r, b), numf[r]>>
  <2>3. wllng'[r] = [wllng[r] EXCEPT ![b] = @ \cup {new}]
    BY <1>1 DEF Counted
  <2>4. wllng'[r] = [d \in Bins(r) |-> wllng'[r][d]]
    BY <2>1, <2>3 DEF Filled
  <2>5. ASSUME NEW d \in Bins(r)
        PROVE  wllng'[r][d] = IF d = b THEN wllng[r][d] \cup {new} ELSE wllng[r][d]
    BY <2>1, <2>3 DEF Filled
  <2>6. \A d \in Bins(r) : Density(wllng'[r][d], Energy(r, d), numf[r])
    <3> SUFFICES ASSUME NEW d \in Bins(r) PROVE Density(wllng'[r][d], Energy(r, d), numf[r])
      OBVIOUS
    <3>1. Density(wllng[r][d], Energy(r, d), numf[r])
      BY <2>1 DEF Filled
    <3>2. d = b => new[1] = Energy(r, d)
      OBVIOUS
    <3>3. QED
      BY <2>5, <3>1, <3>2 DEF Density
  <2>7. \A d \in Bins(r) : d \in visited' => <<Energy(r, d), numf[r]>> \in wllng'[r][d]
    BY <1>1, <2>1, <2>5 DEF Filled
  <2>8. QED
    BY <2>2, <2>4, <2>6, <2>7 DEF Filled, Density
<1>7. QED
  BY <1>4, <1>5, <1>6 DEF AllFilled

(* A level ends when every bin has been visited in it, so that each has    *)
(* ln(g) from one level more.                                              *)
LEMMA EndFills ==
  ASSUME IInv, Leveled, FilesFilled, AllFilled, EndLevel
  PROVE  FilesFilled' /\ NotVisited' /\ AllFilled'
<1>1. /\ AllAt("wl") /\ visited = Bins(0) /\ dos' = [dos EXCEPT ![numf[0]] = DosFile]
      /\ numf' = [r \in Rank |-> numf[r] + 1] /\ visited' = {}
      /\ pc' = [r \in Rank |-> LoopOrProduction(lnwlf'[0])]
      /\ UNCHANGED <<D1BINS, WLD1min, wllng, gdat>>
  BY DEF EndLevel, write_DOS_H, AllGoto, windowVars, window
<1>2. WindowTypeOK /\ LevelTypes
  BY DEF IInv, Leveled
<1>3. \A r \in Rank : Filled(r)
  BY <1>1 DEF AllAt, AllFilled, Read
<1>4. FilesFilled'
  <2>1. WellFilled(DosFile)
    <3>1. 0 \in Rank
      OBVIOUS
    <3>2. Filled(0) /\ 0 \in 0 .. D1BINS[0]
      BY <1>2, <1>3, <3>1 DEF WindowTypeOK
    <3>3. QED
      BY <1>2, <3>2, FillsFile
  <2>2. QED
    BY <1>1, <2>1, WritesFilled
<1>5. NotVisited'
  BY <1>1 DEF NotVisited
<1>6. ASSUME NEW r \in Rank PROVE Filled(r)'
  <2>1. Bins(r)' = Bins(r) /\ (\A d : Energy(r, d)' = Energy(r, d)) /\ numf'[r] = numf[r] + 1
    BY <1>1 DEF Bins, Energy
  <2>2. Bins(r) = visited
    <3>1. pc[r] \in Cut /\ pc[0] \in Cut /\ 0 \in Rank
      BY <1>1 DEF AllAt, Cut
    <3>2. Lowest(r) = Lowest(0) /\ Highest(r) = Highest(0)
      BY <3>1 DEF IInv, SameLadder, Lowest, Highest
    <3>3. D1BINS[r] = D1BINS[0]
      BY <3>1, <3>2 DEF IInv, WholeBins
    <3>4. QED
      BY <1>1, <3>3 DEF Bins
  <2>3. Filled(r) /\ numf[r] \in Nat \ {0}
    BY <1>2, <1>3 DEF LevelTypes
  <2>4. \A d \in Bins(r) : Density(wllng[r][d], Energy(r, d), numf[r] + 1)
    <3> SUFFICES ASSUME NEW d \in Bins(r) PROVE Density(wllng[r][d], Energy(r, d), numf[r] + 1)
      OBVIOUS
    <3>1. Density(wllng[r][d], Energy(r, d), numf[r])
      BY <2>3 DEF Filled
    <3>2. <<Energy(r, d), numf[r]>> \in wllng[r][d]
      BY <2>2, <2>3 DEF Filled
    <3>3. \A m \in 1 .. (numf[r] + 1) - 1 : m \in 1 .. numf[r] - 1 \/ m = numf[r]
      BY <2>3
    <3>4. QED
      BY <3>1, <3>2, <3>3 DEF Density
  <2>5. wllng'[r] = wllng[r] /\ wllng[r] = [d \in Bins(r) |-> wllng[r][d]]
    BY <1>1, <2>3 DEF Filled
  <2>6. QED
    BY <1>1, <2>1, <2>4, <2>5 DEF Filled, Density
<1>7. QED
  BY <1>4, <1>5, <1>6 DEF AllFilled

(* Every step keeps the densities: what a file or a bin lacks is lacking   *)
(* only after a job has read a file that was cut off or of another window. *)
LEMMA NextKeepsDensity ==
  ASSUME IInv, Leveled, Dense, [Next]_allVars
  PROVE  Dense'
<1>1. WindowTypeOK
  BY DEF IInv
<1>2. (\E r \in Rank : readg(r)) \/ UNCHANGED histories
  BY DEF Next, WindowStep, Begin, Sweep, Checkpoint, EndLevel, EndProduction, Crash,
       CrashInFile, Submit, allVars
<1>3. SUFFICES ASSUME ~torn', ~moved' PROVE FilesFilled' /\ NotVisited' /\ AllFilled'
  BY DEF Dense
<1>4. ASSUME NEW r \in Rank, readg(r) PROVE FilesFilled' /\ NotVisited' /\ AllFilled'
  BY <1>1, <1>3, <1>4, ReadsFilled
<1>5. SUFFICES ASSUME UNCHANGED histories PROVE FilesFilled' /\ NotVisited' /\ AllFilled'
  BY <1>2, <1>3, <1>4 DEF Dense
<1>6. FilesFilled /\ NotVisited /\ AllFilled
  BY <1>3, <1>5 DEF Dense, histories
<1>7. ASSUME UNCHANGED files PROVE FilesFilled'
  BY <1>6, <1>7, KeepsFilled DEF files, Files
<1>8. ASSUME UNCHANGED <<numf, wllng, visited>>,
             \A r \in Rank : \/ pc'[r] = "dead"
                             \/ pc[r] \in Early /\ pc'[r] \in Early
                             \/ /\ D1BINS'[r] = D1BINS[r] /\ WLD1min'[r] = WLD1min[r]
                                /\ \/ pc'[r] = pc[r]
                                   \/ pc[r] \in Read /\ pc'[r] \in Running
      PROVE  NotVisited' /\ AllFilled'
  <2>1. NotVisited'
    BY <1>6, <1>8 DEF NotVisited, Early, Read, Running
  <2>2. ASSUME NEW r \in Rank, pc'[r] \in Read PROVE Filled(r)'
    <3>1. pc[r] \in Read /\ D1BINS'[r] = D1BINS[r] /\ WLD1min'[r] = WLD1min[r]
      BY <1>8, <2>2 DEF Early, Read, Running
    <3>2. Filled(r)
      BY <1>6, <3>1 DEF AllFilled
    <3>3. QED
      BY <1>8, <3>1, <3>2, StaysFilled
  <2>3. QED
    BY <2>1, <2>2 DEF AllFilled
<1>9. ASSUME AllAt("wl") \/ AllAt("production"), NEW k \in 0 .. D1BINS[0]
      PROVE  /\ WellFilled(DosFile)
             /\ WellFilled([DosFile EXCEPT !.rows = SubSeq(@, 1, k)])
  <2>1. Filled(0)
    <3>1. 0 \in Rank
      OBVIOUS
    <3>2. pc[0] \in Read
      BY <1>9, <3>1 DEF AllAt, Read
    <3>3. QED
      BY <1>6, <3>1, <3>2 DEF AllFilled
  <2>2. QED
    BY <1>1, <2>1, FillsFile
<1>10. 0 \in 0 .. D1BINS[0]
  <2>1. 0 \in Rank
    OBVIOUS
  <2>2. QED
    BY <1>1, <2>1 DEF WindowTypeOK
<1>11. CASE WindowStep
  <2>1. UNCHANGED <<levels, files>>
    BY <1>11 DEF WindowStep
  <2>2. QED
    BY <1>1, <1>7, <1>8, <1>11, <2>1, TowardsWindow DEF levels
<1>12. CASE Begin
  <2>1. /\ AllAt("barrier") /\ UNCHANGED <<numf, wllng, visited, files, D1BINS, WLD1min>>
        /\ pc' = [r \in Rank |-> LoopOrProduction(ModFactorInit[0])]
    BY <1>12 DEF Begin, AllGoto, windowVars, window
  <2>2. \A r \in Rank : pc[r] \in Read /\ pc'[r] \in Running
    BY <2>1, LoopFrom DEF AllAt, Read, Running
  <2>3. QED
    BY <1>7, <1>8, <2>1, <2>2
<1>13. CASE Sweep
  BY <1>1, <1>6, <1>13, SweepFills
<1>14. CASE Checkpoint
  <2>1. /\ AllAt("wl") /\ dos' = [dos EXCEPT ![numf[0]] = DosFile] /\ gdat' = gdat
        /\ UNCHANGED <<pc, D1BINS, WLD1min, numf, wllng, visited>>
    BY <1>14 DEF Checkpoint, write_DOS_H, vars, window, levels
  <2>2. FilesFilled'
    BY <1>6, <1>9, <1>10, <2>1, WritesFilled
  <2>3. QED
    BY <1>8, <2>1, <2>2
<1>15. CASE EndLevel
  BY <1>6, <1>15, EndFills
<1>16. CASE EndProduction
  <2>1. /\ AllAt("production") /\ dos' = [dos EXCEPT ![numf[0]] = DosFile] /\ gdat' = gdat
        /\ UNCHANGED <<D1BINS, WLD1min, numf, wllng, visited>>
        /\ pc' = [r \in Rank |-> "done"]
    BY <1>16 DEF EndProduction, write_DOS_H, AllGoto, windowVars, window, levels
  <2>2. FilesFilled'
    BY <1>6, <1>9, <1>10, <2>1, WritesFilled
  <2>3. \A r \in Rank : pc[r] \in Read /\ pc'[r] \in Running
    BY <2>1 DEF AllAt, Read, Running
  <2>4. QED
    BY <1>8, <2>1, <2>2, <2>3
<1>17. CASE Crash
  <2>1. UNCHANGED <<levels, files>> /\ \A r \in Rank : pc'[r] = "dead"
    BY <1>17 DEF Crash, Die
  <2>2. QED
    BY <1>7, <1>8, <2>1 DEF levels
<1>18. CASE CrashInFile
  <2>1. /\ AllAt("wl") \/ AllAt("production")
        /\ gdat' = gdat /\ UNCHANGED levels /\ \A r \in Rank : pc'[r] = "dead"
    BY <1>18 DEF CrashInFile, Sampling, Die
  <2>2. PICK part \in {<<>>} \cup {[DosFile EXCEPT !.rows = SubSeq(@, 1, n)] :
                                     n \in 0 .. D1BINS[0] - 1} :
               dos' = [dos EXCEPT ![numf[0]] = part]
    BY <1>18 DEF CrashInFile
  <2>3. HasHeader(part) => WellFilled(part)
    <3>1. CASE part = <<>>
      BY <3>1 DEF HasHeader
    <3>2. ASSUME NEW n \in 0 .. D1BINS[0] - 1,
                 part = [DosFile EXCEPT !.rows = SubSeq(@, 1, n)]
          PROVE  WellFilled(part)
      <4>1. 0 \in Rank
        OBVIOUS
      <4>2. D1BINS[0] \in Nat
        BY <1>1, <4>1 DEF WindowTypeOK
      <4>3. n \in 0 .. D1BINS[0]
        BY <4>2
      <4>4. QED
        BY <1>9, <2>1, <3>2, <4>3
    <3>3. QED
      BY <2>2, <3>1, <3>2
  <2>4. FilesFilled'
    BY <1>6, <2>1, <2>2, <2>3, WritesFilled
  <2>5. QED
    BY <1>8, <2>1, <2>4 DEF levels
<1>19. CASE Submit
  <2>1. FreshLevels /\ AllGoto("ptEmin") /\ dos' = dos
    BY <1>19 DEF Submit
  <2>2. gdat' \in Files
    BY <1>19 DEF Submit, Leveled, LevelTypes, Files
  <2>3. FilesFilled'
    BY <1>6, <2>1, <2>2, KeepsFilled
  <2>4. NotVisited' /\ AllFilled'
    BY <2>1 DEF FreshLevels, AllGoto, NotVisited, AllFilled, Read
  <2>5. QED
    BY <2>3, <2>4
<1>20. CASE UNCHANGED allVars
  <2>1. UNCHANGED <<levels, files>> /\ UNCHANGED <<pc, D1BINS, WLD1min>>
    BY <1>20 DEF allVars, vars, window
  <2>2. QED
    BY <1>7, <1>8, <2>1 DEF levels
<1>21. QED
  BY <1>4, <1>11, <1>12, <1>13, <1>14, <1>15, <1>16, <1>17, <1>18, <1>19, <1>20 DEF Next

(* The bins and the files are dense in every reachable state.              *)
LEMMA DensityInvariant == Spec => []Dense
<1>1. InitRestart => Dense
  BY DenseInitially
<1>2. IInv /\ Leveled /\ Dense /\ [Next]_allVars => Dense'
  BY NextKeepsDensity
<1>3. QED
  BY <1>1, <1>2, Invariance, LevelsInvariant, PTL DEF Spec

(* For every window, number of levels, of jobs and of ranks, with files    *)
(* that were cut off lying about: as long as no job reads one of those, or *)
(* one of another window, each bin has ln(g) of its own energy from every  *)
(* level before this one.                                                  *)
THEOREM DensitiesSurvive == Spec => []DensityOfEachBin
<1>1. Dense => DensityOfEachBin
  <2> SUFFICES ASSUME Dense, Sampling, ~torn, ~moved, NEW r \in Rank, NEW b \in Bins(r)
               PROVE  Density(wllng[r][b], Energy(r, b), numf[r])
    BY DEF DensityOfEachBin, Density
  <2>1. pc[r] \in Read
    BY DEF Sampling, AllAt, Read
  <2>2. QED
    BY <2>1 DEF Dense, AllFilled, Filled
<1>2. QED
  BY <1>1, DensityInvariant, PTL
=============================================================================
