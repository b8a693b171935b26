------------------------------ MODULE MCAlloy ------------------------------
(* A ring of sites with two shells for TLC.  Five sites have              *)
(* configurations of energy 4, 6, 14 and 16; the window is [8, 16) in two  *)
(* bins of 4: 4 is a whole bin below it, 6 is below it but has bin 0 by    *)
(* rounding, 14 has bin 1, and 16 is its upper edge, which has no bin.     *)
EXTENDS Alloy

MCShell == [n \in 1 .. 4 |-> IF n <= 2 THEN 1 ELSE 2]
MCOffset == <<1, NSites - 1, 2, NSites - 2>>
MCinputPos == [i \in Site |-> [n \in 1 .. 4 |-> (i + MCOffset[n]) % NSites]]
MCNT == [t \in Element |-> CASE t = 0 -> 2 [] t = 1 -> NSites - 3 [] t = 2 -> 1]
MCJ == [k \in PairKey |-> CASE k[3] = 2 -> 1
                             [] k[3] = 1 /\ k[1] = 0 -> 4 * k[2] - 5
                             [] OTHER -> 0]
=============================================================================
