----------------------------- MODULE MCLattice -----------------------------
(* Instances of Lattice for TLC.  The coupling of a line is its distance,  *)
(* and half of the lines write the pair of unlike elements the other way   *)
(* round.  Files have up to four lines with every order of distances, so   *)
(* that shells can have one or two neighbours and lines can be missing.    *)
EXTENDS Lattice
MCAxis == {"x", "y"}
MCOffsets == {<<1, 0>>, <<-1, 0>>, <<1, -2>>, <<-1, 2>>}
MCLine(r, o) ==
  [r |-> r, off |-> [a \in MCAxis |-> IF a = "x" THEN o[1] ELSE o[2]],
   Jr |-> [p \in {IF o[1] > 0 THEN <<0, 1>> ELSE <<1, 0>>} |-> r]]
MCLines == {MCLine(r, o) : r \in {-1, 1, 2}, o \in MCOffsets}
MCFiles == UNION {[1 .. n -> MCLines] : n \in 1 .. 4}
=============================================================================
