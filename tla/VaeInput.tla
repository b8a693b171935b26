------------------------------ MODULE VaeInput ------------------------------
(***************************************************************************)
(* Where the network's input and output have the sites of the lattice: the *)
(* size of the grid (initialize(), src/src/alloy.cc) and voxel_index(),    *)
(* which encode() and decode() share.  A lattice of side N is turned into  *)
(* a cubic grid of side VAE_D, shifted by SHIFT and padded by PAD.         *)
(***************************************************************************)
EXTENDS Integers

SHIFT(N) == N - 1
Side(N) == 2 * (N - 1) + SHIFT(N) + 1
PAD(N) == ((((Side(N) + 15) \div 16) * 16) - Side(N)) \div 2
VAE_D(N) == Side(N) + 2 * PAD(N)

Cell(N) == (0 .. N - 1) \X (0 .. N - 1) \X (0 .. N - 1)
Coordinate(N) == 0 .. VAE_D(N) - 1

(* Faulty variant: the padding is forgotten. *)
VoxelUnpadded(N, s) == <<s[2] - s[1] + s[3] + SHIFT(N) - PAD(N),
                         s[3] - s[2] + s[1] + SHIFT(N),
                         s[2] + s[1] - s[3] + SHIFT(N)>>

Voxel(N, s) == <<s[2] - s[1] + s[3] + SHIFT(N) + PAD(N),
                 s[3] - s[2] + s[1] + SHIFT(N) + PAD(N),
                 s[2] + s[1] - s[3] + SHIFT(N) + PAD(N)>>

(* The one-hot input of a configuration, and the configuration read back   *)
(* from an output in which those channels are the largest.                 *)
inputConfig(N, Atom) == {<<Voxel(N, s), Atom[s]>> : s \in Cell(N)}
Decoded(N, NE, output) ==
  [s \in Cell(N) |-> {t \in 0 .. NE - 1 : <<Voxel(N, s), t>> \in output}]
=============================================================================
