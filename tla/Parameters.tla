----------------------------- MODULE Parameters -----------------------------
(***************************************************************************)
(* What ReadInput() (src/src/parameter.cc) makes of a configuration file.  *)
(*                                                                         *)
(* A file is a record with one field for each parameter, named as in the   *)
(* program's state; its value is Absent, of a type that does not convert   *)
(* (WrongType), or what the file gives.  Temperatures are tenths of a kelvin,   *)
(* bin_width is in units of 1e-6, flatness in percent, a fraction of the   *)
(* composition is a pair <<numerator, denominator>>.                       *)
(***************************************************************************)
EXTENDS Integers, Sequences, SequencesExt

CONSTANTS Absent, WrongType

Given(v) == v \notin {Absent, WrongType}

Required == {"N",
             "dWLD1", "WLD1min", "WLD1max", "Flatness", "ModFactorInit",
             "IterationFactor", "ModFactorFinal", "ProductionBinSamps",
             "MTi", "MTf", "MSAMPS", "MSEP", "MDROP",
             "TTi", "TTf", "dTT"}

Fallback == [NE |-> 4, SH |-> 6, max_neighbors |-> 300, NBINTERACTION |-> 1,
             reglin_intercept |-> "MoNbTaW", Z_R |-> "0.1",
             coupling_file |-> "coupling.input",
             MetropolisSampling |-> FALSE, MdT |-> 1, Restart |-> 0,
             model_dir |-> "./models",
             snapshot_stride |-> 0, snapshot_lowe |-> FALSE]

Scalars == Required \cup DOMAIN Fallback

require(file, key) == Given(file[key])
optional(file, key) == IF Given(file[key]) THEN file[key] ELSE Fallback[key]

(* The table starts with a placeholder for the alloy; the default is that  *)
(* of the program's state, for four elements whatever NE is.               *)
Element(file) == IF Given(file.element) THEN <<"HEA">> \o file.element
                 ELSE <<"HEA", "Mo", "Nb", "Ta", "W">>

EqualShares(NE) == [t \in 1 .. NE |-> <<1, NE>>]
Composition(file, NE) ==
  IF Given(file.composition) /\ file.composition # <<>> THEN file.composition
  ELSE EqualShares(NE)

Loaded(file) ==
  [key \in Scalars \cup {"element", "composition"} |->
     CASE key = "element"     -> Element(file)
       [] key = "composition" -> Composition(file, optional(file, "NE"))
       [] key \in Required    -> file[key]
       [] OTHER               -> optional(file, key)]

HasWrongEntry(array) == Given(array) /\ WrongType \in Range(array)

(* The length of the element table is compared with NE only when the file  *)
(* has one, that of the composition always.                                *)
BadLattice(file, p) ==
  \/ p.N < 1 \/ p.NE < 1 \/ p.SH < 1 \/ p.NBINTERACTION \notin 1 .. 4
  \/ HasWrongEntry(file.element) \/ HasWrongEntry(file.composition)
  \/ Given(file.element) /\ Len(p.element) # p.NE + 1
  \/ Len(p.composition) # p.NE

BadWangLandau(p) == \/ p.dWLD1 \notin 2 .. 10000000
                    \/ p.Flatness \notin 1 .. 99
                    \/ p.ModFactorInit <= 0 \/ p.IterationFactor <= 0
                    \/ p.ModFactorFinal <= 0 \/ p.ProductionBinSamps < 1

BadTempering(p) == \/ p.MTi < 0 \/ p.MTf < 0 \/ p.MdT < 0
                   \/ p.MSAMPS < 0 \/ p.MSEP < 0 \/ p.MDROP < 0
BadThermo(p) == p.TTi < 0 \/ p.TTf < 0 \/ p.dTT <= 0
BadOutput(p) == p.snapshot_stride < 0

(* The sections are loaded and tested one after the other, and the first   *)
(* that fails ends the reading.                                            *)
ReadInput(file) == /\ \A key \in Required : require(file, key)
                   /\ ~BadLattice(file, Loaded(file))
                   /\ ~BadWangLandau(Loaded(file))
                   /\ ~BadTempering(Loaded(file))
                   /\ ~BadThermo(Loaded(file))
                   /\ ~BadOutput(Loaded(file))
=============================================================================
