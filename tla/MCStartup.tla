----------------------------- MODULE MCStartup ------------------------------
(***************************************************************************)
(* Jobs for TLC: one of each build that is sound, and others that differ   *)
(* from it in what the program tests or ought to test.                     *)
(***************************************************************************)
EXTENDS Startup

CONSTANTS own, other     \* alloys a network was trained for

Ones(numbers) == {b \in 0 .. 30 : (numbers \div 2^b) % 2 = 1}

BaseFile ==
  [key \in Scalars \ {"N"} |-> Absent] @@
  [N |-> 1, element |-> Absent, composition |-> Absent]
SoundFile ==
  [dWLD1 |-> 100, WLD1min |-> -5, WLD1max |-> 5, Flatness |-> 70,
   ModFactorInit |-> 8, IterationFactor |-> 2, ModFactorFinal |-> 1,
   ProductionBinSamps |-> 3, MTi |-> 30000, MTf |-> 1000, MSAMPS |-> 3,
   MSEP |-> 1, MDROP |-> 1, TTi |-> 10, TTf |-> 100, dTT |-> 10] @@ BaseFile

(* What the parser makes of a coupling file: opposite neighbours, and the  *)
(* couplings of all pairs of NE elements.                                  *)
Couplings(NE) == [offsets |-> << <<1, 0, 0>>, <<-1, 0, 0>> >>,
                  pairs |-> {k \in (1 .. NE) \X (1 .. NE) : k[1] <= k[2]}]

Binary(c) == [SoundFile EXCEPT !.N = 2, !.NE = 2, !.element = <<"Mo", "W">>,
                               !.composition = c]

Fit == [alloy |-> own, size |-> "fits"]
Net(size) == [alloy |-> own, size |-> size]
Models(encoder, decoder) ==
  [encoder |-> [tagged |-> encoder, plain |-> encoder],
   decoder |-> [tagged |-> decoder, plain |-> decoder]]
Fallbacks == [encoder |-> [tagged |-> Fit, plain |-> Broken],
              decoder |-> [tagged |-> None, plain |-> [alloy |-> other, size |-> "fits"]]]

SoundJob(build) ==
  [build |-> build, args |-> TRUE, file |-> SoundFile, unreadable |-> {},
   noCoupling |-> {}, coupling |-> Couplings(4), models |-> Models(Fit, Fit), leftover |-> None,
   tseed |-> [r \in Rank |-> Ones(12345 + 19 * r)]]

(* The first number drawn from these seeds is 0, and UINT_MAX. *)
Extremes == {Ones(1992168721), Ones(1991906576)}

Fractions2 == {<< <<1, 2>>, <<1, 2>> >>, << <<1, 3>>, <<1, 3>> >>,
               << <<9, 10>>, <<2, 5>> >>, << <<1, 2>> >>, <<>>,
               << <<3, 2>>, <<-1, 2>> >>}

WrongValues ==
  {<<"N", 0>>, <<"N", Absent>>, <<"NE", 0>>, <<"NE", 5>>, <<"NE", WrongType>>,
   <<"SH", 0>>, <<"NBINTERACTION", 5>>, <<"element", <<"Mo", "W">> >>,
   <<"element", <<"Mo", WrongType, "Ta", "W">> >>,
   <<"composition", << <<1, 2>>, WrongType >> >>,
   <<"dWLD1", 1>>, <<"Flatness", 100>>, <<"Flatness", 0>>, <<"ModFactorInit", 0>>,
   <<"IterationFactor", 0>>, <<"ModFactorFinal", 0>>, <<"ProductionBinSamps", 0>>,
   <<"MTi", 0>>, <<"MTf", -1>>, <<"MTf", WrongType>>, <<"MSEP", -1>>, <<"dTT", 0>>,
   <<"max_neighbors", -1>>, <<"max_neighbors", 1>>, <<"max_neighbors", 2>>,
   <<"max_neighbors", WrongType>>, <<"TTi", -1>>, <<"snapshot_stride", -1>>}

(* Numbers of elements and offsets that do not suit four elements and one  *)
(* site.                                                                   *)
WrongPairs == {{<<0, 1>>}, {<<5, 1>>}, {<<0, 5>>}, {<<1, 4>>, <<4, 5>>}}
WrongOffsets == {<< <<0, 2, 0>> >>, << <<1, 0, 0>>, <<0, 0, -2>> >>}
Unary == [SoundFile EXCEPT !.NE = 1, !.element = <<"W">>]

Unfit == {"small", "big"}

MCJobs ==
  LET redis == SoundJob("redis")
      torch == SoundJob("torch")
      builds == {redis, torch, SoundJob("tf")}
  IN  builds
      \cup {[torch EXCEPT !.file = Binary(c), !.coupling = Couplings(2)] : c \in Fractions2}
      \cup {[torch EXCEPT !.file = Unary, !.coupling = Couplings(1)]}
      \cup {[torch EXCEPT !.coupling.pairs = k] : k \in WrongPairs}
      \cup {[torch EXCEPT !.coupling.offsets = o] : o \in WrongOffsets}
      \cup {[j EXCEPT !.file = [@ EXCEPT ![w[1]] = w[2]]] :
              j \in {torch, SoundJob("tf")}, w \in WrongValues}
      \cup {[torch EXCEPT !.tseed = [@ EXCEPT ![0] = s]] : s \in Extremes}
      \cup {[redis EXCEPT !.leftover = [by |-> Fit, to |-> "earlier"]]}
      \cup {[j EXCEPT !.models = Models(Net(e), Fit)] : j \in builds, e \in Unfit}
      \cup {[j EXCEPT !.models = Models(Fit, Net(d))] : j \in builds, d \in Unfit}
      \cup {[j EXCEPT !.models = Models(Fit, d)] : j \in builds, d \in {None, Broken}}
      \cup {[torch EXCEPT !.models = Fallbacks]}
      \cup {[torch EXCEPT !.args = FALSE], [torch EXCEPT !.unreadable = {1}],
            [torch EXCEPT !.noCoupling = {1}], [torch EXCEPT !.noCoupling = {0}]}

MCRandRuns == {[i \in 1 .. 7 |-> a * i] : a \in {0, 1, 7}}
=============================================================================
