# DeepThermo-WL in TLA+

A verification development for DeepThermo-WL, an MPI program that samples the
thermodynamics of an alloy: parallel tempering brings one replica per rank into
equilibrium, then all ranks build the density of states together by
Wang-Landau sampling, with trial moves that exchange neighbouring atoms and
trial moves a neural network proposes.

The modules follow the code under `src/src/`. TLC checks them on small
instances, and TLAPS proves some of the results for every instance.

1. [Inventory](#1-inventory)
2. [Modules and how they correspond to the code](#2-modules-and-how-they-correspond-to-the-code)
3. [Runs](#3-runs)
4. [Fairness and deadlock](#4-fairness-and-deadlock)
5. [Theorems](#5-theorems)
6. [Where the code departs from its documentation](#6-where-the-code-departs-from-its-documentation)
7. [What is not modelled](#7-what-is-not-modelled)
8. [Plan](#8-plan)

## 1. Inventory

Every rank is one operating-system process that runs the same `main()`. There
are no threads, callbacks or signals: all that is concurrent is the ranks, which
interact only through MPI messages and collective calls. The phases of a run:

    main: seeds, parameters, networks, temperatures, lattice on every rank
      ini_alloy on rank 0, its configuration broadcast to all ranks
      parallel_tempering: sweeps and swaps, then sampling (or restart), averages
      window: Allreduce of the energies reached, initWL (or restart from g.dat)
      while ln(f) > mod_factor_final
        global_update (optional): a prior of ln(g) by swaps and VAE moves
        inner loop: gate (VAE move), sweep, Allreduce, merge, flatness test
      production loop: sweep, Allreduce, merge
      reduction of the order parameter, output

| Part | State it keeps | Operations | Interacts with | What makes it correct |
|---|---|---|---|---|
| Replica exchange (`pt.cc`: `swap`, `mchybrid`, `Metropolis`) | per rank: configuration `Atom`, pair counts `W`, energy `currEtot`, counters `att`, `acc`, the loop's flag `even` | a sweep of trial moves; a swap with the neighbour above or below on the temperature ladder | point-to-point messages, all with tag 123 | an exchange is all or nothing for its pair; afterwards configuration, counts and energy agree; no message is taken for another; no cycle of waiting ranks; the statistics are per pair |
| Sampling loop, stop and restart (`pt.cc`: `parallel_tempering`, `write_state`) | sample index, running sums, the files `mc<r>.input` and `state<r>.input` | a sample; the broadcast of "stop"; the files of a stop; restart | broadcast from rank 0; the file system | all ranks stop at the same sample; each sample is in the sums once across stops, crashes and restarts; none waits for a broadcast that is not made |
| Energy window (`main.cc`, `initWL`) | window, bin count | extension by the energies the ladder reached, cut to whole bins, relaxation | two Allreduce calls, a Barrier | all ranks have the same bins; how a walker can begin outside them |
| Wang-Landau run (`main.cc`, `wanglandau.cc`) | shared by copies: `lnwlf`, `wlH`, `wllng`, `wllng_prior`, counters; per rank: `wlHi`, `wllngi`, walker | levels, prior, gate, sweep, merge, flatness test, production, acceptance test | Barrier, Allreduce, Reduce, the collective report | the ranks' copies never differ when it matters, so all are in the same collective call; every visit is merged once; a level ends only when all bins were visited |
| Density of states on disk (`write_DOS_H`, `readg`, `initWL`) | `DOS_H_iter<numf>.dat`, `g.dat`, `numf`, `ModFactorInit`, `E_0` | write in place, restart from any of the files | the file system; whoever submits the next job | level number, ln(f) and ln(g) belong together in every job; the gate for global moves does not widen |
| Alloy walker (`alloy.cc`) | `Atom`, `W`, `currEtot`, saved copies | `BondSwap`, `vae_update` with `decode` and its repair loop, undo, snapshot, order-parameter sample | called by both samplers; the inference backend | incremental counts and energy equal a recount; the composition is kept; no move leads out of the bins, whose number is used as an index; the repair loop ends |
| Ring allreduce (`allreduce.cc`) | segments, buffer, posted receive | scatter-reduce, allgather | point-to-point messages around a ring, tag 0; called twice in a row | the sum; no message of another phase or call is taken; a meeting point like the MPI call; no deadlock |
| Lattice set-up (`alloy.cc`) | neighbour list and table, shell counts `NS`, couplings `J`, the size of the network's grid | read the shells, build the table; fill, draw and shuffle the first configuration | a file; every loop over neighbours trusts `NS`; two broadcasts | the shells are those of the file; neighbours are mutual across the boundary; indices are in range; the parser ends; all ranks begin alike; a site has its own voxel |
| Configuration (`parameter.cc`) | the parameters | `ReadInput`: required keys, fallbacks, tests of ranges | every rank reads the file itself | what is accepted does not lead outside an array |
| Random numbers (`rand.cc`) | KISS registers i, j, k | seed, draw, redraw of 0 and 1 | the draws of `ini_alloy` and of the moves | no draw outside (0, 1); streams of different ranks stay apart |
| Inference backends (`backend/`) | loaded networks, or models and tensors on a shared server | `load`, `encode`, `decode` | files; SmartRedis servers that the ranks of a node share | a question is answered by the rank's own network from its own input |
| Fatal errors (`diagnostic.hpp`) | none | `die` | `MPI_Abort` | no rank waits for one that gave up |
| Context (`sim_context.*`) | the record of all state | `resize` | all of the above | its fields are the modules' variables |

What is hard to test here: interleavings of ranks that run ahead of one
another, since a swap couples only two neighbours; messages that differ in type
and not in tag; termination decisions every rank takes on its own copy; state
that is kept incrementally and undone; integer rounding and narrow counters at
the edges; stop, crash and restart. `PROJECT.json` lists each of these hazards
with its line, and the property that watches it.

## 2. Modules and how they correspond to the code

| Module | Models | Composition |
|---|---|---|
| `ReplicaExchange` | `swap()` and the two loops of `parallel_tempering()` around it | implements `ReplicaPermutation` |
| `ReplicaPermutation` | what replica exchange promises, without messages | abstract specification |
| `WangLandau` | `main()` from the outer loop on, `global_update()`, `flatWL()`, `resetWL()`, `WangLandau()` | assumes of its collective calls what `Allreduce` states |
| `Alloy` | one walker: `BondSwap()`, `vae_update()`, `decode()`, the undo, the snapshot and the sample | the inside of one `Sweep` of `ReplicaExchange`, of one `Work` of `WangLandau` |
| `RingAllreduce` | `RingAllreduce()` as `main()` calls it in a COMM_RING build | implements `Allreduce` |
| `Allreduce` | when calls of a collective may return | abstract specification |
| `Restart` | the levels, their files, `readg()`, jobs that die and are started again | extends `EnergyWindow` |
| `EnergyWindow` | the window between the two samplers | state and actions of `Restart` |
| `Lattice` | `ini_coupling()`, `noffset()`, `neighbor()`, `ini_apos()` | its theorems give what `Alloy` assumes of the table |
| `Checkpoint` | the sampling loop, its stop, its files, its restart, the averages | |
| `Startup` | `main()` up to the first energy: seeding, reading, loading, `ini_T()`, `ini_sys()`, `ini_alloy()`, the broadcasts, `ini_apos()`'s accesses, the ways a job ends early, the first questions to the networks | extends `Backend`, `Parameters`, `Rand`, `VaeInput`; implements `Predictor` |
| `Backend` | the three inference backends and SmartRedis's shared servers | state and actions of `Startup` |
| `Predictor` | what the program relies on when it asks a network | abstract specification |
| `Parameters` | `ReadInput()` as operators on a file | pure |
| `Rand` | KISS and `randd1()` on 32-bit words | pure |
| `VaeInput` | the network's grid and `voxel_index()` | pure |
| `MC*` | finite values of the constants | |
| `WangLandau_proofs`, `ReplicaExchange_proofs`, `Lattice_proofs`, `Checkpoint_proofs`, `Restart_proofs`, `RingAllreduce_proofs`, `Alloy_proofs` | theorems about the module of that name | |
| `Startup_proofs` | theorems about `Startup` with `Backend`, about `VaeInput` and about `Rand` | |

**ReplicaExchange.** `pc[r]` says where rank r is: before a sweep, at the start
of `swap()`, in the `Sendrecv` of the energies ("energy"), before the decision,
waiting for the flag, "decided", in the `Sendrecv` of the configurations
("config"), before `ini_W()`. `chan[s][d]` holds the messages sent and not
received, oldest first, which is the order in which MPI matches messages of one
tag. A send may complete at once (buffered) or when it is received. A
configuration is a model value `c`; pair counts and energy are one number
`Bonds[c]`. `Move` updates the counts by the difference of an accepted move, so
counts that are wrong before a sweep are wrong after it. `Decide` must accept a
favourable exchange and is free otherwise. The refinement mapping `Held` puts
the moment of an exchange where the first of the two ranks copies the received
configuration: from then on the other rank's configuration is the one still in
flight.

**WangLandau.** `at[r]` is a local segment or a collective call. `Work` is one
call of a segment (`Plan`): the theta gate, one `BondSwap`, one `vae_update`. A
walker is the bin of its energy; a proposal goes to any bin or outside, and
`Visit` counts the target or, on a rejection, the bin it stays in, with the
ln(g) each mode uses. Walkers begin in a bin here; those that `initWL()` leaves
outside are the matter of `Alloy`. Everything all ranks should have the same copy of is the
record `dos[r]`, updated by the state functions `Opened`, `Swept`, `Merged`,
`Folded`, `Refined`, `Sampled`. `Collective` is one action for all ranks: it is
enabled when every rank is in the same call. Counters wrap at `CounterMod`, as
`unsigned short` does. ln(f) is an integer in units of 1/`Unit`, divided by
`IterationFactor` at each level; the flatness is a fraction. `visits` is a
history variable.

**Alloy.** A trial move is two steps, trial and decision, because the snapshot
and the order-parameter sample are written between them. `Updated` changes the
counts as `updateWsite()` does, skipping the bond between the two sites.
`VaeDecode(D)` lets the network return any assignment D; `Repair(i)` is one hit
of the loop that moves atoms from the first overfull element to the first one
with room. Which in-range targets are accepted is open: `WangLandau` has ln(g).
`initWL` is the end of the relaxation: it lets every energy up to the upper edge
pass, that edge and all below the window included, as the code does. The first
move of a walker without a bin is `IndexOutOfBins`, after which the program has
no meaning ("undefined").

**RingAllreduce.** The data of a segment is how often each rank's contribution
has been added into it. Segments, their sizes and the indices sent and received
in each iteration are those of the code. Several calls are made in a row
without a barrier.

**EnergyWindow and Restart.** Energies are integers per atom. `Relax` is one
whole sweep at high temperature and may end at any energy. `EnergyWindow` has no
specification of its own: `Restart` adds what comes before the barrier of
`initWL()` (`readg`) and after it. ln(g) of a bin is the set of pairs <<energy,
level>> it was built from, so a density that lands in the wrong bin, or is lost,
is visible; the offset `maxg` that the file leaves out is not. A level visits
its bins in `Sweep`, one merge of all ranks, which are in step
(`WangLandau!RanksInStep`). `write_DOS_H` writes at a checkpoint, at the end of
a level and after production; `CrashInFile` leaves any beginning of it, the empty
file included. `Submit` starts the next job with any of these files as `g.dat`
and with a ladder that reached any other energies. The history variables `torn`
and `moved` remember that a job read a file that was cut off, or one of another
window: the program does not notice either.

**Lattice.** `ReadLine` is one turn of the parser's loop: it reads a line, opens
a shell when the distance differs from that of the line before, and either
leaves the loop (the new shell is one too many) or keeps the line. `Line` is
what `fscanf` leaves in the variables, also after the end of the file: the last
line once more, with a zero offset. Distances and couplings are integers, sites
are coordinates on any number of axes, and the code's site number is their
order. `Nneighbors` is the length of `nlist`, which the code counts.

**Checkpoint.** `Broadcast` appends the decision to a queue per rank, since a
broadcast does not hold up its root. `Crash` ends the job at any point before
all ranks have left; files keep what was written. `Restart` begins with a fresh
configuration, since `read_state()` has no caller, and with the sample index
and sums of `mc<r>.input`. `Gather` sends a rank's sums, `Report` writes a row of
`stat<irun>.dat` when rank 0 has them all.

**Startup.** A job is a record: the build, the configuration file, what the
parser makes of the coupling file (the offsets it stores, the pairs of elements it
meets), the network files, the seeds, which ranks cannot read a file, what an
earlier job left on the servers. Each rank goes its own way from "args" to "ready", in any
interleaving; `End` is `MPI_Abort()`, which takes all ranks with it wherever they
are, and also stands for an uncaught exception ("terminate") and an access
outside an array ("undefined"). `Draw` is one `kiss()` for one of the atoms
that truncated shares left over, and `shuffle` takes its numbers from
`RandRuns`, since `std::rand()` is external. `ini_sys` and `ini_apos` stand for the
two functions as far as they can fail or leave an array: the size given to
`nlist.reserve()`, the indices of the table of couplings, the length of the buffer
for neighbours, and the sites at which `ini_W()` looks up atoms. Then ranks put
`Questions` questions to their networks, as `encode()` and `decode()` of later
trial moves do.

**Backend and Predictor.** What a server holds is a function from keys to models
and tensors; a tensor is the question it belongs to. A call is three steps
(put the input, run the model, take the output), and ranks of one node share a
server in the SmartRedis build, so their steps interleave on it. The sizes of
networks are "fits", "small" and "big" in relation to the lattice. `Predictor`
has one state per question; the refinement needs no mapping beyond the
variables' names, `call` and `store` being hidden.

**Parameters, Rand, VaeInput.** Operators without state. A file gives each key a
value, nothing (`Absent`) or something that does not convert (`WrongType`). A
32-bit word is the set of its one bits, so shifts, sums and products wrap as in
C and stay within what TLC can count with (a sum is given by its carries); fractions of the composition are
exact pairs, where the program has doubles.

**Faulty variants.** Operators marked "faulty variant" are never part of a
specification. Each is a plausible mistake in the code next to it (a dropped
guard, a missing reset, an off-by-one, `Send` and `Recv` for `Sendrecv`), and
with it in place of the definition after it TLC finds the property violated
that `PROJECT.json` pairs it with: no property holds whatever the code does.

## 3. Runs

| Run | Instance | Checks | Shows |
|---|---|---|---|
| `exchange_ladder` | 4 ranks, 2 configurations, 2 sweeps, an even and an odd round | `TypeOK`, `WalkerConsistent`, `AttemptsCountMeetings`, `ExchangesAreAtomic`, `AllFinish` | exchanges implement the abstract transpositions under every interleaving; walkers stay consistent; the ladder does not deadlock, with or without buffering |
| `exchange_long` | 2 ranks, 6 sweeps, 4 rounds, the pair meets in two | `AwaitedMessageFirst`, `ChannelsBounded` | what a rank finds first in its channel is what it waits for, though its peer may be a round ahead; at most three messages wait |
| `exchange_odd_ranks` | 3 ranks | `EveryProposalHasAPartner` | violated, see section 6 |
| `wl_prior` | 2 ranks, 2 bins, GLOBAL_UPDATE, one level and production | `RanksInStep`, `VisitsCountOnce`, `SamplesAtMostVisits`, `CollectivesReturn`, `LevelVisitsEveryBin` | the copies agree in every collective call, so each returns; visits are merged exactly once in all three loops; what the flatness test implies; the order-parameter average never divides by too small a count |
| `wl_counter_overflow` | 2 ranks, 2 bins, 2 moves per sweep, no GLOBAL_UPDATE, counters modulo 4: each rank's counts fit, their sum does not | `CountersHoldASweep` | violated, see section 6 |
| `alloy_moves` | 5 sites on a ring, 3 elements, 2 shells, a window of two bins | `CountsMatch`, `CompositionConserved`, `OutsideOnlyFromStart`, `ArrivalsCaptured`, `RepairAdvances` | bookkeeping is exact after every sequence of moves, from every start and every network output; no Wang-Landau move leads out of the bins, though `initWL()` may leave a walker outside |
| `alloy_sample` | as `alloy_moves` | `SampleBelongsToBin` | violated, see section 6 |
| `ring_sum` | 4 ranks, 6 elements (segments of 2 and of 1), 2 calls | `EveryContributionOnce`, `ExpectedSegment`, `IsCollective`, `AllReturn` | the sum is right on every rank; messages are never confused across iterations, phases or calls; the ring is a meeting point; it needs no buffering |
| `wl_restart` | 2 ranks, 3 energies, three levels' names, 2 jobs | `SameWindow`, `NotAboveWindow`, `FactorOfLevel`, `DensityOfEachBin`, `CutNeverRaised` | ranks agree on window and bins without exchanging them; from any file of a job that died, each level goes on with its own ln(f) and each bin with its own density, unless the file was cut off or the window moved |
| `startup` | 2 ranks on one node, 1 or 8 sites, nearly a hundred jobs | `TypeOK`, `OnlyKnownOverruns`, `SoundJobsStart`, `SameStart`, `VoxelsRecoverAtoms`, `AnswersOwnQuestions`, `AllStartOrNone` | sound jobs start alike on all ranks; others end for all ranks; where the program leaves an array it is for one of the reasons `Unmatched` lists or a TensorFlow network of another size; networks answer the rank that asked |
| `lattice_setup` | 3 x 3 sites, 2 shells, all files of up to 4 lines with 3 distances and 4 offsets | `TablesOfFile`, `NeighboursMutual`, `CompleteFilesEnd` | shells, couplings and neighbours are those of the file; the parser ends if a line follows the last shell |
| `checkpoint` | 3 ranks, 2 configurations, 5 samples, a look at the clock every 2, 3 jobs | `SamplesCountedOnce`, `CheckpointsAgree`, `StatComplete`, `AllLeave` | sums and sample index stay together through stops, crashes and restarts; ranks stop together; the averages hold every sample |

**Bounds and why they are enough.**
Four ranks are the smallest ladder in which an odd round has both a pair and
ranks that sit out, and in which a middle rank meets a different neighbour in
each round. Two configurations of different energy give favourable and
unfavourable exchanges. Six sweeps of two ranks make the pair meet again while
one of the two is still in its previous round, which is what the shared tag
could confuse; with three rounds of four ranks the same properties hold (2.3
million states, not among the runs for its length). In `WangLandau` two ranks
are enough for copies to differ, and two bins for one to stay empty; `MaxSweeps`
bounds the run (no sweep is begun after it), and the instance reaches the end of
production below it. It has one level: a second one multiplies the states beyond
what is practical; `StaysInStep` is proved for any number of levels, and the
passage from level to level, with its files, is in `wl_restart`. Reports come
every 2 sweeps in place of 100, so that they come at all. Five sites with two shells give
four energies: a whole bin below the window, below it by less, inside, and on its
upper edge, and snapshots captured and not captured; all compositions the
network may return are tried. With one global move and two others in a sweep
a rank's counts reach 3 in a bin, which counters modulo 4 hold; two ranks' sum
need not fit. Six elements over four ranks make unequal
segments. The three energies of `wl_restart` are one below the configured window, one inside
and one above, so the ladder extends it on either side, on both or on none, and
a second job may get another window than the first; the cut leaves a remainder.
Three file names and ln(f) of 4, 2 and 1 give two levels, from each of which, and
from production, a job may die and be continued. `startup` has one sound job of
each build and changes one thing at a time in it: each parameter that
`ReadInput()` tests, each file missing, broken or of another size, couplings of an
element that does not exist, too many or too long offsets, a negative
`max_neighbors`, one element only, tensors left on the server, the argument list, one rank alone without a file, and the two seeds
(1992168721 and 1991906576) whose first draws are 0 and UINT_MAX; these seeds were
computed from the code. Eight sites with fractions of 1/2, 1/3 and 9/10 give
shares that fill the lattice, leave atoms to draw, and are too many; 3/2 and -1/2 add
up to 1 and are too many as well. With both
ranks on one server every order of their calls occurs. Four lines for two shells and a terminator let a shell have one
or two neighbours, a distance come back later, and shells be missing; on 3 x 3
sites an offset of two wraps further than one of one. Five samples with a look
at every second one let a stop come at the first, a middle and the last index.

Named bounds in the specifications: `MaxSweeps` (WangLandau), `MaxRuns`
(Checkpoint), `MaxJobs` and `MaxNumf` (Restart), `Questions` and `RandRuns`
(Startup), `Calls` (RingAllreduce), `MaxNeighbors` (Lattice, where a file
without terminator grows the list); `DropI`, `Samples` and `SAMPS` are the
program's own parameters.

## 4. Fairness and deadlock

Weak fairness per rank: a rank is a process that keeps running, and MPI delivers
a message that is posted to a rank waiting for it. In `ReplicaExchange` and
`RingAllreduce` the fair step is restricted to `Unbuffered`: a rank is obliged
to go on only when it could with no send buffered at all. So the liveness
properties do not lean on buffering, while the safety properties hold with any
amount of it. In `WangLandau` a collective call that all ranks have entered
returns. In `Checkpoint` nothing obliges a job to crash or to be restarted.
In `Startup` it is enough that some rank goes on when one can
(`WF_vars(Next)`): every behaviour is finite, and what matters is where it ends.
The parser of `Lattice` is sequential code, which goes on. `Restart` has no
liveness property and no fairness. The repair loop of
`decode()` draws sites at random and is not given fairness:
`RepairAdvances` says that every hit brings it nearer to its end and that there
is always a site left to hit, so it ends with probability one.

TLC checks for deadlock in all runs but three, where the system really may stop:
`checkpoint` and `wl_restart`, where a job has finished or no further one is
started (`MaxRuns`, `MaxJobs`), and `startup`, where the job has ended or all
questions are answered (`AllStartOrNone` says that it stops nowhere else).
Elsewhere the finished system is an
explicit stuttering action (`Done`).

## 5. Theorems

`WangLandau_proofs!StaysInStep`: `Spec => []RanksInStep`, for every number of
ranks, bins and moves, every schedule and every flatness, from
`SizeAssumption`, `LevelAssumption` and `ScheduleAssumption`.
`RanksInStep` is not inductive: it speaks of ranks that wait in collective
calls, and between calls they differ. What is invariant is where they are
heading. `Ahead` runs a rank's remaining local segments on its own `dos` record:
at most three segments lead to the next call, and the visits made on the way do
not enter the record. `BoundFor(r)` is the call rank r is heading for with the
record it will have there, and `SameDestination` says it is the same for all
ranks. `SegmentKeepsDestination`: a local step leaves its rank's destination as it
is. `Together`: a collective call gives every rank the same sum, and so the same
new destination. With `Shape` (the functions have their domains, and `at` is a
segment or a call) this is the inductive invariant `IInv`. The argument never looks into flatness or ln(g): it
needs only that what decides a branch is in `dos` or was summed.

`LevelsVisitAll` states `LevelVisitsEveryBin` from the types alone: only
`TestMain` ends a level, and a bin without a visit makes the minimum zero.
`VisitsMergedOnce` and `SamplesHaveVisits` state `VisitsCountOnce` and
`SamplesAtMostVisits` on one condition, `Fits`: what all ranks count in one sweep,
at most `NRanks * (NMoves + 1)`, is below `CounterMod`. It is needed:
`wl_counter_overflow` is an instance that violates it. The invariant `Counted`
extends `IInv`. It does not speak of the histogram a rank has, since ranks merge
at different times, but of the one it is bound for (`Destined`): its total is that
of the ranks' settled visits (`Conserved`), those since the last reset (`Lasting`)
less those still in counters that will not be merged on the way (`Unmerged`), and
no bin has more settled samples than it has visits (`Supported`). A local step
changes neither side (`Faithful`); when a collective call returns, the histogram
all ranks are bound for stays, gets the summed counts, or is cleared (`Fates`).
`Walker` bounds a counter by the moves made and says that `wllngi` is the counts
weighted by ln(f). The sums over ranks and bins, `MapThenSumSet`, need laws (any
order, term by term, rows or columns first) whose usual proof is an induction with
an operator; they are proved once with a set of subsets in its place (`Subsets`,
by least counterexample), for the function that a sum picks its elements with
(`Picked`).

`ReplicaExchange_proofs`: `TypeCorrect`, `WalkersStayConsistent`, `NoMessageMistaken`,
`NothingPilesUp` and `AttemptsAreMeetings` state `TypeOK`, `WalkerConsistent`,
`AwaitedMessageFirst`, `ChannelsBounded` and `AttemptsCountMeetings`, and
`SwapImplementsExchange` states the refinement of `ReplicaPermutation`, all for
every number of ranks greater than one, every schedule and any buffering, from
the assumptions of the module. One invariant carries them all. `Scheduled` says
where a rank is in its schedule, as a function of its sweeps: the parity of its
round, its partner, its role, and what it has counted. `Pair` speaks of two
neighbours: how far either is ahead of the other (at most one meeting, seen from
the pair, however far apart the ends of the ladder are), and, for each such
position, exactly which messages are in the two channels between them. What is
first in a channel, how many wait, and what a received energy, flag or
configuration is, are read off from it. `Strangers` says that no other channels
are used, `EnergyKept` that an energy on its way is that of its sender's
configuration. For the refinement, `Held` is computed for each pair of positions;
the one step that changes it is the first copy of an accepted exchange, and it
changes both ends at once. `EvenRanksPairUp` says that
`EveryProposalHasAPartner`, which `exchange_odd_ranks` refutes, does hold for an
even number of ranks.

`RingAllreduce_proofs`: `RingSums`, `ReceivesExpected` and `RingIsCollective` state
`EveryContributionOnce`, `ExpectedSegment` and the refinement of `Allreduce`, for any
number of ranks greater than one, length and number of calls, from
`RingAssumption`. The iterations of all phases and calls are numbered
consecutively. `Flow`: what is in a channel are the iterations its sender has
sent and its receiver has not taken, in order, and an iteration's number
determines segment, size, phase and call, so one tag is enough. `Following`: a
rank is ahead of another by less than the distance between them around the ring;
this bounds how far a fast rank can run into the next call, and is also why
nobody leaves a call that somebody has not entered. `Summed`: in the
scatter-reduce a segment holds the contributions of exactly the ranks it came
through, in the allgather of all.

`Lattice_proofs!MutualNeighbours`: `Spec => []NeighboursMutual`, for every
lattice size, number of axes and coupling file, from `SetupAssumption`. Its heart
is `WrapOnce`, arithmetic on one coordinate; `IInv` says that the list holds
offsets and that the finished table is the list applied to every site.
`TableSuitsAlloy`: when the file lists with each offset its opposite once
(`Paired`), the finished table has the involution of neighbours that
`Alloy!NeighbourAssumption` asks for. That the two are in the same shell is a
property of the file, and stays an assumption of `Alloy`.
`TablesFaithful` states `TablesOfFile`, for every file and number of shells. The
invariant follows the parser line by line: `Cut` says that NS has counted, shell by
shell, the lines read so far, `Kept` that each is stored, `Coupled` that a shell's
couplings are those of its last line. `ShellFollows` and `NoShellAfterEnd` relate
the line's number to the shell the file says it is in.

`Alloy_proofs`: `CountsNeverDrift`, `CompositionKept`, `OutsideFromStartOnly` and
`SlotsAreCaptured` state `CountsMatch`, `CompositionConserved`,
`OutsideOnlyFromStart` and `ArrivalsCaptured` for every number of sites, elements
and shells, every table of neighbours, window and output of the network, from
`NeighbourAssumption`, `CompositionAssumption`, `WindowAssumption` and
`EnergyAssumption` (energies are whole numbers). `OutsideFromStartOnly` is what
remains of a valid index (section 6): a walker without a bin is one that
`initWL()` left at the upper edge or a bin below the window (`EdgesOfBins`), and
it stays there. The heart is `UpdateIsExact`: the counts change by the bonds at
the two sites, each seen from both ends. It counts bonds: the ordered pairs (site, neighbour) of a kind before and after the
swap differ in those that begin or end at the two sites, and the involution maps
those that end there onto those that begin there; the bonds between the two
sites keep their kind, which is why the code may skip them. `RepairEnds` is a
pigeonhole: when no element has more atoms than it should, none has fewer, since
the totals agree. `RepairAlwaysAdvances` states `RepairAdvances`: the atoms too many
are a finite set (`Surplus`), which loses the last one of the drawn element and gains
none, and the list of sites of an overfull element is never shorter than its count.

`Checkpoint_proofs!OneSampleForEachIndex` and `AveragesComplete`:
`Spec => []SamplesCountedOnce` and `Spec => []StatComplete`, for any number of
ranks, samples, jobs and looks at the clock, from `JobAssumption`. The invariant
says how far the samples in a rank's sums are ahead of its index: by one between
`TakeSample` and `Advance` and while the files of a stop are written, by none
elsewhere; that a file has as many as its index says; and that only complete sums
were sent. Neither theorem depends on whether the ranks' files belong to one stop.

`Restart_proofs!RanksShareTheWindow` and `WalkersBelowTheEdge`:
`Spec => []SameWindow` and `Spec => []NotAboveWindow`, for any number of ranks,
window, bin width, energies and files, and through every crash and restart, from
`WindowAssumption`. The properties speak of the ranks when they are in step; the
invariant says what each rank's window is at each point of `initWL()` in terms of
the two numbers all ranks got from the reductions (`Extended`, `WholeBins`), and
that these are the same (`SameLadder`). That a lowest and a highest energy exist
(`Extremes`) is an induction over the number of ranks, by least counterexample
(`WFMin`), since the library's induction rule takes an operator.
`WindowTyped` is the type invariant of the window's variables.

`FactorsOfLevels`, `CutsNeverRaised` and `DensitiesSurvive` state `FactorOfLevel`,
`CutNeverRaised` and `DensityOfEachBin`, through every crash, file and restart, for
any number of levels, from `RestartAssumption` too. The invariant `Leveled` says
of each rank and of each file with a header that level number, ln(f) and cut
belong together. Dividing level after level and dividing once by the power
(`ModFactorInit / pow(..)`, `DivDiv`) give the same integer, and the cut's one
truncation on restart loses no more than the per-level ones (`Truncated`).
`Dense` says the same of ln(g): the rows of every file, up to where it was cut
off, are the densities of its window (`RowsOnDisk`), and a rank that has read one
continues from it.

`Startup_proofs!NetworkSeesConfiguration`: for every side of the lattice and
every number of elements, each voxel is inside the grid and a network that
returns its input returns the configuration. The three coordinates of a voxel
give those of the site back (`VoxelsDistinct`).

`Startup_proofs!BackendsImplementPredictor`: `Spec => P!Spec`, for any number of
ranks, nodes and devices, and whatever a server held before, from
`NodeAssumption` and `NoneAssumption` (None is none of the values that stand for
something). The mapping is the identity on `nets`, `asked` and `reply`;
`LoadModels`, `Pose` and `Answered` are the steps that `Predictor` sees, and
`MostStepsAside` shows that the rest of the program's steps touch neither the
networks nor the calls. The invariant says where the tensors of a call are from
`Put` to `Take` (`TensorsKept`) and that the models stay under their keys
(`ModelsKept`), although every rank writes to the same servers (`Write`).

`Startup_proofs!StreamsStayApart`: a draw of KISS keeps different registers k
different and equal j equal, for all words. The two shift-and-xor steps are
undone bit by bit.

`Startup_proofs`: `StartTypeCorrect`, `AllStartAlike`, `VoxelsRecover`,
`OverrunsAreKnown` and `SoundJobsAreNotEnded` state `TypeOK`, `SameStart`,
`VoxelsRecoverAtoms`, `OnlyKnownOverruns` and `SoundJobsStart`, for any number of ranks,
job, seeds, numbers drawn and order of the ranks, from `NodeAssumption`,
`NoneAssumption` and `JobAssumption` (a value that converts is a number, and so are
offsets and elements of the coupling file; a fraction has
a positive denominator; the bounded `RandRuns` are long enough for the lattice). Two
invariants carry them. `SInv` follows the configuration from the file to the ranks:
what `ReadInput()` accepts (`Accepted`) is what a rank past the reading has
(`Informed`); rank 0's list has a run of each element's share (`HasShares`) and only
elements in it, since a draw that is not 0 or UINT_MAX gives an index below NE
(`IndexInRange`, arithmetic on the two halves of a word); shuffling exchanges places, so
it keeps the copies of each element (`ShuffleConserves`), and sites and places of the
list correspond (`SitesAreNumbered`), so the counts of the list are those of the
configuration (`PlacedCounts`); and for every other rank, configuration and counts
have not been sent, are among its messages in their order, or have arrived
(`OnItsWay`). `Endings` says of a job that was ended why: two elements of NE have a
place in the table of couplings (`PairInTable`), and one wrap brings a neighbour back
onto the lattice when its offset is not longer than a side (`Wrapped`); that the list has
room for the shares is `FractionsSuffice`, by exact sums of the fractions above 0, and the networks'
part is `TensorsKept` of the backends' invariant. The shuffle, the sum of the fractions,
the joined shares and the value of a word are recursive functions; what they compute
is proved by induction over a set of good arguments in place of a predicate
(`UpTo`, from the well-foundedness of <, and `TraceExists`, that such a function is
defined).

That proof failed at first for a reason: `OnlyKnownOverruns` had the fractions' whole sum
for its second reason, and a negative fraction, which nothing refuses, can bring
the sum back to 1 while another is 3/2. The property now speaks of the fractions above
0, and the `startup` run has such a file.

Model-checked only: the liveness properties (`AllFinish`, `CollectivesReturn`,
`AllReturn`, `AllLeave`, `CompleteFilesEnd`, `AllStartOrNone`), which are beyond the
prover. Every safety property that a passing run checks is stated by a theorem.

## 6. Where the code departs from its documentation

Each of the first three is the counterexample of a run.

- **An odd number of ranks** (`exchange_odd_ranks`; `pt.cc:117`). In an even
  round every even rank proposes upward, the last one included. `pt.hpp:50-53`
  pairs each proposer with a rank that accepts; nothing requires an even number.
- **Narrow counters** (`wl_counter_overflow`; `main.cc:151`). The ranks' visits
  are summed as `unsigned short`. `sim_context.hpp:138` calls the result the
  rank-summed delta; from N^3 * nprocs = 65536 on a bin can wrap, e.g. with
  N = 10 and 66 ranks, long before a rank's own counts do. The trace ends with
  the return of that Allreduce.
- **Samples of rejected configurations** (`alloy_sample`; `wanglandau.cc:265`).
  After a rejection the order parameter is computed before the trial is undone,
  and filed under the bin of the configuration kept. `alloy.hpp:116` speaks of
  the current configuration.

Seen while modelling, and modelled as the code has it, without a counterexample
of its own:

- Walkers may start outside the bins. The relaxation of `initWL()` stops at the
  upper edge inclusive (`wanglandau.cc:123`), whose bin is one too many, and below
  the lower edge it only prints a note. `wanglandau.hpp:20-21` says the loop then
  starts inside its window; `wanglandau.cc:235` uses the bin as an index before line
  236 asserts that it is one. `alloy_moves` has such walkers: `IndexOutOfBins` is
  their first move, and `OutsideOnlyFromStart` says that they are the only ones.
  With doubles the quotient at the edge may also round down to the last bin;
  the model has exact arithmetic.
- The parser of the coupling file never tests for its end (`alloy.cc:63`): on a
  file without a line after its last shell it never ends. The example files have
  such a line (distance -1); no document mentions it.
- `max_neighbors` is called a hard cap (`sim_context.hpp:183`); nothing enforces
  it, and `ini_apos()` writes past its buffer of that size (`alloy.cc:144`). A
  negative value ends the job in `nlist.reserve()` (`sim_context.cc:32`).
- With one element, which `ReadInput()` accepts, rank 0 prints a coupling that the
  table does not have (`alloy.cc:96`). The elements in the coupling file are not
  compared with NE (`alloy.cc:84`), nor are its offsets with the lattice's side
  (`alloy.cc:212`): `ini_coupling()` writes, and `ini_W()` reads, outside an array.
- `PAD` is to round the input of the network up to a multiple of 16
  (`sim_context.hpp:201`); for odd N it is halved with a remainder and the size
  is one short (`alloy.cc:35`).
- The `COMM_RING` calls in `main.cc:145-148` pass `unsigned short` data and
  vectors where `RingAllreduce` takes doubles, with a length computed before
  `initWL()` counts the bins: the option does not build as it stands. The ring
  is modelled as its header says it is called, with equal lengths.
- The production loop clears `wlHi` and not `wllngi` (`main.cc:216`), so the
  acceptance test adds visits already merged; `sim_context.hpp:143` calls it
  per-step. `LocalDeltaWhileSampling` is claimed of the other two loops only.
- The bin conversion rounds toward zero (`wanglandau.cc:222`), so a move to up
  to one bin width below the window counts as bin 0; `wanglandau.hpp:105` says
  out-of-range targets are rejected.
- A snapshot's comment line has the energy before the move (`wanglandau.cc:231`),
  its sites are the trial's, accepted or not (`sim_context.hpp:273`).
- `state<r>.input` is written "for restart" (`pt.hpp:74`) and never read.
- A job that dies between the files of two ranks leaves counts of different
  stops; the next job reads them without noticing (`torn` in `Checkpoint`).
- `wllng_prior` is never cleared: each level scales and folds all of it again
  (`wanglandau.cc:207`). It is not in the DOS files either.
- `readg()` takes any file as it is (`wanglandau.cc:63-76`): one that was cut off
  leaves bins at 0 (`torn`), one of another window gives densities to bins of
  other energies (`moved`). `write_DOS_H()` opens the file it replaces with "w".
- The checkpoints keep six digits of ln(f) (`%g`, `wanglandau.cc:90`).
- `ReadInput()` does not check that the fractions add up to at most 1, which
  `sim_context.hpp:262` says they do ("Sums to ~1.0"), nor that none is negative;
  `ini_alloy()` then writes past its list (`alloy.cc:181`), with 3/2 and -1/2 too. Nor does it compare the default element table
  with `NE` (`parameter.cc:64`).
- `ini_alloy()` tests the length of the composition (`alloy.cc:172`), which
  `ReadInput()` has tested already: that end of the job is never reached.
- The TensorFlow backend copies from an output without looking at its size
  (`tf_backend.cc:49-58`); the LibTorch backend takes one that is too large and
  reads the wrong numbers of it (`torch_backend.cc:95`). With LibTorch the encoder
  may come from the alloy's own file and the decoder, when that one is missing,
  from a file of another alloy (`torch_backend.cc:30-33`).
- `smartredis_backend.cc:11-12` speaks of the local rank; `main.cc:59` passes the
  global one.
- When only a rank other than 0 fails, its message is not printed
  (`main.cc:52`, `diagnostic.hpp:36`).
- `rand.hpp:6-7` says KISS drives the shuffle; `shuffle()` uses `std::rand()`
  (`alloy.cc:108`). The first draw drops the top bit of the seed, so two seeds
  that differ in it alone give one stream. `rand() + 19 * rank + 19273`
  (`main.cc:47`) and `rank * rand()` (`pt.cc:57`) are signed and may overflow; the
  latter is 0 on rank 0 in every job.
- The attempt and acceptance counters of the swaps are not in the checkpoint
  files: the statistics of a restarted job are those of its last part.
- `avgM4` accumulates M * M, not its square (`pt.cc:201`); a one-byte `bool` is
  sent as `MPI_LOGICAL` (`pt.cc:94`); `static_cast<int>(pow(2, numf))` overflows
  from level 31 on (`main.cc:130`); N * N * N overflows from N = 1291 on.
- Accepted parameters under which the loops never end: an `iteration_factor` of
  at most 1 (`parameter.cc:111`), or, with GLOBAL_UPDATE,
  `mod_factor_init >= 1 / flatness` (`main.cc:123`).

## 7. What is not modelled

- Arithmetic over doubles (observables, heat capacity, the formula of the
  temperature ladder, `thermoqs()`), and output that no part of the program reads
  again (`misc`, timing files, `write_pos()`, the frames' text).
- Rounding of the composition's fractions: they are exact. Values TOML allows and
  no range test refuses (`nan`), and the narrowing of its 64-bit integers.
- `readmask()`, `read_state()`, `AllgatherInputLengths()`, `gettimeseed()`,
  `gaussian()`: never called.
- `std::rand()` and the `mt19937` of `pt.cc`: external, any value.
- What a network computes, and what MPI, TOML, redis and the frameworks do beyond
  how this program uses them. In `Alloy` the decoder returns anything.
- A file torn within one `fwrite` of a stop in `Checkpoint`.
- The number of sweeps in the DOS files' headers, and the offset `maxg` of ln(g).
- `kernels/` (stand-alone GPU benchmarks, which time library calls and share no
  code or state with the simulation), training scripts, build files.
- Memory layout, memory that runs out, and integers that overflow their type when
  arrays are sized (`Startup` takes both to suffice).

## 8. Plan

Done, in this order: `ReplicaPermutation` and `ReplicaExchange`, `WangLandau`,
`Alloy`, `RingAllreduce` and `Allreduce`, `EnergyWindow`, `Checkpoint`, `Lattice`,
`Restart`, `Parameters`, `Rand`, `VaeInput`, `Backend` with `Predictor`, `Startup`,
with the theorems of section 5.

Open: `WangLandau` with `Allreduce` in place of `Collective`, which would join the ring
to its caller.
