------------------------------ MODULE Restart -------------------------------
(***************************************************************************)
(* The levels of a Wang-Landau run, the files it leaves and the restart    *)
(* from one of them: write_DOS_H() and readg() (src/src/wanglandau.cc),    *)
(* initWL() around readg(), and the loops of main() (src/src/main.cc) that *)
(* change what is written.                                                 *)
(*                                                                         *)
(* At level numf rank 0 writes DOS_H_iter<numf>.dat now and then, when the *)
(* level ends and after production, each time from the start.  A job may   *)
(* die at any point, in the middle of a file too.  Whoever starts the next *)
(* job may copy any of these files to g.dat, which every rank reads.  The  *)
(* ladder of the new job may reach other energies than that of the old.    *)
(*                                                                         *)
(* ln(g) of a bin is the set of what it was built from: <<energy, level>>  *)
(* says that visits counted at this energy in this level are in it.  From  *)
(* the barrier on the ranks are in step and have equal copies (WangLandau, *)
(* RanksInStep), so a sweep with its merge is one action for all.          *)
(***************************************************************************)
EXTENDS EnergyWindow, Sequences

CONSTANTS ModFactorStart,   \* wang_landau.mod_factor_init
          ModFactorFinal, IterationFactor,
          FirstCut,   \* the gate opens below bin D1BINS / FirstCut (0.2 in the program)
          CutStep,    \* each level lowers it by D1BINS / CutStep (0.01 in the program)
          MaxNumf, MaxJobs,   \* bounds of the model: file names, jobs started
          NoFile

ASSUME RestartAssumption ==
  /\ ModFactorStart \in Nat \ {0} /\ ModFactorFinal \in Nat
  /\ IterationFactor \in Nat \ {0, 1}
  /\ FirstCut \in Nat \ {0} /\ CutStep \in Nat \ {0}
  /\ MaxNumf \in Nat \ {0} /\ MaxJobs \in Nat \ {0}

VARIABLES numf, ModFactorInit, lnwlf,
          E_0,       \* the bin below which the gate opens
          wllng,     \* wllng[r][b]: what ln(g) of bin b was built from
          visited,   \* bins with a visit in this level's histogram
          dos,       \* dos[n]: DOS_H_iter<n>.dat
          gdat,      \* g.dat
          jobs,      \* jobs started
          torn,      \* history: a job read a file that was cut off
          moved      \* history: a job read a file of another window

levels == <<numf, ModFactorInit, lnwlf, E_0, wllng, visited>>
files == <<dos, gdat, jobs>>
histories == <<torn, moved>>
windowVars == <<E, ladder, window, D1BINS>>
allVars == <<vars, levels, files, histories>>

Bins(r) == 0 .. D1BINS[r] - 1
Energy(r, b) == WLD1min[r] + b * BinWidth
FirstE_0(r) == D1BINS[r] \div FirstCut

(* numf is 1 and ln(g) is 0 when initWL() begins. *)
FreshLevels == /\ numf' = [r \in Rank |-> 1]
               /\ ModFactorInit' = [r \in Rank |-> ModFactorStart]
               /\ lnwlf' = [r \in Rank |-> ModFactorStart]
               /\ E_0' = [r \in Rank |-> 0]
               /\ wllng' = [r \in Rank |-> <<>>]
               /\ visited' = {}

InitRestart == /\ Init
               /\ numf = [r \in Rank |-> 1]
               /\ ModFactorInit = [r \in Rank |-> ModFactorStart]
               /\ lnwlf = [r \in Rank |-> ModFactorStart]
               /\ E_0 = [r \in Rank |-> 0]
               /\ wllng = [r \in Rank |-> <<>>]
               /\ visited = {}
               /\ dos = [n \in 1 .. MaxNumf |-> NoFile]
               /\ gdat = NoFile
               /\ jobs = 1
               /\ torn = FALSE /\ moved = FALSE

WindowStep == /\ \/ ReduceMin \/ ReduceMax
                 \/ \E r \in Rank : Extend(r) \/ CutBins(r) \/ Relax(r) \/ Relaxed(r)
              /\ UNCHANGED <<levels, files, histories>>

(* What fscanf() finds in a file: an empty one changes nothing, rows that  *)
(* are missing leave their bins at 0, and the column of energies is not    *)
(* looked at.                                                              *)
RowLate(g, b) == IF b + 2 <= Len(g.rows) THEN g.rows[b + 2] ELSE {}   \* faulty variant
Row(g, b) == IF b < Len(g.rows) THEN g.rows[b + 1] ELSE {}
HasHeader(g) == g # NoFile /\ g # <<>>

(* Faulty variant: the cut is that of the first level. *)
CutOfFirst(r, n) == FirstE_0(r)
CutOnRestart(r, n) == FirstE_0(r) - ((n - 1) * D1BINS[r]) \div CutStep

readg(r) ==
  /\ pc[r] = "readg" /\ Goto(r, "barrier")
  /\ IF HasHeader(gdat)
     THEN /\ numf' = [numf EXCEPT ![r] = gdat.numf]
          /\ ModFactorInit' = [ModFactorInit EXCEPT ![r] = gdat.lnwlf]
          /\ wllng' = [wllng EXCEPT ![r] = [b \in Bins(r) |-> Row(gdat, b)]]
          /\ torn' = (torn \/ Len(gdat.rows) < gdat.bins)
          /\ moved' = (moved \/ gdat.min # WLD1min[r] \/ gdat.bins # D1BINS[r])
     ELSE /\ wllng' = [wllng EXCEPT ![r] = [b \in Bins(r) |-> {}]]
          /\ UNCHANGED <<numf, ModFactorInit, histories>>
  /\ E_0' = [E_0 EXCEPT ![r] = CutOnRestart(r, numf'[r])]
  /\ UNCHANGED <<windowVars, lnwlf, visited, files>>

LoopOrProduction(factor) == IF factor > ModFactorFinal THEN "wl" ELSE "production"

(* The end of initWL(), and the loop from ModFactorInit on. *)
Begin == /\ AllAt("barrier")
         /\ AllGoto(LoopOrProduction(ModFactorInit[0]))
         /\ lnwlf' = ModFactorInit
         /\ UNCHANGED <<windowVars, numf, ModFactorInit, E_0, wllng, visited>>
         /\ UNCHANGED <<files, histories>>
-----------------------------------------------------------------------------
Sampling == AllAt("wl") \/ AllAt("production")

Counted(b) == wllng' = [r \in Rank |-> [wllng[r] EXCEPT ![b] =
                                          @ \cup {<<Energy(r, b), numf[r]>>}]]

(* A sweep of all ranks with its merge, taken apart into the bins it       *)
(* visits.                                                                 *)
Sweep == /\ Sampling
         /\ \E b \in Bins(0) : Counted(b) /\ visited' = visited \cup {b}
         /\ UNCHANGED <<vars, numf, ModFactorInit, lnwlf, E_0, files, histories>>

DosFile == [numf |-> numf[0], lnwlf |-> lnwlf[0],
            min |-> WLD1min[0], bins |-> D1BINS[0],
            rows |-> [x \in 1 .. D1BINS[0] |-> wllng[0][x - 1]]]

(* Faulty variant: the file is named after the level that begins. *)
WriteAsNext == dos' = [dos EXCEPT ![numf[0] + 1] = [DosFile EXCEPT !.numf = @ + 1]]
write_DOS_H == dos' = [dos EXCEPT ![numf[0]] = DosFile]

(* Every 100 sweeps of the level. *)
Checkpoint == /\ AllAt("wl") /\ visited # {}
              /\ write_DOS_H
              /\ UNCHANGED <<vars, levels, gdat, jobs, histories>>

EndLevel ==
  /\ AllAt("wl") /\ visited = Bins(0)     \* what flatWL() implies of the histogram
  /\ write_DOS_H
  /\ numf' = [r \in Rank |-> numf[r] + 1]
  /\ E_0' = [r \in Rank |-> E_0[r] - D1BINS[r] \div CutStep]
  /\ lnwlf' = [r \in Rank |-> lnwlf[r] \div IterationFactor]
  /\ visited' = {}
  /\ AllGoto(LoopOrProduction(lnwlf'[0]))
  /\ UNCHANGED <<windowVars, ModFactorInit, wllng, gdat, jobs, histories>>

EndProduction == /\ AllAt("production") /\ AllGoto("done")
                 /\ write_DOS_H
                 /\ UNCHANGED <<windowVars, levels, gdat, jobs, histories>>

Die == pc' = [r \in Rank |-> "dead"]

Crash == /\ \A r \in Rank : pc[r] \notin {"done", "dead"}
         /\ Die
         /\ UNCHANGED <<windowVars, levels, files, histories>>

(* A file is emptied when it is opened, and only a part of it may be on    *)
(* disk when the job dies.                                                 *)
CrashInFile == /\ Sampling /\ Die
               /\ \E part \in {<<>>} \cup {[DosFile EXCEPT !.rows = SubSeq(@, 1, n)] :
                                            n \in 0 .. D1BINS[0] - 1} :
                    dos' = [dos EXCEPT ![numf[0]] = part]
               /\ UNCHANGED <<windowVars, levels, gdat, jobs, histories>>

(* A new job, with g.dat as it is or one of the DOS files in its place; it *)
(* begins with parallel tempering.                                         *)
Submit == /\ AllAt("dead") /\ jobs < MaxJobs
          /\ jobs' = jobs + 1
          /\ gdat' \in {gdat} \cup ({dos[n] : n \in DOMAIN dos} \ {NoFile})
          /\ E' \in [Rank -> Energies]
          /\ AllGoto("ptEmin")
          /\ ptEmin' = [r \in Rank |-> 0] /\ ptEmax' = [r \in Rank |-> 0]
          /\ WLD1min' = [r \in Rank |-> ConfigMin]
          /\ WLD1max' = [r \in Rank |-> ConfigMax]
          /\ D1BINS' = [r \in Rank |-> 0]
          /\ FreshLevels
          /\ UNCHANGED <<dos, histories>>

Next == \/ WindowStep \/ Begin \/ Sweep \/ Checkpoint \/ EndLevel \/ EndProduction
        \/ Crash \/ CrashInFile \/ Submit
        \/ \E r \in Rank : readg(r)

Spec == InitRestart /\ [][Next]_allVars
-----------------------------------------------------------------------------
(* IterationFactor to the power of n. *)
Power[n \in Nat] == IF n = 0 THEN 1 ELSE IterationFactor * Power[n - 1]

(* However often the run was stopped and restarted, and from whichever of  *)
(* its files, cut off or not, the level number and ln(f) belong together:  *)
(* no level is run with the factor of another.                             *)
FactorOfLevel == Sampling => \A r \in Rank :
  lnwlf[r] = ModFactorStart \div Power[numf[r] - 1]

(* Each bin has ln(g) of its own energy, from every level before this one, *)
(* as if the run had never stopped - unless a job read a file that was cut *)
(* off, or its ladder gave it another window than the file's, of which the *)
(* program notices neither.                                                *)
DensityOfEachBin == Sampling /\ ~torn /\ ~moved =>
  \A r \in Rank : \A b \in Bins(r) :
    /\ \A c \in wllng[r][b] : c[1] = Energy(r, b)
    /\ \A n \in 1 .. numf[r] - 1 : <<Energy(r, b), n>> \in wllng[r][b]

(* The gate for global moves is never opened wider by a restart: the cut   *)
(* is at most that of a run that was not stopped, from which it differs    *)
(* only by the truncation, by less than one bin for each level.            *)
CutNeverRaised == Sampling => \A r \in Rank :
  LET unstopped == FirstE_0(r) - (numf[r] - 1) * (D1BINS[r] \div CutStep)
  IN  E_0[r] \in unstopped - (numf[r] - 1) .. unstopped
=============================================================================
