----------------------------- MODULE Checkpoint -----------------------------
(***************************************************************************)
(* The sampling loop of parallel_tempering() (src/src/pt.cc) with its stop *)
(* on the wall clock, the files it leaves, the restart from them, and the  *)
(* gathering of the averages after the last sample.                        *)
(*                                                                         *)
(* Every CHPT_STEPS samples rank 0 looks at its clock and broadcasts       *)
(* whether to stop.  A broadcast does not hold up its root.  A rank that   *)
(* is told to stop writes its configuration to state<rank>.input, its      *)
(* sample count and running sums to mc<rank>.input, and exits.  The job    *)
(* may also die at any point, and is then started again like after a stop. *)
(* The exchanges of ReplicaExchange are part of what changes a rank's      *)
(* configuration here.                                                     *)
(***************************************************************************)
EXTENDS Integers, Sequences

CONSTANTS NRanks, Config,
          SAMPS,        \* samples to take
          CHPT_STEPS,   \* samples between two looks at the clock
          MaxRuns       \* bound of the model: jobs started

Rank == 0 .. NRanks - 1

ASSUME JobAssumption == /\ NRanks \in Nat \ {0} /\ SAMPS \in Nat
                        /\ CHPT_STEPS \in Nat \ {0} /\ MaxRuns \in Nat \ {0}

VARIABLES run,     \* jobs started
          pc,      \* "loop", "bcast", "state", "mc", "exit", "gather", "done", "dead"
          mcs,     \* the sample index
          samples, \* history: samples in the running sums avgE, avgM, ...
          Atom,    \* the configuration
          stop,    \* stop[r]: broadcasts rank r has not received yet
          state,   \* state[r]: the configuration in state<r>.input
          mc,      \* mc[r]: the count and the sums in mc<r>.input
          sums,    \* sums[r]: what rank r has sent to rank 0 for the averages
          stat,    \* stat[n]: the samples in row n of stat<irun>.dat
          torn     \* history: a job was started from files of different stops

vars == <<run, pc, mcs, samples, Atom, stop, state, mc, sums, stat, torn>>
files == <<state, mc, torn>>
results == <<sums, stat>>
NoFile == [mcs |-> -1, samples |-> -1]
NotSent == -1

Goto(r, a) == pc' = [pc EXCEPT ![r] = a]
Loop(m) == IF m < SAMPS THEN "loop" ELSE "gather"

Init == /\ run = 1
        /\ pc = [r \in Rank |-> Loop(0)]
        /\ mcs = [r \in Rank |-> 0]
        /\ samples = [r \in Rank |-> 0]
        /\ \E c \in Config : Atom = [r \in Rank |-> c]
        /\ stop = [r \in Rank |-> <<>>]
        /\ state = [r \in Rank |-> <<>>]
        /\ mc = [r \in Rank |-> NoFile]
        /\ sums = [r \in Rank |-> NotSent]
        /\ stat = <<>>
        /\ torn = FALSE

Advance(r) == /\ mcs' = [mcs EXCEPT ![r] = @ + 1]
              /\ Goto(r, Loop(mcs[r] + 1))

(* SEP sweeps with their exchanges, then one sample. *)
TakeSample(r) ==
  /\ pc[r] = "loop"
  /\ \E c \in Config : Atom' = [Atom EXCEPT ![r] = c]
  /\ samples' = [samples EXCEPT ![r] = @ + 1]
  /\ IF mcs[r] % CHPT_STEPS = 0 THEN Goto(r, "bcast") /\ UNCHANGED mcs
                                ELSE Advance(r)
  /\ UNCHANGED <<run, stop, files, results>>

Obey(r, b) == IF b THEN Goto(r, "state") /\ UNCHANGED mcs ELSE Advance(r)

(* Faulty variant: only the order to stop is sent. *)
BroadcastStop(r) ==
  /\ pc[r] = "bcast" /\ r = 0
  /\ \E b \in BOOLEAN :
       /\ Obey(r, b)
       /\ stop' = [q \in Rank |-> IF q = 0 \/ ~b THEN stop[q] ELSE Append(stop[q], b)]
  /\ UNCHANGED <<run, samples, Atom, files, results>>

Broadcast(r) ==
  /\ pc[r] = "bcast" /\ r = 0
  /\ \E b \in BOOLEAN :
       /\ Obey(r, b)
       /\ stop' = [q \in Rank |-> IF q = 0 THEN stop[q] ELSE Append(stop[q], b)]
  /\ UNCHANGED <<run, samples, Atom, files, results>>

(* Faulty variant: a rank looks at its own clock. *)
OwnClock(r) ==
  /\ pc[r] = "bcast" /\ r # 0
  /\ stop[r] # <<>>
  /\ \E b \in BOOLEAN : Obey(r, b)
  /\ stop' = [stop EXCEPT ![r] = Tail(@)]
  /\ UNCHANGED <<run, samples, Atom, files, results>>

Receive(r) ==
  /\ pc[r] = "bcast" /\ r # 0
  /\ stop[r] # <<>>
  /\ Obey(r, Head(stop[r]))
  /\ stop' = [stop EXCEPT ![r] = Tail(@)]
  /\ UNCHANGED <<run, samples, Atom, files, results>>

write_state(r) == /\ pc[r] = "state" /\ Goto(r, "mc")
                  /\ state' = [state EXCEPT ![r] = <<Atom[r]>>]
                  /\ UNCHANGED <<run, mcs, samples, Atom, stop, mc, torn, results>>

(* Faulty variant: the sample just taken is not counted. *)
WriteMcUncounted(r) ==
  /\ pc[r] = "mc" /\ Goto(r, "exit")
  /\ mc' = [mc EXCEPT ![r] = [mcs |-> mcs[r], samples |-> samples[r]]]
  /\ UNCHANGED <<run, mcs, samples, Atom, stop, state, torn, results>>

WriteMc(r) == /\ pc[r] = "mc" /\ Goto(r, "exit")
              /\ mcs' = [mcs EXCEPT ![r] = @ + 1]
              /\ mc' = [mc EXCEPT ![r] = [mcs |-> mcs'[r], samples |-> samples[r]]]
              /\ UNCHANGED <<run, samples, Atom, stop, state, torn, results>>

(* The averages are gathered on rank 0, which waits for all of them and    *)
(* writes one row for each rank; the others go on.                         *)
Gather(r) == /\ pc[r] = "gather" /\ r # 0 /\ Goto(r, "done")
             /\ sums' = [sums EXCEPT ![r] = samples[r]]
             /\ UNCHANGED <<run, mcs, samples, Atom, stop, files, stat>>

Report(r) == /\ pc[r] = "gather" /\ r = 0 /\ Goto(r, "done")
             /\ \A q \in Rank \ {0} : sums[q] # NotSent
             /\ stat' = [q \in Rank |-> IF q = 0 THEN samples[0] ELSE sums[q]]
             /\ UNCHANGED <<run, mcs, samples, Atom, stop, files, sums>>

Crash == /\ \E r \in Rank : pc[r] \notin {"done", "exit", "dead"}
         /\ pc' = [r \in Rank |-> "dead"]
         /\ stop' = [r \in Rank |-> <<>>]
         /\ sums' = [r \in Rank |-> NotSent]
         /\ UNCHANGED <<run, mcs, samples, Atom, files, stat>>

(* Faulty variant: the sums are those the job before ended with. *)
RestartKeepSums == /\ run < MaxRuns
                   /\ \A r \in Rank : pc[r] \in {"exit", "dead"}
                   /\ \A r \in Rank : mc[r] # NoFile
                   /\ run' = run + 1
                   /\ \E c \in Config : Atom' = [r \in Rank |-> c]
                   /\ mcs' = [r \in Rank |-> mc[r].mcs]
                   /\ UNCHANGED samples
                   /\ pc' = [r \in Rank |-> Loop(mc[r].mcs)]
                   /\ torn' = (torn \/ \E r, s \in Rank : mc[r].mcs # mc[s].mcs)
                   /\ UNCHANGED <<stop, state, mc, results>>

(* A new job with restart = 1: main() places one fresh configuration on    *)
(* all ranks, parallel_tempering() skips the equilibration and reads       *)
(* mc<rank>.input.  Without that file it dies.                             *)
Restart == /\ run < MaxRuns
           /\ \A r \in Rank : pc[r] \in {"exit", "dead"}
           /\ \A r \in Rank : mc[r] # NoFile
           /\ run' = run + 1
           /\ \E c \in Config : Atom' = [r \in Rank |-> c]
           /\ mcs' = [r \in Rank |-> mc[r].mcs]
           /\ samples' = [r \in Rank |-> mc[r].samples]
           /\ pc' = [r \in Rank |-> Loop(mc[r].mcs)]
           /\ torn' = (torn \/ \E r, s \in Rank : mc[r].mcs # mc[s].mcs)
           /\ UNCHANGED <<stop, state, mc, results>>

Step(r) == \/ TakeSample(r) \/ Broadcast(r) \/ Receive(r)
           \/ write_state(r) \/ WriteMc(r) \/ Gather(r) \/ Report(r)
Next == (\E r \in Rank : Step(r)) \/ Crash \/ Restart

Fairness == \A r \in Rank : WF_vars(Step(r))
Spec == Init /\ [][Next]_vars /\ Fairness
-----------------------------------------------------------------------------
(* The averages divide the running sums by SAMPS: however often the job    *)
(* stopped or died and was restarted, a rank that is in the loop has one   *)
(* sample in its sums for each index it has passed.                        *)
SamplesCountedOnce == \A r \in Rank :
  pc[r] \in {"loop", "gather", "done"} => samples[r] = mcs[r]

(* All ranks stop at the same sample, although each leaves on its own: the *)
(* files of a stop that completed agree, whatever jobs died before it.     *)
(* Only a job that dies while its ranks are writing leaves files of        *)
(* different stops, which the next job reads without noticing.             *)
CheckpointsAgree == ~torn /\ (\A r \in Rank : pc[r] = "exit") =>
  \A r, s \in Rank : mc[r].mcs = mc[s].mcs

(* Each row of the statistics is divided by SAMPS and has that many        *)
(* samples in it, whatever jobs they were taken in.                        *)
StatComplete == stat # <<>> => \A r \in Rank : stat[r] = SAMPS

(* Every rank leaves the loop, by finishing, by stopping or with the job,  *)
(* and none waits for a broadcast or an average that was not sent.         *)
AllLeave ==
  []<>(torn \/ \A r \in Rank : pc[r] \in {"done", "exit", "dead"})
=============================================================================
