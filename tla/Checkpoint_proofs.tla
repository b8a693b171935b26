------------------------- MODULE Checkpoint_proofs --------------------------
(***************************************************************************)
(* Proofs about the stop and restart, for every number of ranks, samples   *)
(* and jobs: no stop, crash or restart loses a sample or counts one twice, *)
(* and all ranks stop at the same sample.                                  *)
(***************************************************************************)
EXTENDS Checkpoint, TLAPS

PC == {"loop", "bcast", "state", "mc", "exit", "gather", "done", "dead"}

(* Between a sample and the next advance of the index the sums are one     *)
(* ahead; a file is written after the advance.                             *)
Ahead(r) == IF pc[r] \in {"bcast", "state", "mc"} THEN mcs[r] + 1 ELSE mcs[r]

CountOK(r) == /\ pc[r] \in {"loop", "bcast", "state", "mc"} => mcs[r] < SAMPS
              /\ pc[r] \in {"gather", "done"} => mcs[r] = SAMPS
              /\ pc[r] # "dead" => samples[r] = Ahead(r)
FileOK(f) == f # NoFile => f.samples = f.mcs /\ f.mcs \in 0 .. SAMPS

IInv == /\ pc \in [Rank -> PC]
        /\ mcs \in [Rank -> 0 .. SAMPS]
        /\ samples \in [Rank -> Nat]
        /\ \A r \in Rank : CountOK(r)
        /\ mc \in [Rank -> [mcs : 0 .. SAMPS, samples : Nat] \cup {NoFile}]
        /\ \A r \in Rank : FileOK(mc[r])
        /\ sums \in [Rank -> {NotSent, SAMPS}]
        /\ stat = <<>> \/ stat = [r \in Rank |-> SAMPS]

counted == <<pc, mcs, samples>>
kept == <<mc, results>>

(* The three facts most steps share: what is not touched stays right, and  *)
(* a rank that moves has to be right itself.                               *)
LEMMA OthersKeep ==
  ASSUME IInv, NEW r \in Rank, NEW a \in PC, NEW m \in 0 .. SAMPS, NEW n \in Nat,
         pc' = [pc EXCEPT ![r] = a],
         mcs' = [mcs EXCEPT ![r] = m],
         samples' = [samples EXCEPT ![r] = n],
         CountOK(r)'
  PROVE  /\ pc' \in [Rank -> PC]
         /\ mcs' \in [Rank -> 0 .. SAMPS]
         /\ samples' \in [Rank -> Nat]
         /\ \A q \in Rank : CountOK(q)'
<1>1. \A q \in Rank \ {r} : pc'[q] = pc[q] /\ mcs'[q] = mcs[q] /\ samples'[q] = samples[q]
  BY DEF IInv
<1>2. \A q \in Rank \ {r} : CountOK(q)'
  BY <1>1 DEF IInv, CountOK, Ahead
<1>3. QED
  BY <1>2 DEF IInv

(* What is on disk stays well formed while no rank writes.                 *)
LEMMA KeptFiles ==
  ASSUME IInv, UNCHANGED kept
  PROVE  /\ (mc \in [Rank -> [mcs : 0 .. SAMPS, samples : Nat] \cup {NoFile}])'
         /\ \A r \in Rank : FileOK(mc[r])'
         /\ (sums \in [Rank -> {NotSent, SAMPS}])'
         /\ (stat = <<>> \/ stat = [r \in Rank |-> SAMPS])'
BY DEF IInv, kept, results, FileOK

(* The step from one sample index to the next, with the sample counted. *)
LEMMA AdvanceCounts ==
  ASSUME IInv, NEW r \in Rank, mcs[r] < SAMPS, Advance(r),
         NEW n \in Nat, n = mcs[r] + 1,
         samples' = [samples EXCEPT ![r] = n]
  PROVE  /\ pc' \in [Rank -> PC]
         /\ mcs' \in [Rank -> 0 .. SAMPS]
         /\ samples' \in [Rank -> Nat]
         /\ \A q \in Rank : CountOK(q)'
<1>1. mcs[r] \in 0 .. SAMPS /\ SAMPS \in Nat
  BY JobAssumption DEF IInv
<1>2. PICK a \in {"loop", "gather"} : /\ pc' = [pc EXCEPT ![r] = a]
                                      /\ a = Loop(mcs[r] + 1)
  BY DEF Advance, Goto, Loop
<1>3. mcs' = [mcs EXCEPT ![r] = mcs[r] + 1] /\ mcs[r] + 1 \in 0 .. SAMPS
  BY <1>1 DEF Advance
<1>4. pc'[r] = a /\ mcs'[r] = mcs[r] + 1 /\ samples'[r] = mcs[r] + 1
  BY <1>2, <1>3 DEF IInv
<1>5. CountOK(r)'
  BY <1>1, <1>2, <1>4 DEF CountOK, Ahead, Loop
<1>6. QED
  BY <1>2, <1>3, <1>5, OthersKeep DEF PC

(* A rank that is told to stop goes to its files, one that is not advances. *)
LEMMA ObeyCounts ==
  ASSUME IInv, NEW r \in Rank, pc[r] = "bcast", NEW b \in BOOLEAN, Obey(r, b),
         UNCHANGED samples
  PROVE  /\ pc' \in [Rank -> PC]
         /\ mcs' \in [Rank -> 0 .. SAMPS]
         /\ samples' \in [Rank -> Nat]
         /\ \A q \in Rank : CountOK(q)'
<1>1. /\ mcs[r] \in 0 .. SAMPS /\ mcs[r] < SAMPS
      /\ samples[r] = mcs[r] + 1 /\ samples[r] \in Nat
      /\ samples' = [samples EXCEPT ![r] = samples[r]]
  BY DEF IInv, CountOK, Ahead
<1>2. CASE b
  <2>1. /\ pc' = [pc EXCEPT ![r] = "state"]
        /\ mcs' = [mcs EXCEPT ![r] = mcs[r]]
    BY <1>2 DEF Obey, Goto, IInv
  <2>2. pc'[r] = "state" /\ mcs'[r] = mcs[r] /\ samples'[r] = samples[r]
    BY <2>1 DEF IInv
  <2>3. CountOK(r)'
    BY <1>1, <2>2 DEF CountOK, Ahead
  <2>4. QED
    BY <1>1, <2>1, <2>3, OthersKeep DEF PC
<1>3. CASE ~b
  BY <1>1, <1>3, AdvanceCounts DEF Obey
<1>4. QED
  BY <1>2, <1>3

(* The invariant holds in every reachable state.                           *)
LEMMA Inductive == Spec => []IInv
<1>1. Init => IInv
  <2> SUFFICES ASSUME Init PROVE IInv
    OBVIOUS
  <2>1. /\ pc \in [Rank -> PC] /\ mcs \in [Rank -> 0 .. SAMPS]
        /\ samples \in [Rank -> Nat]
        /\ \A r \in Rank : CountOK(r)
    BY JobAssumption DEF Init, Loop, CountOK, Ahead, PC
  <2>2. QED
    BY <2>1 DEF Init, IInv, FileOK
<1>2. IInv /\ [Next]_vars => IInv'
  <2> SUFFICES ASSUME IInv, [Next]_vars PROVE IInv'
    OBVIOUS
  <2>1. ASSUME NEW r \in Rank, TakeSample(r) PROVE IInv'
    <3>1. /\ mcs[r] \in 0 .. SAMPS /\ mcs[r] < SAMPS /\ SAMPS \in Nat
          /\ samples[r] = mcs[r] /\ mcs[r] + 1 \in Nat
          /\ samples' = [samples EXCEPT ![r] = mcs[r] + 1]
      <4>1. /\ pc[r] = "loop" /\ CountOK(r) /\ mcs[r] \in 0 .. SAMPS /\ SAMPS \in Nat
        BY <2>1, JobAssumption DEF TakeSample, IInv
      <4>2. samples[r] = mcs[r] /\ mcs[r] < SAMPS
        BY <4>1 DEF CountOK, Ahead
      <4>3. samples' = [samples EXCEPT ![r] = samples[r] + 1]
        BY <2>1 DEF TakeSample
      <4>4. QED
        BY <4>1, <4>2, <4>3
    <3>2. UNCHANGED kept
      BY <2>1 DEF TakeSample, kept, files
    <3>3. CASE mcs[r] % CHPT_STEPS = 0
      <4>1. /\ pc' = [pc EXCEPT ![r] = "bcast"]
            /\ mcs' = [mcs EXCEPT ![r] = mcs[r]]
        BY <2>1, <3>3 DEF TakeSample, Goto, IInv
      <4>2. pc'[r] = "bcast" /\ mcs'[r] = mcs[r] /\ samples'[r] = mcs[r] + 1
        BY <3>1, <4>1 DEF IInv
      <4>3. CountOK(r)'
        BY <3>1, <4>2 DEF CountOK, Ahead
      <4>4. QED
        BY <3>1, <3>2, <4>1, <4>3, OthersKeep, KeptFiles DEF IInv, PC
    <3>4. CASE mcs[r] % CHPT_STEPS # 0
      BY <2>1, <3>1, <3>2, <3>4, AdvanceCounts, KeptFiles DEF TakeSample, IInv
    <3>5. QED
      BY <3>3, <3>4
  <2>2. ASSUME NEW r \in Rank, Broadcast(r) PROVE IInv'
    <3>1. PICK b \in BOOLEAN : Obey(r, b)
      BY <2>2 DEF Broadcast
    <3>2. pc[r] = "bcast" /\ UNCHANGED samples /\ UNCHANGED kept
      BY <2>2 DEF Broadcast, kept, files
    <3>3. QED
      BY <3>1, <3>2, ObeyCounts, KeptFiles DEF IInv
  <2>3. ASSUME NEW r \in Rank, Receive(r) PROVE IInv'
    <3>1. pc[r] = "bcast" /\ UNCHANGED samples /\ UNCHANGED kept
      BY <2>3 DEF Receive, kept, files
    <3>2. CASE Head(stop[r])
      <4>1. Obey(r, TRUE)
        BY <2>3, <3>2 DEF Receive, Obey
      <4>2. QED
        BY <3>1, <4>1, ObeyCounts, KeptFiles DEF IInv
    <3>3. CASE ~Head(stop[r])
      <4>1. Obey(r, FALSE)
        BY <2>3, <3>3 DEF Receive, Obey
      <4>2. QED
        BY <3>1, <4>1, ObeyCounts, KeptFiles DEF IInv
    <3>4. QED
      BY <3>2, <3>3
  <2>4. ASSUME NEW r \in Rank, write_state(r) PROVE IInv'
    <3>1. /\ pc[r] = "state" /\ pc' = [pc EXCEPT ![r] = "mc"]
          /\ mcs' = [mcs EXCEPT ![r] = mcs[r]]
          /\ samples' = [samples EXCEPT ![r] = samples[r]]
          /\ UNCHANGED kept
      BY <2>4 DEF write_state, Goto, kept, results, IInv
    <3>2. pc'[r] = "mc" /\ mcs'[r] = mcs[r] /\ samples'[r] = samples[r]
      BY <3>1 DEF IInv
    <3>3. CountOK(r)'
      BY <3>1, <3>2 DEF IInv, CountOK, Ahead
    <3>4. mcs[r] \in 0 .. SAMPS /\ samples[r] \in Nat
      BY DEF IInv
    <3>5. QED
      BY <3>1, <3>3, <3>4, OthersKeep, KeptFiles DEF IInv, PC
  <2>5. ASSUME NEW r \in Rank, WriteMc(r) PROVE IInv'
    <3>1. /\ mcs[r] \in 0 .. SAMPS /\ mcs[r] < SAMPS /\ SAMPS \in Nat
          /\ samples[r] = mcs[r] + 1 /\ samples[r] \in Nat
      BY <2>5, JobAssumption DEF WriteMc, IInv, CountOK, Ahead
    <3>2. /\ pc' = [pc EXCEPT ![r] = "exit"]
          /\ mcs' = [mcs EXCEPT ![r] = mcs[r] + 1]
          /\ samples' = [samples EXCEPT ![r] = samples[r]]
      BY <2>5 DEF WriteMc, Goto, IInv
    <3>3. pc'[r] = "exit" /\ mcs'[r] = mcs[r] + 1 /\ samples'[r] = mcs[r] + 1
      BY <3>1, <3>2 DEF IInv
    <3>4. CountOK(r)' /\ mcs[r] + 1 \in 0 .. SAMPS
      BY <3>1, <3>3 DEF CountOK, Ahead
    <3>5. /\ pc' \in [Rank -> PC] /\ mcs' \in [Rank -> 0 .. SAMPS]
          /\ samples' \in [Rank -> Nat] /\ \A q \in Rank : CountOK(q)'
      BY <3>1, <3>2, <3>4, OthersKeep DEF PC
    <3>6. mc' = [mc EXCEPT ![r] = [mcs |-> mcs[r] + 1, samples |-> mcs[r] + 1]]
      BY <2>5, <3>1, <3>3 DEF WriteMc
    <3>7. /\ mc' \in [Rank -> [mcs : 0 .. SAMPS, samples : Nat] \cup {NoFile}]
          /\ \A q \in Rank : FileOK(mc[q])'
      BY <3>1, <3>4, <3>6 DEF IInv, FileOK
    <3>8. UNCHANGED results
      BY <2>5 DEF WriteMc
    <3>9. QED
      BY <3>5, <3>7, <3>8 DEF IInv, results
  <2>6. ASSUME NEW r \in Rank, Gather(r) \/ Report(r) PROVE IInv'
    <3>1. /\ pc[r] = "gather" /\ pc' = [pc EXCEPT ![r] = "done"]
          /\ mcs' = [mcs EXCEPT ![r] = mcs[r]]
          /\ samples' = [samples EXCEPT ![r] = samples[r]]
          /\ UNCHANGED mc
      BY <2>6 DEF Gather, Report, Goto, IInv, files
    <3>2. pc'[r] = "done" /\ mcs'[r] = mcs[r] /\ samples'[r] = samples[r]
      BY <3>1 DEF IInv
    <3>3. CountOK(r)'
      BY <3>1, <3>2 DEF IInv, CountOK, Ahead
    <3>4. mcs[r] \in 0 .. SAMPS /\ samples[r] \in Nat /\ samples[r] = SAMPS
      BY <3>1 DEF IInv, CountOK, Ahead
    <3>5. /\ pc' \in [Rank -> PC] /\ mcs' \in [Rank -> 0 .. SAMPS]
          /\ samples' \in [Rank -> Nat] /\ \A q \in Rank : CountOK(q)'
      BY <3>1, <3>3, <3>4, OthersKeep DEF PC
    <3>6. CASE Gather(r)
      <4>1. sums' \in [Rank -> {NotSent, SAMPS}] /\ UNCHANGED stat
        BY <3>4, <3>6 DEF Gather, IInv
      <4>2. QED
        BY <3>1, <3>5, <4>1 DEF IInv, FileOK
    <3>7. CASE Report(r)
      <4>1. \A q \in Rank : (IF q = 0 THEN samples[0] ELSE sums[q]) = SAMPS
        BY <3>4, <3>7 DEF Report, IInv
      <4>2. stat' = [q \in Rank |-> SAMPS] /\ UNCHANGED sums
        BY <3>7, <4>1 DEF Report
      <4>3. QED
        BY <3>1, <3>5, <4>2 DEF IInv, FileOK
    <3>8. QED
      BY <2>6, <3>6, <3>7
  <2>7. CASE Crash
    <3>1. /\ pc' = [r \in Rank |-> "dead"] /\ UNCHANGED <<mcs, samples, mc, stat>>
          /\ sums' = [r \in Rank |-> NotSent]
      BY <2>7 DEF Crash, files
    <3>2. \A r \in Rank : CountOK(r)'
      BY <3>1 DEF CountOK
    <3>3. QED
      BY <3>1, <3>2 DEF IInv, PC, FileOK
  <2>8. CASE Restart
    <3>1. /\ mcs' = [r \in Rank |-> mc[r].mcs]
          /\ samples' = [r \in Rank |-> mc[r].samples]
          /\ pc' = [r \in Rank |-> Loop(mc[r].mcs)]
          /\ UNCHANGED kept
          /\ SAMPS \in Nat
      BY <2>8, JobAssumption DEF Restart, kept
    <3>2. \A r \in Rank : mc[r].samples = mc[r].mcs /\ mc[r].mcs \in 0 .. SAMPS
      BY <2>8 DEF Restart, IInv, FileOK
    <3>3. /\ pc' \in [Rank -> PC] /\ mcs' \in [Rank -> 0 .. SAMPS]
          /\ samples' \in [Rank -> Nat]
      BY <3>1, <3>2 DEF Loop, PC
    <3>4. \A r \in Rank : CountOK(r)'
      BY <3>1, <3>2 DEF CountOK, Ahead, Loop
    <3>5. QED
      BY <3>1, <3>3, <3>4, KeptFiles DEF IInv
  <2>9. CASE UNCHANGED vars
    BY <2>9 DEF vars, IInv, CountOK, Ahead, FileOK
  <2>10. QED
    BY <2>1, <2>2, <2>3, <2>4, <2>5, <2>6, <2>7, <2>8, <2>9 DEF Next, Step
<1>3. QED
  BY <1>1, <1>2, PTL DEF Spec

(* For every number of ranks, samples, jobs and looks at the clock, and    *)
(* wherever a job died: the sums of a rank in the loop or past it hold one *)
(* sample for each index it has passed.                                    *)
THEOREM OneSampleForEachIndex == Spec => []SamplesCountedOnce
<1>1. IInv => SamplesCountedOnce
  BY DEF IInv, CountOK, Ahead, SamplesCountedOnce
<1>2. QED
  BY <1>1, Inductive, PTL

(* Likewise, the averages are written from all samples of all ranks. *)
THEOREM AveragesComplete == Spec => []StatComplete
<1>1. IInv => StatComplete
  BY DEF IInv, StatComplete
<1>2. QED
  BY <1>1, Inductive, PTL

(***************************************************************************)
(* All ranks stop at the same sample.  Passed is how many looks at the     *)
(* clock lie before an index; what rank 0 has passed and another has not   *)
(* is in that rank's channel, and only the last of it can be an order to   *)
(* stop.                                                                   *)
(***************************************************************************)
Passed(m) == (m + CHPT_STEPS - 1) \div CHPT_STEPS
Stopped(r) == pc[r] \in {"state", "mc", "exit"}

(* The index at which a rank goes on, or will go on after a restart.       *)
Resumes(r) == IF pc[r] \in {"state", "mc"} THEN mcs[r] + 1 ELSE mcs[r]

AtCheck(r) == /\ pc[r] = "bcast" => mcs[r] % CHPT_STEPS = 0
              /\ Stopped(r) => \E m \in Nat : Resumes(r) = m + 1 /\ m % CHPT_STEPS = 0
InStep(r) ==
  /\ Len(stop[r]) = Passed(Resumes(0)) - Passed(Resumes(r))
  /\ \A j \in 1 .. Len(stop[r]) : stop[r][j] <=> j = Len(stop[r]) /\ Stopped(0)
  /\ Stopped(0) /\ ~Stopped(r) => stop[r] # <<>>
  /\ Stopped(r) => Stopped(0) /\ Resumes(r) = Resumes(0) /\ stop[r] = <<>>

Written(r) == pc[r] = "exit" => mc[r].mcs = mcs[r]
DeadTogether == \A r, q \in Rank : pc[r] = "dead" => pc[q] = "dead" /\ stop[q] = <<>>
Sound == ~torn /\ \A r \in Rank : pc[r] # "dead"

Together == /\ IInv
            /\ stop \in [Rank -> Seq(BOOLEAN)]
            /\ \A r \in Rank : AtCheck(r) /\ Written(r)
            /\ DeadTogether
            /\ Sound => \A r \in Rank : InStep(r)

(* The looks before the next index: one more when the index is one.        *)
LEMMA Looks ==
  ASSUME NEW m \in Nat
  PROVE  /\ Passed(m) \in Nat
         /\ m % CHPT_STEPS = 0 => Passed(m + 1) = Passed(m) + 1
         /\ m % CHPT_STEPS # 0 => Passed(m + 1) = Passed(m)
         /\ m % CHPT_STEPS = 0 => Passed(m) * CHPT_STEPS = m
<1> DEFINE K == CHPT_STEPS
           q == m \div K
           e == m % K
<1>1. K \in Nat \ {0}
  BY JobAssumption
<1>2. q \in Nat /\ e \in 0 .. K - 1 /\ m = q * K + e
  BY <1>1
<1>3. \A x \in Nat, y \in 0 .. K - 1 : (x * K + y) \div K = x
  <2> HIDE DEF K
  <2>1. ASSUME NEW x \in Nat, NEW y \in 0 .. K - 1 PROVE (x * K + y) \div K = x
    BY <1>1
  <2>2. QED
    BY <2>1
<1>4. q * K \in Nat /\ (q + 1) * K = q * K + K
  BY <1>1, <1>2
<1>5. /\ Passed(m) = (m + K - 1) \div K /\ Passed(m + 1) = (m + 1 + K - 1) \div K
      /\ m % CHPT_STEPS = e /\ CHPT_STEPS = K
  BY DEF Passed
<1> HIDE DEF K, q, e
<1>6. CASE e = 0
  <2>1. m + K - 1 = q * K + (K - 1) /\ m + 1 + K - 1 = (q + 1) * K + 0
    BY <1>1, <1>2, <1>4, <1>6
  <2>2. (m + K - 1) \div K = q /\ (m + 1 + K - 1) \div K = q + 1
    BY <1>1, <1>2, <1>3, <2>1
  <2>3. QED
    BY <1>1, <1>2, <1>4, <1>5, <1>6, <2>2
<1>7. CASE e # 0
  <2>1. m + K - 1 = (q + 1) * K + (e - 1) /\ m + 1 + K - 1 = (q + 1) * K + e
    BY <1>1, <1>2, <1>4, <1>7
  <2>2. (m + K - 1) \div K = q + 1 /\ (m + 1 + K - 1) \div K = q + 1
    BY <1>1, <1>2, <1>3, <1>7, <2>1
  <2>3. QED
    BY <1>1, <1>2, <1>5, <1>7, <2>2
<1>8. QED
  BY <1>6, <1>7

(* A step that broadcasts nothing and passes no look at the clock.         *)
LEMMA Between ==
  ASSUME Together, NEW r \in Rank, UNCHANGED <<stop, torn>>,
         \A q \in Rank \ {r} : pc'[q] = pc[q] /\ mcs'[q] = mcs[q],
         pc[r] # "dead", pc'[r] # "dead",
         Passed(Resumes(r)') = Passed(Resumes(r)),
         Stopped(r)' <=> Stopped(r),
         Stopped(r) => Resumes(r)' = Resumes(r)
  PROVE  DeadTogether' /\ (Sound' => \A q \in Rank : InStep(q)')
<1>1. \A q \in Rank : /\ pc'[q] = "dead" <=> pc[q] = "dead"
                      /\ Passed(Resumes(q)') = Passed(Resumes(q))
                      /\ Stopped(q)' <=> Stopped(q)
                      /\ Stopped(q) => Resumes(q)' = Resumes(q)
  BY DEF Resumes, Stopped
<1>2. DeadTogether'
  BY <1>1 DEF Together, DeadTogether
<1>3. ASSUME Sound', NEW q \in Rank PROVE InStep(q)'
  <2>1. Sound
    BY <1>1, <1>3 DEF Sound
  <2>2. InStep(q) /\ 0 \in Rank
    BY <2>1, JobAssumption DEF Together, Rank
  <2>3. /\ Passed(Resumes(0))' = Passed(Resumes(0)') /\ Passed(Resumes(q))' = Passed(Resumes(q)')
    BY DEF Passed
  <2>4. QED
    BY <1>1, <2>2, <2>3 DEF InStep
<1>4. QED
  BY <1>2, <1>3

(* One more sample, with or without a look at the clock ahead.             *)
LEMMA SampleTogether ==
  ASSUME Together, NEW r \in Rank, TakeSample(r)
  PROVE  /\ DeadTogether' /\ (Sound' => \A q \in Rank : InStep(q)')
         /\ \A q \in Rank : AtCheck(q)' /\ Written(q)'
<1>1. /\ pc[r] = "loop" /\ UNCHANGED <<stop, torn, mc>>
      /\ pc \in [Rank -> PC] /\ mcs \in [Rank -> 0 .. SAMPS] /\ SAMPS \in Nat
  BY JobAssumption DEF TakeSample, files, Together, IInv
<1>2. /\ \A q \in Rank \ {r} : pc'[q] = pc[q] /\ mcs'[q] = mcs[q]
      /\ \/ /\ mcs[r] % CHPT_STEPS = 0 /\ pc'[r] = "bcast" /\ mcs'[r] = mcs[r]
         \/ /\ mcs[r] % CHPT_STEPS # 0 /\ pc'[r] \in {"loop", "gather"}
            /\ mcs'[r] = mcs[r] + 1
  <2>1. CASE mcs[r] % CHPT_STEPS = 0
    BY <1>1, <2>1 DEF TakeSample, Goto
  <2>2. CASE mcs[r] % CHPT_STEPS # 0
    <3>1. Advance(r)
      BY <2>2 DEF TakeSample
    <3>2. QED
      BY <1>1, <2>2, <3>1 DEF Advance, Goto, Loop
  <2>3. QED
    BY <2>1, <2>2
<1>3. Passed(Resumes(r)') = Passed(Resumes(r)) /\ ~Stopped(r)' /\ ~Stopped(r)
  <2>1. /\ Resumes(r) = mcs[r] /\ mcs[r] \in Nat
        /\ Resumes(r)' = mcs'[r] /\ ~Stopped(r)' /\ ~Stopped(r)
    BY <1>1, <1>2 DEF Resumes, Stopped
  <2>2. QED
    BY <1>2, <2>1, Looks
<1>4. DeadTogether' /\ (Sound' => \A q \in Rank : InStep(q)')
  BY <1>1, <1>2, <1>3, Between
<1>5. ASSUME NEW q \in Rank PROVE AtCheck(q)' /\ Written(q)'
  <2>1. AtCheck(q) /\ Written(q)
    BY DEF Together
  <2>2. CASE q = r
    BY <1>1, <1>2, <1>3, <2>2 DEF AtCheck, Written
  <2>3. CASE q # r
    BY <1>1, <1>2, <2>1, <2>3 DEF AtCheck, Written, Stopped, Resumes
  <2>4. QED
    BY <2>2, <2>3
<1>6. QED
  BY <1>4, <1>5

(* What a rank does once it has stopped, and after its last sample.        *)
LEMMA LeavingTogether ==
  ASSUME Together, NEW r \in Rank, write_state(r) \/ WriteMc(r) \/ Gather(r) \/ Report(r)
  PROVE  /\ DeadTogether' /\ (Sound' => \A q \in Rank : InStep(q)')
         /\ \A q \in Rank : AtCheck(q)' /\ Written(q)'
<1>1. /\ UNCHANGED <<stop, torn>>
      /\ pc \in [Rank -> PC] /\ mcs \in [Rank -> 0 .. SAMPS]
      /\ mc \in [Rank -> [mcs : 0 .. SAMPS, samples : Nat] \cup {NoFile}]
  BY DEF write_state, WriteMc, Gather, Report, files, Together, IInv
<1>2. /\ \A q \in Rank \ {r} : pc'[q] = pc[q] /\ mcs'[q] = mcs[q] /\ mc'[q] = mc[q]
      /\ \/ pc[r] = "state" /\ pc'[r] = "mc" /\ mcs'[r] = mcs[r]
         \/ /\ pc[r] = "mc" /\ pc'[r] = "exit" /\ mcs'[r] = mcs[r] + 1
            /\ mc'[r].mcs = mcs'[r]
         \/ pc[r] = "gather" /\ pc'[r] = "done" /\ mcs'[r] = mcs[r]
  BY <1>1 DEF write_state, WriteMc, Gather, Report, files, Goto
<1>3. Resumes(r)' = Resumes(r) /\ (Stopped(r)' <=> Stopped(r)) /\ pc[r] # "bcast"
  BY <1>1, <1>2 DEF Resumes, Stopped
<1>4. DeadTogether' /\ (Sound' => \A q \in Rank : InStep(q)')
  BY <1>1, <1>2, <1>3, Between
<1>5. ASSUME NEW q \in Rank PROVE AtCheck(q)' /\ Written(q)'
  <2>1. AtCheck(q) /\ Written(q)
    BY DEF Together
  <2>2. CASE q = r
    BY <1>2, <1>3, <2>1, <2>2 DEF AtCheck, Written
  <2>3. CASE q # r
    BY <1>1, <1>2, <2>1, <2>3 DEF AtCheck, Written, Stopped, Resumes
  <2>4. QED
    BY <2>2, <2>3
<1>6. QED
  BY <1>4, <1>5

(* Where a rank goes from a broadcast, that of the root or one received.   *)
LEMMA Obeyed ==
  ASSUME Together, NEW r \in Rank, pc[r] = "bcast", NEW b \in BOOLEAN, Obey(r, b)
  PROVE  /\ \A q \in Rank \ {r} : pc'[q] = pc[q] /\ mcs'[q] = mcs[q]
         /\ mcs[r] \in Nat /\ mcs[r] % CHPT_STEPS = 0
         /\ Resumes(r) = mcs[r] /\ Resumes(r)' = mcs[r] + 1
         /\ Passed(Resumes(r)') = Passed(Resumes(r)) + 1
         /\ ~Stopped(r) /\ (Stopped(r)' <=> b)
         /\ pc'[r] \notin {"dead", "exit", "bcast"}
<1>1. /\ pc \in [Rank -> PC] /\ mcs \in [Rank -> 0 .. SAMPS] /\ SAMPS \in Nat /\ AtCheck(r)
  BY JobAssumption DEF Together, IInv
<1>2. /\ \A q \in Rank \ {r} : pc'[q] = pc[q] /\ mcs'[q] = mcs[q]
      /\ \/ b /\ pc'[r] = "state" /\ mcs'[r] = mcs[r]
         \/ ~b /\ pc'[r] \in {"loop", "gather"} /\ mcs'[r] = mcs[r] + 1
  BY <1>1 DEF Obey, Advance, Goto, Loop
<1>3. mcs[r] \in Nat /\ mcs[r] % CHPT_STEPS = 0
  BY <1>1 DEF AtCheck
<1>4. Resumes(r) = mcs[r] /\ Resumes(r)' = mcs[r] + 1
  BY <1>2 DEF Resumes
<1>5. QED
  BY <1>2, <1>3, <1>4, Looks DEF Stopped

(* The marks of an index stay right when a rank obeys.                    *)
LEMMA ObeyedChecks ==
  ASSUME Together, NEW r \in Rank, pc[r] = "bcast", NEW b \in BOOLEAN, Obey(r, b),
         UNCHANGED mc, NEW q \in Rank
  PROVE  AtCheck(q)' /\ Written(q)' /\ (pc'[q] = "dead" <=> pc[q] = "dead")
<1>1. AtCheck(q) /\ Written(q)
  BY DEF Together
<1>2. CASE q = r
  BY <1>2, Obeyed DEF AtCheck, Written
<1>3. CASE q # r
  BY <1>1, <1>3, Obeyed DEF AtCheck, Written, Stopped, Resumes
<1>4. QED
  BY <1>2, <1>3

(* Rank 0 goes on as it tells the others to, and theirs is one more.       *)
LEMMA BroadcastTogether ==
  ASSUME Together, NEW r \in Rank, Broadcast(r)
  PROVE  /\ stop' \in [Rank -> Seq(BOOLEAN)]
         /\ DeadTogether' /\ (Sound' => \A q \in Rank : InStep(q)')
         /\ \A q \in Rank : AtCheck(q)' /\ Written(q)'
<1>1. PICK b \in BOOLEAN :
        /\ Obey(r, b)
        /\ stop' = [q \in Rank |-> IF q = 0 THEN stop[q] ELSE Append(stop[q], b)]
  BY DEF Broadcast
<1>2. /\ r = 0 /\ pc[r] = "bcast" /\ UNCHANGED <<mc, torn>>
      /\ stop \in [Rank -> Seq(BOOLEAN)]
  BY DEF Broadcast, files, Together
<1>3. stop' \in [Rank -> Seq(BOOLEAN)]
  <2>1. ASSUME NEW q \in Rank PROVE Append(stop[q], b) \in Seq(BOOLEAN)
    BY <1>2
  <2>2. QED
    BY <1>1, <1>2, <2>1
<1>4. \A q \in Rank : AtCheck(q)' /\ Written(q)' /\ (pc'[q] = "dead" <=> pc[q] = "dead")
  BY <1>1, <1>2, ObeyedChecks
<1>5. DeadTogether'
  BY <1>2, <1>4 DEF Together, DeadTogether
<1>6. ASSUME Sound', NEW q \in Rank PROVE InStep(q)'
  <2>1. \A s \in Rank : InStep(s)
    BY <1>2, <1>4, <1>6 DEF Together, Sound
  <2>2. /\ Passed(Resumes(0))' = Passed(Resumes(0)) + 1
        /\ ~Stopped(0) /\ (Stopped(0)' <=> b)
    <3>1. Passed(Resumes(r)') = Passed(Resumes(r)) + 1 /\ ~Stopped(r) /\ (Stopped(r)' <=> b)
      BY <1>1, <1>2, Obeyed
    <3>2. QED
      BY <1>2, <3>1 DEF Passed
  <2>3. \A s \in Rank : s # 0 => /\ ~Stopped(s) /\ ~Stopped(s)'
                                 /\ Passed(Resumes(s))' = Passed(Resumes(s))
    BY <1>1, <1>2, <2>1, <2>2, Obeyed DEF InStep, Stopped, Resumes, Passed
  <2>4. /\ Passed(Resumes(0)) \in Int /\ Passed(Resumes(q)) \in Int
    <3>1. /\ 0 \in Rank /\ pc \in [Rank -> PC] /\ mcs \in [Rank -> 0 .. SAMPS]
      BY <1>2 DEF Together, IInv
    <3>2. Resumes(0) \in Nat /\ Resumes(q) \in Nat
      BY <3>1, JobAssumption DEF Resumes
    <3>3. QED
      BY <3>2, Looks
  <2>5. CASE q = 0
    <3>1. stop'[0] = <<>> /\ Len(stop'[0]) = 0
      <4>1. stop[0] \in Seq(BOOLEAN) /\ Len(stop[0]) = 0 /\ stop'[0] = stop[0]
        BY <1>1, <1>2, <2>1, <2>4, <2>5 DEF InStep
      <4>2. QED
        BY <4>1
    <3>2. Len(stop'[0]) = Passed(Resumes(0))' - Passed(Resumes(0))'
      BY <2>2, <2>4, <3>1
    <3>3. QED
      BY <2>5, <3>1, <3>2 DEF InStep
  <2>6. CASE q # 0
    <3> DEFINE l == stop[q]
    <3>1. /\ l \in Seq(BOOLEAN) /\ stop'[q] = Append(l, b)
          /\ Len(l) = Passed(Resumes(0)) - Passed(Resumes(q))
          /\ \A j \in 1 .. Len(l) : ~l[j]
      BY <1>1, <1>2, <2>1, <2>2, <2>6 DEF InStep
    <3> HIDE DEF l
    <3>2. /\ Len(Append(l, b)) = Len(l) + 1 /\ Len(l) \in Nat /\ Append(l, b) # <<>>
          /\ Append(l, b)[Len(l) + 1] = b
          /\ \A j \in 1 .. Len(l) : Append(l, b)[j] = l[j]
      BY <3>1
    <3>3. Len(stop'[q]) = Passed(Resumes(0))' - Passed(Resumes(q))'
      BY <2>2, <2>3, <2>4, <2>6, <3>1, <3>2
    <3>4. \A j \in 1 .. Len(stop'[q]) : stop'[q][j] <=> j = Len(stop'[q]) /\ Stopped(0)'
      <4>1. ASSUME NEW j \in 1 .. Len(l) + 1
            PROVE  Append(l, b)[j] <=> j = Len(l) + 1 /\ b
        <5>1. CASE j = Len(l) + 1
          BY <3>2, <5>1
        <5>2. CASE j # Len(l) + 1
          <6>1. j \in 1 .. Len(l)
            BY <3>2, <5>2
          <6>2. QED
            BY <3>1, <3>2, <5>2, <6>1
        <5>3. QED
          BY <5>1, <5>2
      <4>2. QED
        BY <2>2, <3>1, <3>2, <4>1
    <3>5. QED
      BY <2>3, <2>6, <3>1, <3>2, <3>3, <3>4 DEF InStep
  <2>7. QED
    BY <2>5, <2>6
<1>7. QED
  BY <1>3, <1>4, <1>5, <1>6

(* The first of what a rank has not received is what rank 0 decided after  *)
(* the same sample.                                                        *)
LEMMA ReceiveTogether ==
  ASSUME Together, NEW r \in Rank, Receive(r)
  PROVE  /\ stop' \in [Rank -> Seq(BOOLEAN)]
         /\ DeadTogether' /\ (Sound' => \A q \in Rank : InStep(q)')
         /\ \A q \in Rank : AtCheck(q)' /\ Written(q)'
<1> DEFINE l == stop[r]
<1>1. /\ r # 0 /\ pc[r] = "bcast" /\ UNCHANGED <<mc, torn>> /\ 0 \in Rank
      /\ stop \in [Rank -> Seq(BOOLEAN)]
      /\ l # <<>> /\ l \in Seq(BOOLEAN)
      /\ Obey(r, Head(l)) /\ stop' = [stop EXCEPT ![r] = Tail(l)]
  BY JobAssumption DEF Receive, files, Together, Rank
<1> HIDE DEF l
<1>2. /\ Head(l) \in BOOLEAN /\ Head(l) = l[1] /\ Tail(l) \in Seq(BOOLEAN)
      /\ Len(l) \in Nat /\ Len(l) >= 1
      /\ \A j \in 1 .. Len(l) - 1 : Tail(l)[j] = l[j + 1]
  BY <1>1
<1> DEFINE n == Len(l)
<1>3. n \in Nat /\ n >= 1 /\ Len(Tail(l)) = n - 1 /\ (Tail(l) = <<>> <=> n = 1)
  <2>1. l \in Seq(BOOLEAN) /\ l # <<>>
    BY <1>1
  <2>2. /\ Len(l) \in Nat /\ Len(l) >= 1 /\ Len(Tail(l)) = Len(l) - 1
        /\ Tail(l) \in Seq(BOOLEAN)
    BY <2>1
  <2>3. \A f \in Seq(BOOLEAN) : f = <<>> <=> Len(f) = 0
    OBVIOUS
  <2>4. Tail(l) = <<>> <=> Len(Tail(l)) = 0
    BY <2>2, <2>3
  <2>5. QED
    BY <2>2, <2>4
<1> HIDE DEF n
<1>4. stop' \in [Rank -> Seq(BOOLEAN)]
  BY <1>1, <1>2
<1>5. \A q \in Rank : AtCheck(q)' /\ Written(q)' /\ (pc'[q] = "dead" <=> pc[q] = "dead")
  BY <1>1, <1>2, ObeyedChecks
<1>6. DeadTogether'
  <2>1. \A q \in Rank : pc[q] # "dead"
    BY <1>1 DEF Together, DeadTogether
  <2>2. QED
    BY <1>5, <2>1 DEF DeadTogether
<1>7. ASSUME Sound', NEW q \in Rank PROVE InStep(q)'
  <2>1. \A s \in Rank : InStep(s)
    BY <1>1, <1>5, <1>7 DEF Together, Sound
  <2>2. \A s \in Rank \ {r} : /\ Stopped(s)' <=> Stopped(s)
                              /\ Resumes(s)' = Resumes(s)
                              /\ Passed(Resumes(s))' = Passed(Resumes(s))
                              /\ stop'[s] = stop[s]
    BY <1>1, <1>2, Obeyed DEF Stopped, Resumes, Passed
  <2>3. CASE q # r
    BY <1>1, <2>1, <2>2, <2>3 DEF InStep
  <2>4. CASE q = r
    <3> DEFINE z == Passed(Resumes(0))
               y == Passed(Resumes(r))
               w == Stopped(0)
    <3>1. n = z - y
      BY <2>1 DEF InStep, l, n
    <3>2. \A j \in 1 .. n : l[j] <=> j = n /\ w
      BY <2>1 DEF InStep, l, n
    <3>3. /\ Passed(Resumes(r))' = y + 1 /\ z' = z /\ (w' <=> w)
          /\ stop'[r] = Tail(l)
          /\ ~Stopped(r) /\ (Stopped(r)' <=> Head(l))
      <4>1. Passed(Resumes(r)') = y + 1 /\ ~Stopped(r) /\ (Stopped(r)' <=> Head(l))
        BY <1>1, <1>2, Obeyed
      <4>2. QED
        BY <1>1, <2>2, <4>1 DEF Passed
    <3>4. /\ Resumes(0) \in Nat /\ Resumes(r) \in Nat /\ y \in Nat /\ z \in Nat
      <4>1. /\ pc \in [Rank -> PC] /\ mcs \in [Rank -> 0 .. SAMPS]
        BY DEF Together, IInv
      <4>2. 0 \in Rank /\ r \in Rank /\ SAMPS \in Nat
        BY <1>1, JobAssumption
      <4>3. \A s \in Rank : Resumes(s) \in Nat
        BY <4>1, <4>2 DEF Resumes
      <4>4. QED
        BY <4>2, <4>3, Looks
    <3>5. /\ Passed(Resumes(r))' = y + 1 /\ z' = z /\ Len(stop'[r]) = n - 1
      BY <1>3, <3>3
    <3>6. CASE Head(l)
      <4>1. n = 1 /\ w
        <5> HIDE DEF z, y, w
        <5>1. l[1]
          BY <1>2, <3>6
        <5>2. 1 \in 1 .. n
          BY <1>3
        <5>3. QED
          BY <3>2, <5>1, <5>2
      <4>2. Tail(l) = <<>> /\ Len(Tail(l)) = 0
        BY <1>3, <4>1
      <4>3. Resumes(r)' = Resumes(0)
        <5>1. PICK m \in Nat : Resumes(0) = m + 1 /\ m % CHPT_STEPS = 0
          BY <1>1, <4>1 DEF Together, AtCheck
        <5>2. /\ mcs[r] \in Nat /\ mcs[r] % CHPT_STEPS = 0
              /\ Resumes(r) = mcs[r] /\ Resumes(r)' = mcs[r] + 1
          BY <1>1, <1>2, Obeyed
        <5>3. Passed(m) + 1 = z /\ Passed(m) \in Nat /\ Passed(m) * CHPT_STEPS = m
          BY <5>1, Looks
        <5>4. y * CHPT_STEPS = mcs[r]
          BY <5>2, Looks
        <5>5. Passed(m) = y
          <6> HIDE DEF z, y, w
          <6>1. QED
            BY <3>1, <3>4, <4>1, <5>3
        <5>6. QED
          BY <5>1, <5>2, <5>3, <5>4, <5>5
      <4>4. Resumes(0)' = Resumes(0)
        BY <1>1, <2>2
      <4>5. Len(stop'[r]) = z' - Passed(Resumes(r))'
        <5>1. z = y + 1 /\ Len(stop'[r]) = 0
          <6> HIDE DEF z, y, w
          <6>1. n = 1 /\ Len(stop'[r]) = n - 1
            BY <3>5, <4>1
          <6>2. QED
            BY <3>1, <3>4, <6>1
        <5>2. QED
          <6> HIDE DEF z, y, w
          <6>1. Passed(Resumes(r))' = y + 1 /\ z' = z /\ y \in Nat
            BY <3>4, <3>5
          <6>2. QED
            BY <5>1, <6>1
      <4> HIDE DEF z, y, w
      <4>6. w' /\ stop'[r] = <<>> /\ Len(stop'[r]) = 0 /\ Stopped(r)'
        BY <3>3, <3>6, <4>1, <4>2
      <4>7. QED
        BY <2>4, <4>3, <4>4, <4>5, <4>6 DEF InStep, w, z
    <3>7. CASE ~Head(l)
      <4>1. Len(stop'[r]) = z' - Passed(Resumes(r))'
        <5>1. Len(stop'[r]) = z - (y + 1)
          <6> HIDE DEF z, y, w
          <6>1. QED
            BY <3>1, <3>4, <3>5
        <5>2. QED
          BY <3>3, <5>1
      <4>2. \A j \in 1 .. Len(stop'[r]) : stop'[r][j] <=> j = Len(stop'[r]) /\ w'
        <5> HIDE DEF z, y, w
        <5>1. ASSUME NEW j \in 1 .. n - 1
              PROVE  Tail(l)[j] <=> j = n - 1 /\ w
          <6>1. j + 1 \in 1 .. n /\ (j + 1 = n <=> j = n - 1)
            BY <1>3
          <6>2. Tail(l)[j] = l[j + 1]
            BY <1>2 DEF n
          <6>3. QED
            BY <3>2, <6>1, <6>2
        <5>2. QED
          BY <1>3, <3>3, <5>1
      <4>3. w' => stop'[r] # <<>>
        <5> HIDE DEF z, y, w
        <5>1. ASSUME w PROVE n # 1
          <6>1. n = 1 => 1 \in 1 .. n
            OBVIOUS
          <6>2. QED
            BY <1>2, <3>2, <3>7, <5>1, <6>1
        <5>2. QED
          BY <1>3, <3>3, <5>1
      <4>4. ~Stopped(r)'
        BY <3>3, <3>7
      <4>5. QED
        BY <2>4, <4>1, <4>2, <4>3, <4>4 DEF InStep, z, w
    <3>8. QED
      BY <3>6, <3>7
  <2>5. QED
    BY <2>3, <2>4
<1>8. QED
  BY <1>4, <1>5, <1>6, <1>7

(* A job that dies takes the orders on their way with it, and one that     *)
(* starts from files that agree starts all ranks at one index.             *)
LEMMA NewJobTogether ==
  ASSUME Together, Crash \/ Restart
  PROVE  /\ stop' \in [Rank -> Seq(BOOLEAN)]
         /\ DeadTogether' /\ (Sound' => \A q \in Rank : InStep(q)')
         /\ \A q \in Rank : AtCheck(q)' /\ Written(q)'
<1>1. 0 \in Rank /\ <<>> \in Seq(BOOLEAN)
  BY JobAssumption DEF Rank
<1>2. CASE Crash
  <2>1. pc' = [r \in Rank |-> "dead"] /\ stop' = [r \in Rank |-> <<>>]
    BY <1>2 DEF Crash
  <2>2. \A q \in Rank : AtCheck(q)' /\ Written(q)'
    BY <2>1 DEF AtCheck, Written, Stopped
  <2>3. ~Sound'
    BY <1>1, <2>1 DEF Sound
  <2>4. QED
    BY <1>1, <2>1, <2>2, <2>3 DEF DeadTogether
<1>3. CASE Restart
  <2>1. /\ \A r \in Rank : pc[r] \in {"exit", "dead"}
        /\ mcs' = [r \in Rank |-> mc[r].mcs]
        /\ pc' = [r \in Rank |-> Loop(mc[r].mcs)]
        /\ torn' = (torn \/ \E r, s \in Rank : mc[r].mcs # mc[s].mcs)
        /\ UNCHANGED <<stop, mc>>
        /\ stop \in [Rank -> Seq(BOOLEAN)]
    BY <1>3 DEF Restart, Together
  <2>2. \A r \in Rank : pc'[r] \in {"loop", "gather"}
    BY <2>1 DEF Loop
  <2>3. \A r \in Rank : AtCheck(r)' /\ Written(r)' /\ ~Stopped(r)' /\ pc'[r] # "dead"
    BY <2>2 DEF AtCheck, Written, Stopped
  <2>4. ASSUME Sound', NEW q \in Rank PROVE InStep(q)'
    <3>1. ~torn /\ mc[q].mcs = mc[0].mcs
      BY <1>1, <2>1, <2>4 DEF Sound
    <3>2. Passed(Resumes(0))' = Passed(Resumes(q))'
      BY <1>1, <2>1, <2>2, <3>1 DEF Resumes
    <3>3. stop'[q] = <<>>
      <4>1. CASE \E r \in Rank : pc[r] = "dead"
        BY <2>1, <4>1 DEF Together, DeadTogether
      <4>2. CASE \A r \in Rank : pc[r] # "dead"
        <5>1. InStep(q) /\ Stopped(q)
          BY <2>1, <3>1, <4>2 DEF Together, Sound, Stopped
        <5>2. QED
          BY <2>1, <5>1 DEF InStep
      <4>3. QED
        BY <4>1, <4>2
    <3>4. Passed(Resumes(0))' \in Int
      <4>1. Resumes(0)' = mc[0].mcs
        BY <1>1, <2>1, <2>2 DEF Resumes
      <4>2. mc[0] \in [mcs : 0 .. SAMPS, samples : Nat] \cup {NoFile} /\ mc[0] # NoFile
        BY <1>1, <1>3 DEF Restart, Together, IInv
      <4>3. mc[0].mcs \in Nat
        BY <4>2, JobAssumption
      <4>4. QED
        BY <4>1, <4>3, Looks DEF Passed
    <3>5. Len(stop'[q]) = 0
      BY <3>3
    <3>6. QED
      BY <1>1, <2>3, <3>2, <3>3, <3>4, <3>5 DEF InStep
  <2>5. QED
    BY <2>1, <2>3, <2>4 DEF DeadTogether
<1>4. QED
  BY <1>2, <1>3

(* All of it holds in every run.                                           *)
LEMMA AllTogether == Spec => []Together
<1>1. Init => Together \/ ~IInv
  <2> SUFFICES ASSUME Init, IInv PROVE Together
    OBVIOUS
  <2>1. /\ \A r \in Rank : /\ pc[r] \in {"loop", "gather"} /\ mcs[r] = 0 /\ stop[r] = <<>>
        /\ stop = [r \in Rank |-> <<>>] /\ 0 \in Rank
    BY JobAssumption DEF Init, Loop, Rank
  <2>2. /\ stop \in [Rank -> Seq(BOOLEAN)]
        /\ \A r \in Rank : AtCheck(r) /\ Written(r) /\ ~Stopped(r)
        /\ DeadTogether
    BY <2>1 DEF AtCheck, Written, Stopped, DeadTogether
  <2>3. ASSUME NEW r \in Rank PROVE InStep(r)
    <3>1. Passed(Resumes(0)) = Passed(Resumes(r)) /\ Resumes(0) = 0
      BY <2>1 DEF Resumes
    <3>2. Passed(0) \in Nat /\ Len(stop[r]) = 0
      BY <2>1, Looks
    <3>3. QED
      BY <2>1, <2>2, <3>1, <3>2 DEF InStep
  <2>4. QED
    BY <2>2, <2>3 DEF Together
<1>2. IInv' /\ Together /\ [Next]_vars => Together'
  <2> SUFFICES ASSUME IInv', Together, [Next]_vars PROVE Together'
    OBVIOUS
  <2>1. ASSUME NEW r \in Rank, Step(r) PROVE Together'
    <3>1. CASE Broadcast(r) \/ Receive(r)
      BY <3>1, BroadcastTogether, ReceiveTogether DEF Together
    <3>2. CASE ~Broadcast(r) /\ ~Receive(r)
      <4>1. stop' = stop
        BY <2>1, <3>2 DEF Step, TakeSample, write_state, WriteMc, Gather, Report
      <4>2. QED
        BY <2>1, <3>2, <4>1, SampleTogether, LeavingTogether DEF Step, Together
    <3>3. QED
      BY <3>1, <3>2
  <2>2. CASE Crash \/ Restart
    BY <2>2, NewJobTogether DEF Together
  <2>3. CASE UNCHANGED vars
    BY <2>3 DEF vars, Together, AtCheck, Written, Stopped, Resumes, DeadTogether, Sound,
                InStep, Passed
  <2>4. QED
    BY <2>1, <2>2, <2>3 DEF Next
<1>3. QED
  BY <1>1, <1>2, Inductive, PTL DEF Spec

(* For every number of ranks, samples and looks at the clock, and however  *)
(* far rank 0 runs ahead of its broadcasts: the files of a stop that       *)
(* completed agree on the sample to go on with.                            *)
THEOREM StopsAgree == Spec => []CheckpointsAgree
<1>1. Together => CheckpointsAgree
  <2> SUFFICES ASSUME Together, ~torn, \A r \in Rank : pc[r] = "exit",
                      NEW r \in Rank, NEW s \in Rank
               PROVE  mc[r].mcs = mc[s].mcs
    BY DEF CheckpointsAgree
  <2>1. \A q \in Rank : mc[q].mcs = mcs[q] /\ InStep(q) /\ Stopped(q) /\ Resumes(q) = mcs[q]
    BY DEF Together, Written, Sound, Stopped, Resumes
  <2>2. QED
    BY <2>1 DEF InStep
<1>2. QED
  BY <1>1, AllTogether, PTL
=============================================================================
