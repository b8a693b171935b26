------------------------ MODULE ReplicaExchange_proofs ------------------------
(***************************************************************************)
(* Proofs about replica exchange, for every number of ranks, every set of  *)
(* configurations, every schedule and both kinds of send: type             *)
(* correctness, the invariants of the walkers, the channels and the        *)
(* counters, and that the message protocol implements ReplicaPermutation.  *)
(*                                                                         *)
(* None of them is inductive by itself.  A receive is right only because   *)
(* of what its peer sent and in which round, so the invariant IInv says    *)
(* where each rank is in its schedule (Scheduled) and, for each pair of    *)
(* neighbours, what their two channels hold when both are in the same      *)
(* meeting (Together) and when one has left it already (AheadOf).          *)
(***************************************************************************)
EXTENDS ReplicaExchange, SequenceTheorems, TLAPS

(* TypeOK alone is not inductive either: a receive reads chan[Peer(r)][r], *)
(* which is a channel only when Peer(r) is a rank.  PostEnergy checks it   *)
(* once, and no later step of the round does, so the invariant carries it. *)
Exchanging == {"energy", "decide", "flag", "decided", "config"}
HasPartner == \A r \in Rank : pc[r] \in Exchanging => Peer(r) \in Rank
Typed == TypeOK /\ HasPartner
-----------------------------------------------------------------------------
(* What a receive takes is a message, with the content its kind promises,  *)
(* and what it leaves is a channel.                                        *)
LEMMA ReceivedType ==
  ASSUME chan \in [Rank -> [Rank -> Seq(Message)]],
         NEW r \in Rank, Peer(r) \in Rank, NEW kind, Arrived(r, kind)
  PROVE  /\ Received(r) \in [Rank -> [Rank -> Seq(Message)]]
         /\ kind = "energy" => Incoming(r).energy \in Int
         /\ kind = "flag" => Incoming(r).flag \in BOOLEAN
         /\ kind = "config" => Incoming(r).atom \in Config
<1>1. chan[Peer(r)][r] \in Seq(Message) /\ chan[Peer(r)][r] # <<>>
  BY DEF Arrived
<1>2. Incoming(r) \in Message /\ Tail(chan[Peer(r)][r]) \in Seq(Message)
  BY <1>1 DEF Incoming
<1>3. Incoming(r).kind = kind
  BY DEF Arrived, Incoming
<1>4. Received(r) \in [Rank -> [Rank -> Seq(Message)]]
  BY <1>2 DEF Received
<1> QED BY <1>2, <1>3, <1>4 DEF Message

(* A posted message leaves every channel a sequence of messages.           *)
LEMMA PostType ==
  ASSUME chan \in [Rank -> [Rank -> Seq(Message)]],
         NEW r \in Rank, Peer(r) \in Rank, NEW m \in Message, Post(r, m)
  PROVE  chan' \in [Rank -> [Rank -> Seq(Message)]]
<1>1. Append(chan[r][Peer(r)], m) \in Seq(Message)
  OBVIOUS
<1> QED BY <1>1 DEF Post

(* Every rank starts with its own configuration and nothing in flight.     *)
LEMMA InitTyped == Init => Typed
<1> SUFFICES ASSUME Init PROVE Typed
  OBVIOUS
<1> USE EnergyAssumption
<1>1. TypeOK
  BY DEF Init, TypeOK, LoopEnd
<1>2. HasPartner
  BY DEF Init, HasPartner, LoopEnd, Exchanging
<1> QED BY <1>1, <1>2 DEF Typed

(* Each operation keeps every variable in its range and every              *)
(* exchanging rank with a partner.                                         *)
LEMMA StepTyped == Typed /\ [Next]_vars => Typed'
<1> SUFFICES ASSUME Typed, [Next]_vars PROVE Typed'
  OBVIOUS
<1> USE EnergyAssumption DEF Typed, TypeOK
<1>1. CASE UNCHANGED vars
  BY <1>1 DEF vars, HasPartner, Peer, Proposes
<1>2. ASSUME NEW r \in Rank, Sweep(r) PROVE Typed'
  <2>1. /\ Atom' \in [Rank -> Config]
        /\ W' \in [Rank -> Int]
        /\ currEtot' \in [Rank -> Int]
    <3>1. CASE UNCHANGED walker
      BY <3>1 DEF walker
    <3>2. ASSUME NEW c \in Config, Move(r, c)
          PROVE  /\ Atom' \in [Rank -> Config]
                 /\ W' \in [Rank -> Int]
                 /\ currEtot' \in [Rank -> Int]
      <4>1. Atom' \in [Rank -> Config]
        BY <3>2 DEF Move
      <4>2. W' \in [Rank -> Int]
        BY <3>2 DEF Move
      <4>3. currEtot' \in [Rank -> Int]
        BY <3>2, <4>2 DEF Move
      <4> QED BY <4>1, <4>2, <4>3
    <3> QED BY <1>2, <3>1, <3>2 DEF Sweep
  <2>2. pc' \in [Rank -> {"sweep", "swap", "energy", "decide", "flag",
                          "decided", "config", "ini_W", "done", "abort"}]
    BY <1>2 DEF Sweep, LoopEnd
  <2>3. sweeps' \in [Rank -> Nat]
    BY <1>2 DEF Sweep
  <2>4. TypeOK'
    BY <1>2, <2>1, <2>2, <2>3 DEF Sweep, round, counters
  <2>5. HasPartner'
    BY <1>2 DEF Sweep, HasPartner, Exchanging, Peer, Proposes, LoopEnd
  <2> QED BY <2>4, <2>5
<1>3. ASSUME NEW r \in Rank, PostEnergy(r) PROVE Typed'
  <2>1. chan' \in [Rank -> [Rank -> Seq(Message)]]
    BY <1>3, PostType DEF PostEnergy, Message
  <2>2. TypeOK'
    BY <1>3, <2>1 DEF PostEnergy, loop, walker, round, counters
  <2>3. HasPartner'
    BY <1>3 DEF PostEnergy, HasPartner, Exchanging, Peer, Proposes, loop
  <2> QED BY <2>2, <2>3
<1>4. ASSUME NEW r \in Rank, SitOut(r) PROVE Typed'
  BY <1>4 DEF SitOut, loop, walker, round, counters,
              HasPartner, Exchanging, Peer, Proposes
<1>5. ASSUME NEW r \in Rank, TakeEnergy(r) PROVE Typed'
  <2>1. Peer(r) \in Rank
    BY <1>5 DEF TakeEnergy, HasPartner, Exchanging
  <2>2. /\ Received(r) \in [Rank -> [Rank -> Seq(Message)]]
        /\ Incoming(r).energy \in Int
    BY <1>5, <2>1, ReceivedType DEF TakeEnergy
  <2>3. TypeOK'
    BY <1>5, <2>2 DEF TakeEnergy, loop, walker, counters
  <2>4. HasPartner'
    BY <1>5 DEF TakeEnergy, HasPartner, Exchanging, Peer, Proposes, loop
  <2> QED BY <2>3, <2>4
<1>6. ASSUME NEW r \in Rank, Decide(r) PROVE Typed'
  <2>1. Peer(r) \in Rank
    BY <1>6 DEF Decide, HasPartner, Exchanging
  <2>2. chan' \in [Rank -> [Rank -> Seq(Message)]]
    BY <1>6, <2>1, PostType DEF Decide, Message
  <2>3. flag' \in [Rank -> BOOLEAN] /\ att' \in [Rank -> Nat]
    BY <1>6 DEF Decide
  <2>4. TypeOK'
    BY <1>6, <2>2, <2>3 DEF Decide, loop, walker
  <2>5. HasPartner'
    BY <1>6 DEF Decide, HasPartner, Exchanging, Peer, Proposes, loop
  <2> QED BY <2>4, <2>5
<1>7. ASSUME NEW r \in Rank, TakeFlag(r) PROVE Typed'
  <2>1. Peer(r) \in Rank
    BY <1>7 DEF TakeFlag, HasPartner, Exchanging
  <2>2. /\ Received(r) \in [Rank -> [Rank -> Seq(Message)]]
        /\ Incoming(r).flag \in BOOLEAN
    BY <1>7, <2>1, ReceivedType DEF TakeFlag
  <2>3. TypeOK'
    BY <1>7, <2>2 DEF TakeFlag, loop, walker, counters
  <2>4. HasPartner'
    BY <1>7 DEF TakeFlag, HasPartner, Exchanging, Peer, Proposes, loop
  <2> QED BY <2>3, <2>4
<1>8. ASSUME NEW r \in Rank, Reject(r) PROVE Typed'
  BY <1>8 DEF Reject, loop, walker, round, counters,
              HasPartner, Exchanging, Peer, Proposes
<1>9. ASSUME NEW r \in Rank, PostConfig(r) PROVE Typed'
  <2>1. Peer(r) \in Rank
    BY <1>9 DEF PostConfig, HasPartner, Exchanging
  <2>2. chan' \in [Rank -> [Rank -> Seq(Message)]]
    BY <1>9, <2>1, PostType DEF PostConfig, Message
  <2>3. TypeOK'
    BY <1>9, <2>2 DEF PostConfig, loop, walker, round, counters
  <2>4. HasPartner'
    BY <1>9 DEF PostConfig, HasPartner, Exchanging, Peer, Proposes, loop
  <2> QED BY <2>3, <2>4
<1>10. ASSUME NEW r \in Rank, TakeConfig(r) PROVE Typed'
  <2>1. Peer(r) \in Rank
    BY <1>10 DEF TakeConfig, HasPartner, Exchanging
  <2>2. /\ Received(r) \in [Rank -> [Rank -> Seq(Message)]]
        /\ Incoming(r).atom \in Config
    BY <1>10, <2>1, ReceivedType DEF TakeConfig
  <2>3. /\ Atom' \in [Rank -> Config]
        /\ currEtot' \in [Rank -> Int]
        /\ acc' \in [Rank -> Nat]
    BY <1>10, <2>2 DEF TakeConfig
  <2>4. TypeOK'
    BY <1>10, <2>2, <2>3 DEF TakeConfig, loop, round
  <2>5. HasPartner'
    BY <1>10 DEF TakeConfig, HasPartner, Exchanging, Peer, Proposes, loop
  <2> QED BY <2>4, <2>5
<1>11. ASSUME NEW r \in Rank, IniW(r) PROVE Typed'
  <2>1. TypeOK'
    BY <1>11 DEF IniW, LoopEnd, round, counters
  <2>2. HasPartner'
    BY <1>11 DEF IniW, HasPartner, Exchanging, Peer, Proposes, LoopEnd
  <2> QED BY <2>1, <2>2
<1>12. CASE Done
  BY <1>1, <1>12 DEF Done
<1> QED BY <1>1, <1>2, <1>3, <1>4, <1>5, <1>6, <1>7, <1>8, <1>9, <1>10,
           <1>11, <1>12 DEF Next, Swap

(* In every run every variable stays in its range; in particular a rank    *)
(* reads a message only where a channel to it exists, and finds in it what *)
(* it reads: an energy, a flag, a configuration.                           *)
THEOREM TypeCorrect == Spec => []TypeOK
<1>1. Init => Typed
  BY InitTyped
<1>2. Typed /\ [Next]_vars => Typed'
  BY StepTyped
<1>3. Typed => TypeOK
  BY DEF Typed
<1> QED BY <1>1, <1>2, <1>3, PTL DEF Spec

(***************************************************************************)
(* The schedule.  SwapsIn(n) is the number of rounds that the first n      *)
(* sweeps lead to, so that a rank's sweeps tell which round it is in or    *)
(* goes to next, and with it who meets whom.                               *)
(***************************************************************************)
Last == NRanks - 1
Total == DropI + Samples

SwapsIn(n) == IF n <= DropI THEN (n + 1) \div 2
              ELSE (DropI + 1) \div 2 + (n - DropI + 1) \div 2
InSwap == Exchanging \cup {"swap", "ini_W", "abort"}
RoundOf(r) == IF pc[r] \in InSwap THEN SwapsIn(sweeps[r]) - 1
                                  ELSE SwapsIn(sweeps[r])

OnSchedule == \A r \in Rank :
  /\ RoundOf(r) \in Nat
  /\ even[r] <=> RoundOf(r) % 2 = 0
  /\ sweeps[r] <= Total
  /\ pc[r] = "sweep" => sweeps[r] < Total
  /\ pc[r] = "done" => sweeps[r] = Total
  /\ sweeps[r] = 0 => pc[r] \in {"sweep", "done"}

Roles == \A r \in Rank :
  /\ pc[r] \in Exchanging => Proposes(r) \/ Answers(r)
  /\ pc[r] = "decide" => Proposes(r)
  /\ pc[r] = "flag" => Answers(r)

(* With an odd number of ranks the last one finds no partner in its first  *)
(* round and goes no further.                                              *)
LastAlone == NRanks % 2 # 0 =>
  RoundOf(Last) = 0 /\ pc[Last] \in {"sweep", "swap", "abort", "done"}

(* Rounds of parity p among the first k. *)
Meets(k, p) == IF p = 0 THEN (k + 1) \div 2 ELSE k \div 2
AttemptsOf(r) ==
  IF pc[r] \in {"decided", "config", "ini_W"} /\ RoundOf(r) % 2 = r % 2
  THEN Meets(RoundOf(r), r % 2) + 1 ELSE Meets(RoundOf(r), r % 2)
AttemptsMade == /\ att[Last] = 0
                /\ \A r \in Rank \ {Last} : att[r] = AttemptsOf(r)

Scheduled == OnSchedule /\ Roles /\ LastAlone /\ AttemptsMade

(* A sweep leads to one more round exactly when a swap is due after it.    *)
LEMMA SwapsInNext ==
  /\ SwapsIn(0) = 0
  /\ \A n \in Nat : SwapsIn(n) \in Nat /\ (n > 0 => SwapsIn(n) > 0)
  /\ \A n \in Nat : SwapsIn(n + 1) = SwapsIn(n) + (IF SwapDue(n) THEN 1 ELSE 0)
BY ScheduleAssumption DEF SwapsIn, SwapDue

(* The last rank and the length of the schedule are what they seem.        *)
LEMMA SchedulePoints ==
  ASSUME Typed, NEW r \in Rank
  PROVE  Total \in Nat /\ Last \in Rank /\ sweeps[r] \in Nat
<1>1. Total \in Nat /\ Last \in Rank
  BY ScheduleAssumption, NRanksAssumption DEF Total, Last, Rank
<1>2. QED
  BY <1>1 DEF Typed, TypeOK

(* A step moves its rank's round on only where it leaves swap().           *)
LEMMA Clocks ==
  ASSUME Typed, OnSchedule, NEW r \in Rank, Sweep(r) \/ Swap(r)
  PROVE  /\ RoundOf(r)' = RoundOf(r) + (IF pc[r] = "ini_W" THEN 1 ELSE 0)
         /\ \A q \in Rank \ {r} : /\ pc'[q] = pc[q] /\ sweeps'[q] = sweeps[q]
                                  /\ even'[q] = even[q] /\ att'[q] = att[q]
                                  /\ RoundOf(q)' = RoundOf(q)
<1>1. CASE Sweep(r)
  <2>1. /\ pc[r] = "sweep" /\ sweeps[r] \in Nat
        /\ sweeps'[r] = sweeps[r] + 1
        /\ pc'[r] = IF SwapDue(sweeps[r]) THEN "swap" ELSE LoopEnd(r)'
        /\ UNCHANGED <<even, att>>
        /\ \A q \in Rank \ {r} : pc'[q] = pc[q] /\ sweeps'[q] = sweeps[q]
    BY <1>1 DEF Sweep, Typed, TypeOK, counters
  <2>2. pc'[r] \in {"swap", "done", "sweep"} /\ (pc'[r] = "swap" <=> SwapDue(sweeps[r]))
    BY <2>1 DEF LoopEnd
  <2>3. RoundOf(r)' = RoundOf(r)
    BY <2>1, <2>2, SwapsInNext DEF RoundOf, InSwap, Exchanging
  <2>4. RoundOf(r) \in Nat
    BY DEF OnSchedule
  <2>5. QED
    BY <2>1, <2>3, <2>4 DEF RoundOf
<1>2. CASE IniW(r)
  <2>1. /\ pc[r] = "ini_W" /\ pc'[r] \in {"done", "sweep"}
        /\ \A q \in Rank \ {r} : pc'[q] = pc[q] /\ even'[q] = even[q]
        /\ UNCHANGED <<sweeps, att>>
    BY <1>2 DEF IniW, Typed, TypeOK, counters, LoopEnd
  <2>2. SwapsIn(sweeps[r]) \in Nat
    BY SwapsInNext, SchedulePoints
  <2>3. QED
    BY <2>1, <2>2 DEF RoundOf, InSwap, Exchanging
<1>3. CASE PostEnergy(r) \/ SitOut(r) \/ TakeEnergy(r) \/ Decide(r) \/ TakeFlag(r)
           \/ Reject(r) \/ PostConfig(r) \/ TakeConfig(r)
  <2>1. /\ pc[r] \in InSwap /\ pc'[r] \in InSwap /\ pc[r] # "ini_W"
        /\ UNCHANGED <<sweeps, even>>
        /\ \A q \in Rank \ {r} : pc'[q] = pc[q] /\ att'[q] = att[q]
    BY <1>3 DEF PostEnergy, SitOut, TakeEnergy, Decide, TakeFlag, Reject, PostConfig,
                TakeConfig, Typed, TypeOK, loop, counters, InSwap, Exchanging
  <2>2. SwapsIn(sweeps[r]) \in Nat
    BY SwapsInNext, SchedulePoints
  <2>3. QED
    BY <2>1, <2>2 DEF RoundOf
<1>4. QED
  BY <1>1, <1>2, <1>3 DEF Swap

(* Before the first sweep all ranks are in round 0 and have met nobody.    *)
LEMMA InitScheduled == Init => Scheduled
<1> SUFFICES ASSUME Init PROVE Scheduled
  OBVIOUS
<1>1. \A r \in Rank : /\ sweeps[r] = 0 /\ even[r] = TRUE /\ att[r] = 0
                      /\ pc[r] = IF Total = 0 THEN "done" ELSE "sweep"
  BY DEF Init, LoopEnd, Total
<1>2. \A r \in Rank : RoundOf(r) = 0 /\ pc[r] \in {"sweep", "done"}
  BY <1>1, SwapsInNext DEF RoundOf, InSwap, Exchanging
<1>3. Last \in Rank /\ Total \in Nat
  BY NRanksAssumption, ScheduleAssumption DEF Last, Total, Rank
<1>4. OnSchedule
  BY <1>1, <1>2, <1>3 DEF OnSchedule
<1>5. Roles
  BY <1>2 DEF Roles, Exchanging
<1>6. LastAlone
  BY <1>2, <1>3 DEF LastAlone
<1>7. AttemptsMade
  BY <1>1, <1>2, <1>3 DEF AttemptsMade, AttemptsOf, Meets
<1>8. QED
  BY <1>4, <1>5, <1>6, <1>7 DEF Scheduled

(* The flag of the loop is the parity of the rank's round, and the sweeps  *)
(* never exceed the schedule.                                              *)
LEMMA StepOnSchedule ==
  ASSUME Typed, Scheduled, NEW r \in Rank, Sweep(r) \/ Swap(r)
  PROVE  OnSchedule'
<1>1. /\ RoundOf(r)' = RoundOf(r) + (IF pc[r] = "ini_W" THEN 1 ELSE 0)
      /\ RoundOf(r) \in Nat /\ (even[r] <=> RoundOf(r) % 2 = 0)
      /\ sweeps[r] <= Total /\ sweeps[r] \in Nat /\ Total \in Nat
      /\ pc[r] = "sweep" => sweeps[r] < Total
      /\ sweeps[r] = 0 => pc[r] \in {"sweep", "done"}
      /\ even[r] \in BOOLEAN
  BY Clocks, SchedulePoints DEF Scheduled, OnSchedule, Typed, TypeOK
<1>2. /\ RoundOf(r)' \in Nat
      /\ RoundOf(r)' % 2 = 0 <=> (IF pc[r] = "ini_W" THEN RoundOf(r) % 2 # 0
                                                     ELSE RoundOf(r) % 2 = 0)
  BY <1>1
<1>3. even'[r] = IF pc[r] = "ini_W" THEN ~even[r] ELSE even[r]
  BY DEF Sweep, Swap, PostEnergy, SitOut, TakeEnergy, Decide, TakeFlag, Reject,
         PostConfig, TakeConfig, IniW, loop, Typed, TypeOK
<1>4. /\ sweeps'[r] <= Total
      /\ pc'[r] = "sweep" => sweeps'[r] < Total
      /\ pc'[r] = "done" => sweeps'[r] = Total
      /\ sweeps'[r] = 0 => pc'[r] \in {"sweep", "done"}
  <2>1. CASE Sweep(r)
    BY <1>1, <2>1 DEF Sweep, LoopEnd, Total, Typed, TypeOK
  <2>2. CASE IniW(r)
    BY <1>1, <2>2 DEF IniW, LoopEnd, Total, Typed, TypeOK
  <2>3. CASE PostEnergy(r) \/ SitOut(r) \/ TakeEnergy(r) \/ Decide(r) \/ TakeFlag(r)
             \/ Reject(r) \/ PostConfig(r) \/ TakeConfig(r)
    BY <1>1, <2>3 DEF PostEnergy, SitOut, TakeEnergy, Decide, TakeFlag, Reject,
                      PostConfig, TakeConfig, Typed, TypeOK, loop
  <2>4. QED
    BY <2>1, <2>2, <2>3 DEF Swap
<1>5. \A q \in Rank \ {r} : /\ pc'[q] = pc[q] /\ sweeps'[q] = sweeps[q]
                            /\ even'[q] = even[q] /\ RoundOf(q)' = RoundOf(q)
  BY Clocks DEF Scheduled
<1>6. Total' = Total
  BY DEF Total
<1>7. QED
  BY <1>1, <1>2, <1>3, <1>4, <1>5, <1>6 DEF Scheduled, OnSchedule

(* A rank keeps its role, proposing or answering, through a round.         *)
LEMMA StepRoles ==
  ASSUME Typed, Scheduled, NEW r \in Rank, Sweep(r) \/ Swap(r)
  PROVE  Roles'
<1>1. \A q \in Rank \ {r} : pc'[q] = pc[q] /\ even'[q] = even[q]
  BY Clocks DEF Scheduled
<1>2. \A q \in Rank : even'[q] = even[q] =>
        (Proposes(q)' <=> Proposes(q)) /\ (Answers(q)' <=> Answers(q))
  BY DEF Proposes, Answers
<1>3. CASE Sweep(r)
  <2>1. pc'[r] \in {"swap", "sweep", "done"}
    BY <1>3 DEF Sweep, LoopEnd, Typed, TypeOK
  <2>2. QED
    BY <1>1, <1>2, <2>1 DEF Roles, Exchanging, Scheduled
<1>4. CASE IniW(r)
  <2>1. pc'[r] \in {"sweep", "done"}
    BY <1>4 DEF IniW, LoopEnd, Typed, TypeOK
  <2>2. QED
    BY <1>1, <1>2, <2>1 DEF Roles, Exchanging, Scheduled
<1>5. CASE PostEnergy(r) \/ SitOut(r) \/ TakeEnergy(r) \/ Decide(r) \/ TakeFlag(r)
           \/ Reject(r) \/ PostConfig(r) \/ TakeConfig(r)
  <2>1. even' = even
    BY <1>5 DEF PostEnergy, SitOut, TakeEnergy, Decide, TakeFlag, Reject, PostConfig,
                TakeConfig, loop
  <2>2. /\ pc'[r] \in Exchanging => Proposes(r) \/ Answers(r)
        /\ pc'[r] = "decide" => Proposes(r)
        /\ pc'[r] = "flag" => Answers(r)
    BY <1>5 DEF PostEnergy, SitOut, TakeEnergy, Decide, TakeFlag, Reject, PostConfig,
                TakeConfig, Typed, TypeOK, Roles, Scheduled, Exchanging
  <2>3. QED
    BY <1>1, <1>2, <2>1, <2>2 DEF Roles, Scheduled
<1>6. QED
  BY <1>3, <1>4, <1>5 DEF Swap

(* The last of an odd number of ranks stays before its first exchange.     *)
LEMMA StepLastAlone ==
  ASSUME Typed, Scheduled, NEW r \in Rank, Sweep(r) \/ Swap(r)
  PROVE  LastAlone'
<1>1. SUFFICES ASSUME NRanks % 2 # 0, r = Last
               PROVE  RoundOf(Last)' = 0 /\ pc'[Last] \in {"sweep", "swap", "abort", "done"}
  BY Clocks, SchedulePoints DEF Scheduled, LastAlone, Last
<1>2. RoundOf(r) = 0 /\ pc[r] \in {"sweep", "swap", "abort", "done"} /\ even[r]
  BY <1>1 DEF Scheduled, LastAlone, OnSchedule
<1>3. r % 2 = 0 /\ Proposes(r) /\ Peer(r) \notin Rank
  BY <1>1, <1>2, NRanksAssumption DEF Last, Proposes, Peer, Rank
<1>4. RoundOf(r)' = 0
  BY <1>2, Clocks DEF Scheduled
<1>5. pc'[r] \in {"sweep", "swap", "abort", "done"}
  BY <1>2, <1>3 DEF Sweep, Swap, PostEnergy, SitOut, TakeEnergy, Decide, TakeFlag, Reject,
                    PostConfig, TakeConfig, IniW, LoopEnd, Typed, TypeOK
<1>6. QED
  BY <1>1, <1>4, <1>5

(* A pair meets in every second round.                                     *)
LEMMA MeetsNext ==
  ASSUME NEW k \in Nat, NEW p \in {0, 1}
  PROVE  /\ Meets(k, p) \in Nat
         /\ Meets(k + 1, p) = Meets(k, p) + (IF k % 2 = p THEN 1 ELSE 0)
BY DEF Meets

(* Who proposes is in a round of its own parity, who answers is not.       *)
LEMMA RoleParity ==
  ASSUME Typed, Scheduled, NEW r \in Rank
  PROVE  /\ Proposes(r) => RoundOf(r) % 2 = r % 2
         /\ Answers(r) => RoundOf(r) % 2 # r % 2 /\ r # 0
         /\ r # Last /\ ~Proposes(r) => RoundOf(r) % 2 # r % 2
         /\ Proposes(r) /\ pc[r] \in Exchanging => r # Last
<1>1. RoundOf(r) \in Nat /\ (even[r] <=> RoundOf(r) % 2 = 0) /\ r \in Nat
  BY DEF Scheduled, OnSchedule, Rank
<1>2. pc[r] \in Exchanging /\ Proposes(r) => r + 1 \in Rank
  BY DEF Typed, HasPartner, Peer
<1>3. r + 1 \in Rank => r # Last
  BY NRanksAssumption DEF Last, Rank
<1>4. QED
  BY <1>1, <1>2, <1>3 DEF Proposes, Answers, Last

(* Only a decision counts an attempt, and it is the one its round asks     *)
(* for.                                                                    *)
LEMMA StepAttempts ==
  ASSUME Typed, Scheduled, NEW r \in Rank, Sweep(r) \/ Swap(r)
  PROVE  AttemptsMade'
<1> DEFINE p == r % 2
           Counted == pc[r] \in {"decided", "config", "ini_W"} /\ RoundOf(r) % 2 = p
<1>1. \A q \in Rank \ {r} : pc'[q] = pc[q] /\ att'[q] = att[q] /\ RoundOf(q)' = RoundOf(q)
  BY Clocks DEF Scheduled
<1>2. \A q \in Rank \ {r} : AttemptsOf(q)' = AttemptsOf(q)
  BY <1>1 DEF AttemptsOf, Meets
<1>3. RoundOf(r) \in Nat /\ Last \in Rank /\ Last' = Last /\ p \in {0, 1}
  <2>1. p \in {0, 1}
    BY DEF Rank
  <2>2. QED
    BY <2>1, SchedulePoints DEF Scheduled, OnSchedule, Last
<1>4. RoundOf(r)' = IF pc[r] = "ini_W" THEN RoundOf(r) + 1 ELSE RoundOf(r)
  BY <1>3, Clocks DEF Scheduled
<1>5. Meets(RoundOf(r), p) \in Nat
  BY <1>3, MeetsNext
<1>6. att'[r] = IF Decide(r) THEN att[r] + 1 ELSE att[r]
  BY DEF Sweep, Swap, PostEnergy, SitOut, TakeEnergy, Decide, TakeFlag, Reject,
         PostConfig, TakeConfig, IniW, counters, Typed, TypeOK
<1>7. Decide(r) => /\ r # Last /\ ~Counted /\ pc[r] # "ini_W"
                   /\ pc'[r] = "decided" /\ RoundOf(r) % 2 = p
  BY RoleParity DEF Decide, Scheduled, Roles, Exchanging, Typed, TypeOK
<1>8. CASE r = Last
  BY <1>1, <1>2, <1>3, <1>6, <1>7, <1>8 DEF Scheduled, AttemptsMade
<1>9. CASE r # Last
  <2>1. att[r] = IF Counted THEN Meets(RoundOf(r), p) + 1 ELSE Meets(RoundOf(r), p)
    BY <1>9 DEF Scheduled, AttemptsMade, AttemptsOf
  <2>2. SUFFICES att'[r] = AttemptsOf(r)'
    BY <1>1, <1>2, <1>3, <1>9 DEF Scheduled, AttemptsMade
  <2>3. AttemptsOf(r)' = IF Counted' THEN Meets(RoundOf(r)', p) + 1
                                     ELSE Meets(RoundOf(r)', p)
    BY DEF AttemptsOf, Meets
  <2>4. CASE Decide(r)
    BY <1>4, <1>6, <1>7, <2>1, <2>3, <2>4
  <2>5. CASE IniW(r)
    <3>1. pc[r] = "ini_W" /\ pc'[r] \in {"sweep", "done"} /\ ~Decide(r)
      BY <2>5 DEF IniW, Decide, LoopEnd, Typed, TypeOK
    <3>2. AttemptsOf(r)' = Meets(RoundOf(r) + 1, p)
      BY <1>4, <2>3, <3>1
    <3>3. QED
      BY <1>3, <1>5, <1>6, <2>1, <3>1, <3>2, MeetsNext
  <2>6. CASE ~Decide(r) /\ ~IniW(r)
    <3>1. pc[r] # "ini_W"
      BY <2>6 DEF Sweep, Swap, PostEnergy, SitOut, TakeEnergy, TakeFlag,
                  Reject, PostConfig, TakeConfig
    <3>2. Counted' <=> Counted
      <4>1. CASE TakeFlag(r) \/ SitOut(r)
        BY <1>4, <1>9, <3>1, <4>1, RoleParity DEF TakeFlag, SitOut, Scheduled, Roles
      <4>2. CASE ~(TakeFlag(r) \/ SitOut(r))
        <5>1. pc[r] \in {"decided", "config", "ini_W"} <=>
                pc'[r] \in {"decided", "config", "ini_W"}
          BY <2>6, <4>2 DEF Sweep, Swap, PostEnergy, TakeEnergy, Reject, PostConfig,
                            TakeConfig, LoopEnd, Typed, TypeOK
        <5>2. QED
          BY <1>4, <3>1, <5>1
      <4>3. QED
        BY <4>1, <4>2
    <3>3. QED
      BY <1>4, <1>6, <2>1, <2>3, <2>6, <3>1, <3>2
  <2>7. QED
    BY <2>4, <2>5, <2>6
<1>10. QED
  BY <1>8, <1>9

(* Every step keeps the schedule.                                          *)
LEMMA StepScheduled == Typed /\ Scheduled /\ [Next]_vars => Scheduled'
<1> SUFFICES ASSUME Typed, Scheduled, [Next]_vars PROVE Scheduled'
  OBVIOUS
<1>1. CASE UNCHANGED vars
  BY <1>1 DEF vars, Scheduled, OnSchedule, Roles, LastAlone, AttemptsMade, AttemptsOf, RoundOf,
              Proposes, Answers, InSwap, Exchanging, Last, Total, Meets, SwapsIn
<1>2. ASSUME NEW r \in Rank, Sweep(r) \/ Swap(r) PROVE Scheduled'
  BY <1>2, StepOnSchedule, StepRoles, StepLastAlone, StepAttempts DEF Scheduled
<1>3. QED
  BY <1>1, <1>2 DEF Next, Done

(***************************************************************************)
(* The pairs.  Ranks a and a + 1 meet in the rounds of a's parity.  What   *)
(* their two channels hold follows from the meeting each is in or goes to  *)
(* next, and from how far it is in it.                                     *)
(***************************************************************************)
Lower == Rank \ {Last}

Stage(r, p) == IF pc[r] \in Exchanging /\ RoundOf(r) % 2 = p THEN pc[r] ELSE "out"
Meeting(r, p) == IF RoundOf(r) % 2 # p THEN RoundOf(r) + 1
                 ELSE IF pc[r] = "ini_W" THEN RoundOf(r) + 2 ELSE RoundOf(r)

EnergyOf(r) == [kind |-> "energy", energy |-> Bonds[Atom[r]]]
FlagOf(r) == [kind |-> "flag", flag |-> flag[r]]
ConfigOf(r) == [kind |-> "config", atom |-> Atom[r]]

(* Both are in the same meeting, or on the way to it: the lower rank sends *)
(* energy, flag and configuration, the upper one energy and configuration. *)
SentDown(a) ==
  LET b == a + 1
      A == Stage(a, a % 2)
      B == Stage(b, a % 2)
  IN  /\ B \in {"out", "energy"} =>
           /\ A = "out" => chan[a][b] = <<>>
           /\ A \in {"energy", "decide"} => chan[a][b] = <<EnergyOf(a)>>
           /\ A = "decided" => chan[a][b] = <<EnergyOf(a), FlagOf(a)>>
           /\ A = "config" => chan[a][b] = <<EnergyOf(a), FlagOf(a), ConfigOf(a)>>
      /\ B = "flag" =>
           /\ A # "out"
           /\ A \in {"energy", "decide"} => chan[a][b] = <<>>
           /\ A = "decided" => chan[a][b] = <<FlagOf(a)>>
           /\ A = "config" => chan[a][b] = <<FlagOf(a), ConfigOf(a)>>
      /\ B \in {"decided", "config"} =>
           /\ A \in {"decided", "config"}
           /\ A = "decided" => chan[a][b] = <<>>
           /\ A = "config" => chan[a][b] = <<ConfigOf(a)>>

SentUp(a) ==
  LET b == a + 1
      A == Stage(a, a % 2)
      B == Stage(b, a % 2)
  IN  /\ A \in {"out", "energy"} =>
           /\ B = "out" => chan[b][a] = <<>>
           /\ B # "out" => chan[b][a] = <<EnergyOf(b)>>
      /\ A \in {"decide", "decided", "config"} =>
           /\ B # "out"
           /\ B = "config" => chan[b][a] = <<ConfigOf(b)>>
           /\ B # "config" => chan[b][a] = <<>>

Learnt(a) ==
  LET b == a + 1
      A == Stage(a, a % 2)
      B == Stage(b, a % 2)
  IN  /\ A \in {"out", "energy", "decide", "decided", "config"}
      /\ B \in {"out", "energy", "flag", "decided", "config"}
      /\ A \in {"decide", "decided", "config"} => Ej[a] = Bonds[Atom[b]]
      /\ B \in {"flag", "decided", "config"} => Ej[b] = Bonds[Atom[a]]
      /\ B \in {"decided", "config"} => flag[b] = flag[a]
      /\ A = "config" => flag[a]
      /\ B = "config" => flag[b]

Together(a) == SentDown(a) /\ SentUp(a) /\ Learnt(a)

(* Rank y has finished the meeting that x is still in: it rejected, or it  *)
(* has x's configuration and x has yet to take the one y sent.  y may have *)
(* sent the first message of their next meeting.                           *)
AheadOf(y, x, p) ==
  LET X == Stage(x, p)
      Y == Stage(y, p)
      Waiting(m) == /\ Y = "out" => chan[y][x] = <<m>>
                    /\ Y = "energy" => chan[y][x] = <<m, EnergyOf(y)>>
  IN  /\ Y \in {"out", "energy"}
      /\ chan[x][y] = <<>>
      /\ X \in {"energy", "flag", "decided", "config"}
      /\ X = "energy" => \E e \in Int :
           LET E == [kind |-> "energy", energy |-> e]
               F == [kind |-> "flag", flag |-> FALSE]
           IN  /\ y < x
               /\ Y = "out" => chan[y][x] = <<E, F>>
               /\ Y = "energy" => chan[y][x] = <<E, F, EnergyOf(y)>>
      /\ X = "flag" => Waiting([kind |-> "flag", flag |-> FALSE])
      /\ X = "decided" => /\ ~flag[x]
                          /\ Y = "out" => chan[y][x] = <<>>
                          /\ Y = "energy" => chan[y][x] = <<EnergyOf(y)>>
      /\ X = "config" => /\ flag[x]
                         /\ \E c \in Config : /\ Bonds[c] = Ej[x]
                                              /\ Waiting([kind |-> "config", atom |-> c])

Pair(a) ==
  LET n == Meeting(a, a % 2)
      m == Meeting(a + 1, a % 2)
  IN  \/ n = m /\ Together(a)
      \/ n = m + 2 /\ AheadOf(a, a + 1, a % 2)
      \/ m = n + 2 /\ AheadOf(a + 1, a, a % 2)

Pairs == \A a \in Lower : Pair(a)
Strangers == \A s, d \in Rank : d # s + 1 /\ s # d + 1 => chan[s][d] = <<>>
EnergyKept == \A r \in Rank : /\ currEtot[r] = Bonds[Atom[r]]
                              /\ pc[r] # "ini_W" => W[r] = Bonds[Atom[r]]

(* The inductive invariant. *)
IInv == Typed /\ Scheduled /\ Pairs /\ Strangers /\ EnergyKept

(* A rank with a partner is one of the pair of its round, and of no other. *)
LEMMA MeetingPair ==
  ASSUME Typed, Scheduled, NEW r \in Rank, Proposes(r) \/ Answers(r), Peer(r) \in Rank
  PROVE  /\ Proposes(r) => /\ r \in Lower /\ Peer(r) = r + 1
                           /\ RoundOf(r) % 2 = r % 2
                           /\ \A a \in Lower : a + 1 = r => RoundOf(r) % 2 # a % 2
         /\ Answers(r) => /\ r - 1 \in Lower /\ Peer(r) = r - 1 /\ ~Proposes(r)
                          /\ RoundOf(r) % 2 = (r - 1) % 2
                          /\ r \in Lower => RoundOf(r) % 2 # r % 2
<1>1. RoundOf(r) \in Nat /\ (even[r] <=> RoundOf(r) % 2 = 0) /\ r \in Nat
  BY DEF Scheduled, OnSchedule, Rank
<1>2. NRanks \in Nat /\ NRanks > 1 /\ Last = NRanks - 1 /\ Lower = 0 .. NRanks - 2
  BY NRanksAssumption DEF Last, Lower, Rank
<1>3. ASSUME Proposes(r)
      PROVE  /\ r \in Lower /\ Peer(r) = r + 1
             /\ RoundOf(r) % 2 = r % 2
             /\ \A a \in Lower : a + 1 = r => RoundOf(r) % 2 # a % 2
  <2>1. Peer(r) = r + 1 /\ r \in Lower
    BY <1>2, <1>3 DEF Peer, Rank
  <2>2. RoundOf(r) % 2 = r % 2
    BY <1>3, RoleParity
  <2>3. QED
    BY <1>1, <1>2, <2>1, <2>2
<1>4. ASSUME Answers(r)
      PROVE  /\ r - 1 \in Lower /\ Peer(r) = r - 1 /\ ~Proposes(r)
             /\ RoundOf(r) % 2 = (r - 1) % 2
             /\ r \in Lower => RoundOf(r) % 2 # r % 2
  <2>1. RoundOf(r) % 2 # r % 2 /\ r # 0 /\ ~Proposes(r)
    BY <1>4, RoleParity
  <2>2. QED
    BY <1>1, <1>2, <2>1 DEF Peer, Rank
<1>5. QED
  BY <1>3, <1>4

(* A rank that sits out, or whose partner does not exist, meets nobody in  *)
(* this round.                                                             *)
LEMMA NoMeeting ==
  ASSUME Typed, Scheduled, NEW r \in Rank, pc[r] = "swap",
         (~Proposes(r) /\ ~Answers(r)) \/ Peer(r) \notin Rank, NEW a \in Lower,
         r = a \/ r = a + 1
  PROVE  RoundOf(r) % 2 # a % 2
<1>1. RoundOf(r) \in Nat /\ (even[r] <=> RoundOf(r) % 2 = 0) /\ r \in Nat
  BY DEF Scheduled, OnSchedule, Rank
<1>2. NRanks \in Nat /\ NRanks > 1 /\ Last = NRanks - 1 /\ a \in 0 .. NRanks - 2
  BY NRanksAssumption DEF Last, Lower, Rank
<1>3. NRanks % 2 # 0 /\ r = Last => RoundOf(r) = 0
  BY DEF Scheduled, LastAlone
<1>4. CASE Peer(r) \notin Rank
  <2>1. (r = 0 /\ ~Proposes(r)) \/ (r = Last /\ Proposes(r))
    BY <1>2, <1>4 DEF Peer, Rank
  <2>2. QED
    BY <1>1, <1>2, <1>3, <2>1 DEF Proposes
<1>5. CASE ~Proposes(r) /\ ~Answers(r)
  <2>1. ~even[r] /\ (r = 0 \/ r = Last)
    BY <1>1, <1>2, <1>5 DEF Proposes, Answers, Last
  <2>2. QED
    BY <1>1, <1>2, <1>3, <2>1
<1>6. QED
  BY <1>4, <1>5

(* A send and a receive touch one channel.                                 *)
LEMMA Elsewhere ==
  ASSUME chan \in [Rank -> [Rank -> Seq(Message)]],
         NEW r \in Rank, NEW s \in Rank, NEW d \in Rank
  PROVE  /\ \A m : Post(r, m) /\ ~(s = r /\ d = Peer(r)) => chan'[s][d] = chan[s][d]
         /\ ~(s = Peer(r) /\ d = r) => Received(r)[s][d] = chan[s][d]
BY DEF Post, Received

(* A step of r leaves the other ranks and their channels as they are.      *)
LEMMA Others ==
  ASSUME Typed, Scheduled, NEW r \in Rank, Sweep(r) \/ Swap(r)
  PROVE  /\ \A q \in Rank \ {r} :
              /\ Atom'[q] = Atom[q] /\ W'[q] = W[q] /\ currEtot'[q] = currEtot[q]
              /\ Ej'[q] = Ej[q] /\ flag'[q] = flag[q] /\ acc'[q] = acc[q]
              /\ pc'[q] = pc[q] /\ even'[q] = even[q] /\ sweeps'[q] = sweeps[q]
              /\ \A p : Stage(q, p)' = Stage(q, p) /\ Meeting(q, p)' = Meeting(q, p)
         /\ \A s, d \in Rank : ~(s = r /\ d = Peer(r)) /\ ~(s = Peer(r) /\ d = r) =>
              chan'[s][d] = chan[s][d]
<1>1. \A q \in Rank \ {r} :
        /\ Atom'[q] = Atom[q] /\ W'[q] = W[q] /\ currEtot'[q] = currEtot[q]
        /\ Ej'[q] = Ej[q] /\ flag'[q] = flag[q] /\ acc'[q] = acc[q]
  <2>1. CASE Sweep(r)
    BY <2>1 DEF Sweep, Move, walker, round, counters, Typed, TypeOK
  <2>2. CASE Swap(r)
    BY <2>2 DEF Swap, PostEnergy, SitOut, TakeEnergy, Decide, TakeFlag, Reject, PostConfig,
                TakeConfig, IniW, walker, round, counters, Typed, TypeOK
  <2>3. QED
    BY <2>1, <2>2
<1>2. \A q \in Rank \ {r} : \A p :
        Stage(q, p)' = Stage(q, p) /\ Meeting(q, p)' = Meeting(q, p)
  BY Clocks DEF Scheduled, Stage, Meeting, Exchanging
<1>3. \A s, d \in Rank : ~(s = r /\ d = Peer(r)) /\ ~(s = Peer(r) /\ d = r) =>
        chan'[s][d] = chan[s][d]
  <2>1. CASE Sweep(r) \/ SitOut(r) \/ Reject(r) \/ IniW(r)
    BY <2>1 DEF Sweep, SitOut, Reject, IniW
  <2>2. CASE PostEnergy(r) \/ Decide(r) \/ PostConfig(r)
    <3>1. chan' = chan \/ \E m : Post(r, m)
      BY <2>2 DEF PostEnergy, Decide, PostConfig
    <3>2. QED
      BY <3>1, Elsewhere DEF Typed, TypeOK
  <2>3. CASE TakeEnergy(r) \/ TakeFlag(r) \/ TakeConfig(r)
    <3>1. chan' = Received(r)
      BY <2>3 DEF TakeEnergy, TakeFlag, TakeConfig
    <3>2. QED
      BY <3>1, Elsewhere DEF Typed, TypeOK
  <2>4. QED
    BY <2>1, <2>2, <2>3 DEF Swap
<1>4. QED
  BY <1>1, <1>2, <1>3, Clocks DEF Scheduled

(* A pair is as it was when no step of its meeting was made.               *)
LEMMA PairFrame ==
  ASSUME NEW a \in Lower, Pair(a),
         \A x \in {a, a + 1} : 
           /\ Stage(x, a % 2)' = Stage(x, a % 2)
           /\ Meeting(x, a % 2)' = Meeting(x, a % 2)
           /\ Stage(x, a % 2) # "out" =>
                Atom'[x] = Atom[x] /\ Ej'[x] = Ej[x] /\ flag'[x] = flag[x],
         chan'[a][a + 1] = chan[a][a + 1], chan'[a + 1][a] = chan[a + 1][a]
  PROVE  Pair(a)'
<1>1. CASE Meeting(a, a % 2) = Meeting(a + 1, a % 2) /\ Together(a)
  <2> DEFINE b == a + 1
             A == Stage(a, a % 2)
             B == Stage(b, a % 2)
  <2>1. /\ A' = A /\ B' = B
        /\ A # "out" => /\ EnergyOf(a)' = EnergyOf(a) /\ FlagOf(a)' = FlagOf(a)
                        /\ ConfigOf(a)' = ConfigOf(a)
                        /\ Ej'[a] = Ej[a] /\ flag'[a] = flag[a] /\ Atom'[a] = Atom[a]
        /\ B # "out" => /\ EnergyOf(b)' = EnergyOf(b) /\ ConfigOf(b)' = ConfigOf(b)
                        /\ Ej'[b] = Ej[b] /\ flag'[b] = flag[b] /\ Atom'[b] = Atom[b]
        /\ chan'[a][b] = chan[a][b] /\ chan'[b][a] = chan[b][a]
    BY DEF EnergyOf, FlagOf, ConfigOf
  <2>2. SentDown(a)'
    BY <1>1, <2>1 DEF Together, SentDown
  <2>3. SentUp(a)'
    BY <1>1, <2>1 DEF Together, SentUp
  <2>5. Learnt(a)'
    BY <1>1, <2>1 DEF Together, Learnt, SentUp, SentDown
  <2>4. QED
    BY <1>1, <2>2, <2>3, <2>5 DEF Pair, Together
<1>2. CASE /\ Meeting(a, a % 2) = Meeting(a + 1, a % 2) + 2
           /\ AheadOf(a, a + 1, a % 2)
  <2>1. AheadOf(a, a + 1, a % 2)'
    BY <1>2 DEF AheadOf, EnergyOf
  <2>2. QED
    BY <1>2, <2>1 DEF Pair
<1>3. CASE /\ Meeting(a + 1, a % 2) = Meeting(a, a % 2) + 2
           /\ AheadOf(a + 1, a, a % 2)
  <2>1. AheadOf(a + 1, a, a % 2)'
    BY <1>3 DEF AheadOf, EnergyOf
  <2>2. QED
    BY <1>3, <2>1 DEF Pair
<1>4. QED
  BY <1>1, <1>2, <1>3 DEF Pair

(* Only a rank with a partner sends or receives.                           *)
LEMMA PostsToPeer ==
  ASSUME Typed, Scheduled, NEW r \in Rank, Sweep(r) \/ Swap(r), chan' # chan
  PROVE  (Proposes(r) \/ Answers(r)) /\ Peer(r) \in Rank
<1>1. (PostEnergy(r) /\ Peer(r) \in Rank) \/ (Swap(r) /\ pc[r] \in Exchanging)
  BY DEF Sweep, Swap, PostEnergy, SitOut, TakeEnergy, Decide, TakeFlag, Reject, PostConfig,
         TakeConfig, IniW, Exchanging
<1>2. QED
  BY <1>1 DEF PostEnergy, Scheduled, Roles, Typed, HasPartner

(* A step that is none of the pair's meeting leaves the pair as it is.     *)
LEMMA QuietPair ==
  ASSUME Typed, Scheduled, NEW a \in Lower, Pair(a), NEW r \in Rank, Sweep(r) \/ Swap(r),
         r \in {a, a + 1} /\ RoundOf(r) % 2 = a % 2 => Sweep(r) \/ IniW(r)
  PROVE  Pair(a)'
<1> DEFINE p == a % 2
<1>1. /\ a \in Nat /\ a \in Rank /\ a + 1 \in Rank /\ RoundOf(r) \in Nat /\ r \in Nat
      /\ p \in {0, 1}
  <2>1. a \in Nat /\ a \in Rank /\ a + 1 \in Rank /\ r \in Nat
    BY NRanksAssumption DEF Lower, Last, Rank
  <2>2. p \in {0, 1}
    BY <2>1
  <2>3. QED
    BY <2>1, <2>2 DEF Scheduled, OnSchedule
<1>2. r \in {a, a + 1} => /\ Stage(r, p) = "out" /\ Stage(r, p)' = "out"
                          /\ Meeting(r, p)' = Meeting(r, p)
  <2>1. RoundOf(r)' = IF pc[r] = "ini_W" THEN RoundOf(r) + 1 ELSE RoundOf(r)
    BY <1>1, Clocks DEF Scheduled
  <2>2. CASE RoundOf(r) % 2 # p
    <3>1. pc[r] = "ini_W" => pc'[r] \in {"sweep", "done"}
      BY DEF Sweep, Swap, PostEnergy, SitOut, TakeEnergy, Decide, TakeFlag, Reject,
             PostConfig, TakeConfig, IniW, LoopEnd, Typed, TypeOK
    <3>2. (RoundOf(r) + 1) % 2 = p
      BY <1>1, <2>2
    <3>3. QED
      BY <2>1, <2>2, <3>1, <3>2 DEF Stage, Meeting, Exchanging
  <2>3. CASE Sweep(r)
    <3>1. pc[r] = "sweep" /\ pc'[r] \in {"sweep", "swap", "done"}
      BY <2>3 DEF Sweep, LoopEnd, Typed, TypeOK
    <3>2. QED
      BY <2>1, <3>1 DEF Stage, Meeting, Exchanging
  <2>4. CASE IniW(r) /\ RoundOf(r) % 2 = p
    <3>1. pc[r] = "ini_W" /\ pc'[r] \in {"sweep", "done"}
      BY <2>4 DEF IniW, LoopEnd, Typed, TypeOK
    <3>2. (RoundOf(r) + 1) % 2 # p /\ RoundOf(r) + 2 = (RoundOf(r) + 1) + 1
      BY <1>1, <2>4
    <3>3. QED
      BY <2>1, <2>4, <3>1, <3>2 DEF Stage, Meeting, Exchanging
  <2>5. QED
    BY <2>2, <2>3, <2>4
<1>3. chan'[a][a + 1] = chan[a][a + 1] /\ chan'[a + 1][a] = chan[a + 1][a]
  <2>1. CASE chan' # chan /\ r \in {a, a + 1}
    <3>1. ~Sweep(r) /\ ~IniW(r) /\ RoundOf(r) % 2 # p
      BY <2>1 DEF Sweep, IniW
    <3>2. (Proposes(r) \/ Answers(r)) /\ Peer(r) \in Rank
      BY <2>1, PostsToPeer
    <3>3. Peer(r) \notin {a, a + 1}
      BY <1>1, <2>1, <3>1, <3>2, MeetingPair
    <3>4. QED
      BY <1>1, <3>3, Others
  <2>2. QED
    BY <1>1, <2>1, Others
<1>4. \A x \in {a, a + 1} :
        /\ Stage(x, p)' = Stage(x, p) /\ Meeting(x, p)' = Meeting(x, p)
        /\ Stage(x, p) # "out" => Atom'[x] = Atom[x] /\ Ej'[x] = Ej[x] /\ flag'[x] = flag[x]
  BY <1>1, <1>2, Others
<1>5. QED
  BY <1>3, <1>4, PairFrame

(* A step of the pair's meeting.                                           *)
LEMMA MeetingStep ==
  ASSUME Typed, Scheduled, NEW a \in Lower, NEW r \in {a, a + 1}, Swap(r), ~IniW(r),
         RoundOf(r) % 2 = a % 2
  PROVE  /\ a \in Rank /\ a + 1 \in Rank /\ r \in Rank
         /\ r = a => Proposes(r) /\ Peer(r) = a + 1
         /\ r = a + 1 => Answers(r) /\ ~Proposes(r) /\ Peer(r) = a
         /\ pc[r] \in Exchanging \cup {"swap"} /\ ~SitOut(r)
         /\ pc'[r] \in Exchanging \cup {"ini_W"}
         /\ Stage(r, a % 2) = IF pc[r] = "swap" THEN "out" ELSE pc[r]
         /\ Stage(r, a % 2)' = IF pc'[r] = "ini_W" THEN "out" ELSE pc'[r]
         /\ Meeting(r, a % 2) \in Nat
         /\ Meeting(r, a % 2)' = IF pc'[r] = "ini_W" THEN Meeting(r, a % 2) + 2
                                 ELSE Meeting(r, a % 2)
<1>1. a \in Rank /\ a + 1 \in Rank /\ r \in Rank
  BY NRanksAssumption DEF Lower, Last, Rank
<1>2. pc[r] \in Exchanging \cup {"swap"}
  BY DEF Swap, PostEnergy, SitOut, TakeEnergy, Decide, TakeFlag, Reject,
         PostConfig, TakeConfig, Exchanging
<1>3. (Proposes(r) \/ Answers(r)) /\ Peer(r) \in Rank
  BY <1>1, <1>2, NoMeeting DEF Typed, HasPartner, Scheduled, Roles
<1>4. /\ r = a => Proposes(r) /\ Peer(r) = a + 1
      /\ r = a + 1 => Answers(r) /\ ~Proposes(r) /\ Peer(r) = a
  <2>1. (a + 1) - 1 = a /\ a # a + 1
    BY <1>1 DEF Rank
  <2>2. CASE Proposes(r)
    <3>1. r # a + 1 /\ Peer(r) = r + 1
      BY <1>1, <1>3, <2>2, MeetingPair
    <3>2. QED
      BY <2>2, <3>1
  <2>3. CASE Answers(r)
    <3>1. r # a /\ Peer(r) = r - 1 /\ ~Proposes(r)
      BY <1>1, <1>3, <2>3, MeetingPair
    <3>2. QED
      BY <2>1, <2>3, <3>1
  <2>4. QED
    BY <1>3, <2>2, <2>3
<1>5. ~SitOut(r) /\ pc'[r] \in Exchanging \cup {"ini_W"} /\ pc[r] # "ini_W"
  BY <1>1, <1>2, <1>3 DEF Swap, PostEnergy, SitOut, TakeEnergy, Decide, TakeFlag, Reject,
         PostConfig, TakeConfig, Exchanging, Typed, TypeOK
<1>6. RoundOf(r) \in Nat /\ RoundOf(r)' = RoundOf(r)
  BY <1>1, <1>5, Clocks DEF Scheduled, OnSchedule
<1>7. QED
  BY <1>1, <1>2, <1>4, <1>5, <1>6 DEF Stage, Meeting, Exchanging

(* Sequences of up to three elements, written out.                         *)
LEMMA ShortSequences ==
  ASSUME NEW S
  PROVE  /\ \A x \in S : Append(<<>>, x) = <<x>> /\ <<x>> \in Seq(S)
         /\ \A x, y \in S : Append(<<x>>, y) = <<x, y>> /\ <<x, y>> \in Seq(S)
         /\ \A x, y, z \in S : Append(<<x, y>>, z) = <<x, y, z>>
         /\ \A x, y, z \in S : /\ Head(<<x>>) = x /\ Tail(<<x>>) = <<>>
                               /\ Head(<<x, y>>) = x /\ Tail(<<x, y>>) = <<y>>
                               /\ Head(<<x, y, z>>) = x /\ Tail(<<x, y, z>>) = <<y, z>>
                               /\ <<x>> # <<>> /\ <<x, y>> # <<>> /\ <<x, y, z>> # <<>>
<1>1. \A x \in S : Append(<<>>, x) = <<x>> /\ <<x>> \in Seq(S)
  BY AppendProperties, SeqEqual
<1>2. ASSUME NEW x \in S, NEW y \in S
      PROVE  Append(<<x>>, y) = <<x, y>> /\ <<x, y>> \in Seq(S)
  <2>1. <<x>> \in Seq(S) /\ <<x, y>> \in Seq(S) /\ Len(<<x>>) = 1 /\ Len(<<x, y>>) = 2
    OBVIOUS
  <2>2. /\ Append(<<x>>, y) \in Seq(S) /\ Len(Append(<<x>>, y)) = 2
        /\ \A i \in 1 .. 1 : Append(<<x>>, y)[i] = <<x>>[i]
        /\ Append(<<x>>, y)[2] = y
    BY <2>1, AppendProperties
  <2>3. \A i \in 1 .. 2 : Append(<<x>>, y)[i] = <<x, y>>[i]
    BY <2>2
  <2>4. QED
    BY <2>1, <2>2, <2>3, SeqEqual
<1>3. ASSUME NEW x \in S, NEW y \in S, NEW z \in S
      PROVE  Append(<<x, y>>, z) = <<x, y, z>>
  <2>1. /\ <<x, y>> \in Seq(S) /\ <<x, y, z>> \in Seq(S)
        /\ Len(<<x, y>>) = 2 /\ Len(<<x, y, z>>) = 3
    OBVIOUS
  <2>2. /\ Append(<<x, y>>, z) \in Seq(S) /\ Len(Append(<<x, y>>, z)) = 3
        /\ \A i \in 1 .. 2 : Append(<<x, y>>, z)[i] = <<x, y>>[i]
        /\ Append(<<x, y>>, z)[3] = z
    BY <2>1, AppendProperties
  <2>3. \A i \in 1 .. 3 : Append(<<x, y>>, z)[i] = <<x, y, z>>[i]
    BY <2>2
  <2>4. QED
    BY <2>1, <2>2, <2>3, SeqEqual
<1>4. \A x, y, z \in S : /\ Head(<<x>>) = x /\ Tail(<<x>>) = <<>>
                         /\ Head(<<x, y>>) = x /\ Tail(<<x, y>>) = <<y>>
                         /\ Head(<<x, y, z>>) = x /\ Tail(<<x, y, z>>) = <<y, z>>
                         /\ <<x>> # <<>> /\ <<x, y>> # <<>> /\ <<x, y, z>> # <<>>
  OBVIOUS
<1>5. QED
  BY <1>1, <1>2, <1>3, <1>4

(* What a receive leaves of them.                                          *)
LEMMA Tails ==
  ASSUME NEW x, NEW y, NEW z
  PROVE  Tail(<<x>>) = <<>> /\ Tail(<<x, y>>) = <<y>> /\ Tail(<<x, y, z>>) = <<y, z>>
OBVIOUS

(* What the pair invariant speaks of are messages.                         *)
LEMMA MessageTypes ==
  ASSUME Typed, NEW r \in Rank
  PROVE  /\ EnergyOf(r) \in Message /\ FlagOf(r) \in Message /\ ConfigOf(r) \in Message
         /\ \A e \in Int : [kind |-> "energy", energy |-> e] \in Message
         /\ \A b \in BOOLEAN : [kind |-> "flag", flag |-> b] \in Message
         /\ \A c \in Config : [kind |-> "config", atom |-> c] \in Message
<1>1. Bonds[Atom[r]] \in Int /\ flag[r] \in BOOLEAN /\ Atom[r] \in Config
  BY EnergyAssumption DEF Typed, TypeOK
<1>2. QED
  BY <1>1 DEF EnergyOf, FlagOf, ConfigOf, Message

(* A send adds to the channel to the peer, not to the one from it.         *)
LEMMA PostedTo ==
  ASSUME Typed, NEW r \in Rank, Peer(r) \in Rank, NEW m, Post(r, m), Peer(r) # r
  PROVE  /\ chan'[r][Peer(r)] = Append(chan[r][Peer(r)], m)
         /\ chan'[Peer(r)][r] = chan[Peer(r)][r]
BY Elsewhere DEF Post, Typed, TypeOK

(* A receive takes from the channel from the peer, not from the one to it. *)
LEMMA Taken ==
  ASSUME Typed, NEW r \in Rank, Peer(r) \in Rank, Peer(r) # r
  PROVE  /\ Received(r)[Peer(r)][r] = Tail(chan[Peer(r)][r])
         /\ Received(r)[r][Peer(r)] = chan[r][Peer(r)]
BY Elsewhere DEF Received, Typed, TypeOK

(* The rank ahead may send its energy for the pair's next meeting.         *)
LEMMA AheadPosts ==
  ASSUME Typed, NEW x \in Rank, NEW y \in Rank, NEW p, AheadOf(y, x, p),
         Stage(y, p) = "out", Stage(y, p)' = "energy", Stage(x, p)' = Stage(x, p),
         chan'[y][x] = Append(chan[y][x], EnergyOf(y)), chan'[x][y] = chan[x][y],
         UNCHANGED <<Atom, Ej, flag>>
  PROVE  AheadOf(y, x, p)'
<1> DEFINE X == Stage(x, p)
           No == [kind |-> "flag", flag |-> FALSE]
<1>1. /\ X \in {"energy", "flag", "decided", "config"} /\ X' = X
      /\ chan'[x][y] = <<>> /\ EnergyOf(y)' = EnergyOf(y)
      /\ EnergyOf(y) \in Message /\ No \in Message
      /\ \A e \in Int : [kind |-> "energy", energy |-> e] \in Message
      /\ \A c \in Config : [kind |-> "config", atom |-> c] \in Message
  BY MessageTypes DEF AheadOf, EnergyOf
<1>2. CASE X = "energy"
  <2>1. PICK e \in Int : y < x /\ chan[y][x] = <<[kind |-> "energy", energy |-> e], No>>
    BY <1>2 DEF AheadOf
  <2> DEFINE E == [kind |-> "energy", energy |-> e]
  <2>4. E \in Message /\ chan[y][x] = <<E, No>>
    BY <1>1, <2>1
  <2> HIDE DEF E, No
  <2>2. chan'[y][x] = <<E, No, EnergyOf(y)>>
    BY <1>1, <2>4, ShortSequences
  <2> USE DEF E, No
  <2>3. QED
    BY <1>1, <1>2, <2>1, <2>2 DEF AheadOf
<1>3. CASE X = "flag"
  <2>3. chan[y][x] = <<No>>
    BY <1>3 DEF AheadOf
  <2> HIDE DEF No
  <2>1. chan'[y][x] = <<No, EnergyOf(y)>>
    BY <1>1, <2>3, ShortSequences
  <2> USE DEF No
  <2>2. QED
    BY <1>1, <1>3, <2>1 DEF AheadOf
<1>4. CASE X = "decided"
  <2>3. chan[y][x] = <<>> /\ ~flag[x]
    BY <1>4 DEF AheadOf
  <2>1. chan'[y][x] = <<EnergyOf(y)>>
    BY <1>1, <2>3, ShortSequences
  <2>2. QED
    BY <1>1, <1>4, <2>1 DEF AheadOf
<1>5. CASE X = "config"
  <2>1. PICK c \in Config : /\ Bonds[c] = Ej[x] /\ flag[x]
                            /\ chan[y][x] = <<[kind |-> "config", atom |-> c]>>
    BY <1>5 DEF AheadOf
  <2>2. chan'[y][x] = <<[kind |-> "config", atom |-> c], EnergyOf(y)>>
    BY <1>1, <2>1, ShortSequences
  <2>3. QED
    BY <1>1, <1>5, <2>1, <2>2 DEF AheadOf
<1>6. QED
  BY <1>1, <1>2, <1>3, <1>4, <1>5

(* Sending the energy begins the meeting for one of the pair.              *)
LEMMA PostEnergyPair ==
  ASSUME IInv, NEW a \in Lower, NEW r \in {a, a + 1}, PostEnergy(r), RoundOf(r) % 2 = a % 2
  PROVE  Pair(a)'
<1> DEFINE b == a + 1
           A == Stage(a, a % 2)
           B == Stage(b, a % 2)
           n == Meeting(a, a % 2)
           m == Meeting(b, a % 2)
<1>1. Typed /\ Scheduled /\ Pair(a) /\ a \in Rank /\ b \in Rank /\ a # b
  <2>1. a \in Rank /\ b \in Rank /\ a # b
    BY NRanksAssumption DEF Lower, Last, Rank
  <2>2. QED
    BY <2>1 DEF IInv, Pairs
<1>2. Swap(r) /\ ~IniW(r) /\ (Sweep(r) \/ Swap(r))
  BY DEF Swap, PostEnergy, IniW
<1>3. /\ r = a => Proposes(r) /\ Peer(r) = b
      /\ r = b => Answers(r) /\ ~Proposes(r) /\ Peer(r) = a
  BY <1>1, <1>2, MeetingStep
<1>4. /\ Post(r, EnergyOf(r)) /\ pc[r] = "swap" /\ pc'[r] = "energy"
      /\ UNCHANGED <<Atom, Ej, flag>>
  BY <1>1, <1>3 DEF PostEnergy, walker, round, Typed, TypeOK, IInv, EnergyKept, EnergyOf
<1>5. /\ \A x \in {a, b} : /\ EnergyOf(x)' = EnergyOf(x) /\ FlagOf(x)' = FlagOf(x)
                           /\ ConfigOf(x)' = ConfigOf(x)
      /\ UNCHANGED <<Ej, flag, Atom>>
  BY <1>4 DEF EnergyOf, FlagOf, ConfigOf
<1>6. /\ EnergyOf(a) \in Message /\ EnergyOf(b) \in Message
      /\ \A e \in Int : [kind |-> "energy", energy |-> e] \in Message
      /\ \A f \in BOOLEAN : [kind |-> "flag", flag |-> f] \in Message
      /\ \A c \in Config : [kind |-> "config", atom |-> c] \in Message
  BY <1>1, MessageTypes
<1> HIDE DEF b
<1>7. CASE r = a
  <2>1. /\ A = "out" /\ A' = "energy" /\ B' = B /\ n' = n /\ m' = m
        /\ chan'[a][b] = Append(chan[a][b], EnergyOf(a)) /\ chan'[b][a] = chan[b][a]
    <3>1. A = "out" /\ A' = "energy" /\ n' = n
      BY <1>1, <1>2, <1>4, <1>7, MeetingStep DEF Exchanging, b
    <3>2. B' = B /\ m' = m
      BY <1>1, <1>2, <1>7, Others DEF b
    <3>3. QED
      BY <1>1, <1>3, <1>4, <1>7, <3>1, <3>2, PostedTo DEF b
  <2>2. CASE n = m /\ Together(a)
    <3>1. B \in {"out", "energy"} /\ chan[a][b] = <<>>
      BY <2>1, <2>2 DEF Together, SentDown, Learnt, b
    <3>2. chan'[a][b] = <<EnergyOf(a)>>
      BY <1>6, <2>1, <3>1, ShortSequences
    <3>3. Together(a)'
      BY <1>5, <2>1, <2>2, <3>1, <3>2 DEF Together, SentDown, SentUp, Learnt, b
    <3>4. QED
      BY <2>1, <2>2, <3>3 DEF Pair, b
  <2>3. CASE n = m + 2 /\ AheadOf(a, b, a % 2)
    <3>1. AheadOf(a, b, a % 2)'
      BY <1>1, <1>4, <2>1, <2>3, AheadPosts
    <3>2. QED
      BY <2>1, <2>3, <3>1 DEF Pair, b
  <2>4. CASE m = n + 2 /\ AheadOf(b, a, a % 2)
    BY <2>1, <2>4 DEF AheadOf
  <2>5. QED
    BY <1>1, <2>2, <2>3, <2>4 DEF Pair, b
<1>8. CASE r = b
  <2>1. /\ B = "out" /\ B' = "energy" /\ A' = A /\ n' = n /\ m' = m
        /\ chan'[b][a] = Append(chan[b][a], EnergyOf(b)) /\ chan'[a][b] = chan[a][b]
    <3>1. B = "out" /\ B' = "energy" /\ m' = m
      BY <1>1, <1>2, <1>4, <1>8, MeetingStep DEF Exchanging, b
    <3>2. A' = A /\ n' = n
      BY <1>1, <1>2, <1>8, Others DEF b
    <3>3. QED
      BY <1>1, <1>3, <1>4, <1>8, <3>1, <3>2, PostedTo DEF b
  <2>2. CASE n = m /\ Together(a)
    <3>1. A \in {"out", "energy"} /\ chan[b][a] = <<>>
      BY <2>1, <2>2 DEF Together, SentUp, Learnt, b
    <3>2. chan'[b][a] = <<EnergyOf(b)>>
      BY <1>6, <2>1, <3>1, ShortSequences
    <3>3. Together(a)'
      BY <1>5, <2>1, <2>2, <3>1, <3>2 DEF Together, SentDown, SentUp, Learnt, b
    <3>4. QED
      BY <2>1, <2>2, <3>3 DEF Pair, b
  <2>3. CASE n = m + 2 /\ AheadOf(a, b, a % 2)
    BY <2>1, <2>3 DEF AheadOf
  <2>4. CASE m = n + 2 /\ AheadOf(b, a, a % 2)
    <3>1. AheadOf(b, a, a % 2)'
      BY <1>1, <1>4, <2>1, <2>4, AheadPosts
    <3>2. QED
      BY <2>1, <2>4, <3>1 DEF Pair, b
  <2>5. QED
    BY <1>1, <2>2, <2>3, <2>4 DEF Pair, b
<1>9. QED
  BY <1>7, <1>8 DEF b

(* Both ranks are in the meeting, and one of them takes a step of it: the  *)
(* lower one first.                                                        *)
LEMMA LowerTakesEnergy ==
  ASSUME NEW a \in Lower, Together(a),
         Stage(a, a % 2) = "energy", Stage(a, a % 2)' = "decide",
         Stage(a + 1, a % 2)' = Stage(a + 1, a % 2),
         chan[a + 1][a] # <<>>, chan'[a + 1][a] = Tail(chan[a + 1][a]),
         chan'[a][a + 1] = chan[a][a + 1],
         Ej'[a] = Head(chan[a + 1][a]).energy, Ej'[a + 1] = Ej[a + 1],
         UNCHANGED <<Atom, flag>>
  PROVE  Together(a)'
<1> DEFINE b == a + 1
           A == Stage(a, a % 2)
           B == Stage(b, a % 2)
<1>1. /\ B \in {"energy", "flag"} /\ B' = B
      /\ chan[b][a] = <<EnergyOf(b)>> /\ chan'[b][a] = <<>>
      /\ Ej'[a] = Bonds[Atom[b]]
  <2>1. B \in {"energy", "flag"}
    BY DEF Together, SentDown, SentUp, Learnt
  <2>2. chan[b][a] = <<EnergyOf(b)>>
    BY <2>1 DEF Together, SentUp
  <2>3. QED
    BY <2>1, <2>2 DEF EnergyOf
<1>2. EnergyOf(a)' = EnergyOf(a) /\ FlagOf(a)' = FlagOf(a)
  BY DEF EnergyOf, FlagOf
<1>3. SentDown(a)'
  BY <1>1, <1>2 DEF Together, SentDown
<1>4. SentUp(a)' /\ Learnt(a)'
  BY <1>1 DEF Together, SentUp, Learnt
<1>5. QED
  BY <1>3, <1>4 DEF Together

(* The upper one learns the energy; what the lower one sent after it       *)
(* stays.                                                                  *)
LEMMA UpperTakesEnergy ==
  ASSUME NEW a \in Lower, Together(a),
         Stage(a + 1, a % 2) = "energy", Stage(a + 1, a % 2)' = "flag",
         Stage(a, a % 2)' = Stage(a, a % 2),
         chan[a][a + 1] # <<>>, chan'[a][a + 1] = Tail(chan[a][a + 1]),
         chan'[a + 1][a] = chan[a + 1][a],
         Ej'[a + 1] = Head(chan[a][a + 1]).energy, Ej'[a] = Ej[a],
         UNCHANGED <<Atom, flag>>
  PROVE  Together(a)'
<1> DEFINE b == a + 1
           A == Stage(a, a % 2)
           B == Stage(b, a % 2)
<1>1. /\ A \in {"energy", "decide", "decided", "config"} /\ A' = A
      /\ A \in {"energy", "decide"} => chan[a][b] = <<EnergyOf(a)>>
      /\ A = "decided" => chan[a][b] = <<EnergyOf(a), FlagOf(a)>>
      /\ A = "config" => chan[a][b] = <<EnergyOf(a), FlagOf(a), ConfigOf(a)>>
  BY DEF Together, SentDown, Learnt
<1>2. /\ A \in {"energy", "decide"} => chan'[a][b] = <<>>
      /\ A = "decided" => chan'[a][b] = <<FlagOf(a)>>
      /\ A = "config" => chan'[a][b] = <<FlagOf(a), ConfigOf(a)>>
      /\ Ej'[b] = Bonds[Atom[a]]
  <2>1. Head(chan[a][b]) = EnergyOf(a)
    BY <1>1
  <2>2. Ej'[b] = Bonds[Atom[a]]
    BY <2>1 DEF EnergyOf
  <2>3. /\ A \in {"energy", "decide"} => chan'[a][b] = <<>>
        /\ A = "decided" => chan'[a][b] = <<FlagOf(a)>>
    BY <1>1, Tails
  <2>6. chan'[a][b] = Tail(chan[a][b])
    OBVIOUS
  <2> HIDE DEF b, A
  <2>4. A = "config" => chan'[a][b] = <<FlagOf(a), ConfigOf(a)>>
    <3>1. Tail(<<EnergyOf(a), FlagOf(a), ConfigOf(a)>>) = <<FlagOf(a), ConfigOf(a)>>
      BY Tails
    <3>2. QED
      BY <1>1, <2>6, <3>1
  <2>5. QED
    BY <2>2, <2>3, <2>4
<1>3. /\ EnergyOf(b)' = EnergyOf(b) /\ FlagOf(a)' = FlagOf(a)
      /\ ConfigOf(a)' = ConfigOf(a)
  BY DEF EnergyOf, FlagOf, ConfigOf
<1>4. SentDown(a)'
  BY <1>1, <1>2, <1>3 DEF SentDown
<1>5. SentUp(a)'
  BY <1>1, <1>3 DEF Together, SentUp
<1>6. Learnt(a)'
  BY <1>1, <1>2 DEF Together, Learnt
<1>7. QED
  BY <1>4, <1>5, <1>6 DEF Together

(* The decision follows the energy down the channel.                       *)
LEMMA LowerDecides ==
  ASSUME Typed, NEW a \in Lower, a \in Rank, Together(a),
         Stage(a, a % 2) = "decide", Stage(a, a % 2)' = "decided",
         Stage(a + 1, a % 2)' = Stage(a + 1, a % 2),
         FlagOf(a)' \in Message, chan'[a][a + 1] = Append(chan[a][a + 1], FlagOf(a)'),
         chan'[a + 1][a] = chan[a + 1][a], UNCHANGED <<Atom, Ej>>
  PROVE  Together(a)'
<1> DEFINE b == a + 1
           A == Stage(a, a % 2)
           B == Stage(b, a % 2)
<1>1. /\ B \in {"energy", "flag"} /\ B' = B /\ chan'[b][a] = <<>>
      /\ B = "energy" => chan[a][b] = <<EnergyOf(a)>>
      /\ B = "flag" => chan[a][b] = <<>>
  BY DEF Together, SentDown, SentUp, Learnt
<1>2. EnergyOf(a)' = EnergyOf(a) /\ EnergyOf(a) \in Message
  BY MessageTypes DEF EnergyOf
<1>3. /\ B = "energy" => chan'[a][b] = <<EnergyOf(a), FlagOf(a)'>>
      /\ B = "flag" => chan'[a][b] = <<FlagOf(a)'>>
  <2> DEFINE F == FlagOf(a)'
  <2>1. F \in Message /\ chan'[a][b] = Append(chan[a][b], F)
    OBVIOUS
  <2> HIDE DEF F, b, B
  <2>2. B = "energy" => chan'[a][b] = <<EnergyOf(a), F>>
    <3>1. Append(<<EnergyOf(a)>>, F) = <<EnergyOf(a), F>>
      BY <1>2, <2>1, ShortSequences
    <3>2. QED
      BY <1>1, <2>1, <3>1
  <2>3. B = "flag" => chan'[a][b] = <<F>>
    <3>1. Append(<<>>, F) = <<F>>
      BY <2>1, ShortSequences
    <3>2. QED
      BY <1>1, <2>1, <3>1
  <2>4. QED
    BY <2>2, <2>3 DEF F, b, B
<1>4. SentDown(a)'
  BY <1>1, <1>2, <1>3 DEF SentDown
<1>5. SentUp(a)' /\ Learnt(a)'
  BY <1>1 DEF Together, SentUp, Learnt
<1>6. QED
  BY <1>4, <1>5 DEF Together

(* The upper one learns the decision.                                      *)
LEMMA UpperTakesFlag ==
  ASSUME NEW a \in Lower, Together(a),
         Stage(a + 1, a % 2) = "flag", Stage(a + 1, a % 2)' = "decided",
         Stage(a, a % 2)' = Stage(a, a % 2),
         chan[a][a + 1] # <<>>, chan'[a][a + 1] = Tail(chan[a][a + 1]),
         chan'[a + 1][a] = chan[a + 1][a],
         flag'[a + 1] = Head(chan[a][a + 1]).flag, flag'[a] = flag[a],
         UNCHANGED <<Atom, Ej>>
  PROVE  Together(a)'
<1> DEFINE b == a + 1
           A == Stage(a, a % 2)
           B == Stage(b, a % 2)
<1>1. /\ A \in {"decided", "config"} /\ A' = A
      /\ A = "decided" => chan[a][b] = <<FlagOf(a)>>
      /\ A = "config" => chan[a][b] = <<FlagOf(a), ConfigOf(a)>>
  BY DEF Together, SentDown, Learnt
<1>2. /\ A = "decided" => chan'[a][b] = <<>>
      /\ A = "config" => chan'[a][b] = <<ConfigOf(a)>>
      /\ flag'[b] = flag[a]
  <2>1. Head(chan[a][b]) = FlagOf(a)
    BY <1>1
  <2>2. flag'[b] = flag[a]
    BY <2>1 DEF FlagOf
  <2>3. /\ A = "decided" => chan'[a][b] = <<>>
        /\ A = "config" => chan'[a][b] = <<ConfigOf(a)>>
    BY <1>1, Tails
  <2>4. QED
    BY <2>2, <2>3
<1>3. ConfigOf(a)' = ConfigOf(a) /\ EnergyOf(b)' = EnergyOf(b)
  BY DEF ConfigOf, EnergyOf
<1>4. SentDown(a)'
  BY <1>1, <1>2, <1>3 DEF SentDown
<1>5. SentUp(a)' /\ Learnt(a)'
  BY <1>1, <1>2 DEF Together, SentUp, Learnt
<1>6. QED
  BY <1>4, <1>5 DEF Together

(* A refusal lets the lower one leave the meeting first.                   *)
LEMMA LowerRejects ==
  ASSUME NEW a \in Lower, Together(a), flag \in [Rank -> BOOLEAN], a \in Rank, a + 1 \in Rank,
         Bonds[Atom[a]] \in Int,
         Stage(a, a % 2) = "decided", ~flag[a], Stage(a, a % 2)' = "out",
         Stage(a + 1, a % 2)' = Stage(a + 1, a % 2), a < a + 1,
         UNCHANGED <<Atom, Ej, flag, chan>>
  PROVE  AheadOf(a, a + 1, a % 2)'
<1> DEFINE b == a + 1
           B == Stage(b, a % 2)
<1>1. FlagOf(a) = [kind |-> "flag", flag |-> FALSE]
  BY DEF FlagOf
<1>2. B \in {"energy", "flag", "decided"} /\ chan[b][a] = <<>>
  BY DEF Together, SentDown, SentUp, Learnt
<1>3. /\ B = "energy" => chan[a][b] = <<EnergyOf(a), FlagOf(a)>>
      /\ B = "flag" => chan[a][b] = <<FlagOf(a)>>
      /\ B = "decided" => chan[a][b] = <<>> /\ ~flag[b]
  BY DEF Together, SentDown, Learnt
<1>4. QED
  BY <1>1, <1>2, <1>3 DEF AheadOf, EnergyOf

(* The upper one leaves first when it heard of the refusal at once.        *)
LEMMA UpperRejects ==
  ASSUME NEW a \in Lower, Together(a), flag \in [Rank -> BOOLEAN], a \in Rank, a + 1 \in Rank,
         Stage(a + 1, a % 2) = "decided", ~flag[a + 1], Stage(a + 1, a % 2)' = "out",
         Stage(a, a % 2)' = Stage(a, a % 2),
         UNCHANGED <<Atom, Ej, flag, chan>>
  PROVE  AheadOf(a + 1, a, a % 2)'
<1>1. /\ Stage(a, a % 2) = "decided" /\ ~flag[a]
      /\ chan[a][a + 1] = <<>> /\ chan[a + 1][a] = <<>>
  BY DEF Together, SentDown, SentUp, Learnt
<1>2. QED
  BY <1>1 DEF AheadOf

(* An acceptance is followed by the lower configuration,                   *)
LEMMA LowerPostsConfig ==
  ASSUME Typed, NEW a \in Lower, a \in Rank, Together(a),
         Stage(a, a % 2) = "decided", flag[a], Stage(a, a % 2)' = "config",
         Stage(a + 1, a % 2)' = Stage(a + 1, a % 2),
         chan'[a][a + 1] = Append(chan[a][a + 1], ConfigOf(a)),
         chan'[a + 1][a] = chan[a + 1][a], UNCHANGED <<Atom, Ej, flag>>
  PROVE  Together(a)'
<1> DEFINE b == a + 1
           A == Stage(a, a % 2)
           B == Stage(b, a % 2)
<1>1. /\ B \in {"energy", "flag", "decided", "config"} /\ B' = B
      /\ B = "energy" => chan[a][b] = <<EnergyOf(a), FlagOf(a)>>
      /\ B = "flag" => chan[a][b] = <<FlagOf(a)>>
      /\ B \in {"decided", "config"} => chan[a][b] = <<>>
  BY DEF Together, SentDown, SentUp, Learnt
<1>2. /\ EnergyOf(a)' = EnergyOf(a) /\ EnergyOf(a) \in Message
      /\ FlagOf(a)' = FlagOf(a) /\ FlagOf(a) \in Message
      /\ ConfigOf(a)' = ConfigOf(a) /\ ConfigOf(a) \in Message
      /\ ConfigOf(b)' = ConfigOf(b)
  BY MessageTypes DEF EnergyOf, FlagOf, ConfigOf
<1>3. /\ B = "energy" => chan'[a][b] = <<EnergyOf(a), FlagOf(a), ConfigOf(a)>>
      /\ B = "flag" => chan'[a][b] = <<FlagOf(a), ConfigOf(a)>>
      /\ B \in {"decided", "config"} => chan'[a][b] = <<ConfigOf(a)>>
  <2>1. chan'[a][b] = Append(chan[a][b], ConfigOf(a))
    OBVIOUS
  <2>2. /\ Append(<<EnergyOf(a), FlagOf(a)>>, ConfigOf(a))
             = <<EnergyOf(a), FlagOf(a), ConfigOf(a)>>
        /\ Append(<<FlagOf(a)>>, ConfigOf(a)) = <<FlagOf(a), ConfigOf(a)>>
        /\ Append(<<>>, ConfigOf(a)) = <<ConfigOf(a)>>
    BY <1>2, ShortSequences
  <2> HIDE DEF b, B
  <2>3. QED
    BY <1>1, <2>1, <2>2
<1>4. SentDown(a)'
  BY <1>1, <1>2, <1>3 DEF SentDown
<1>5. SentUp(a)' /\ Learnt(a)'
  BY <1>1, <1>2 DEF Together, SentUp, Learnt
<1>6. QED
  BY <1>4, <1>5 DEF Together

(* and answered with the upper one.                                        *)
LEMMA UpperPostsConfig ==
  ASSUME Typed, NEW a \in Lower, a + 1 \in Rank, Together(a),
         Stage(a + 1, a % 2) = "decided", flag[a + 1], Stage(a + 1, a % 2)' = "config",
         Stage(a, a % 2)' = Stage(a, a % 2),
         chan'[a + 1][a] = Append(chan[a + 1][a], ConfigOf(a + 1)),
         chan'[a][a + 1] = chan[a][a + 1], UNCHANGED <<Atom, Ej, flag>>
  PROVE  Together(a)'
<1> DEFINE b == a + 1
           A == Stage(a, a % 2)
           B == Stage(b, a % 2)
<1>1. /\ A \in {"decided", "config"} /\ A' = A
      /\ chan[b][a] = <<>> 
      /\ A = "decided" => chan[a][b] = <<>>
      /\ A = "config" => chan[a][b] = <<ConfigOf(a)>>
  BY DEF Together, SentDown, SentUp, Learnt
<1>2. /\ ConfigOf(b)' = ConfigOf(b) /\ ConfigOf(b) \in Message
      /\ ConfigOf(a)' = ConfigOf(a)
  BY MessageTypes DEF ConfigOf
<1>3. chan'[b][a] = <<ConfigOf(b)>>
  BY <1>1, <1>2, ShortSequences
<1>4. SentDown(a)'
  BY <1>1, <1>2 DEF SentDown
<1>5. SentUp(a)' /\ Learnt(a)'
  BY <1>1, <1>2, <1>3 DEF Together, SentUp, Learnt
<1>6. QED
  BY <1>4, <1>5 DEF Together

(* The lower one takes the upper configuration, whose energy it has heard, *)
(* and leaves its own in the channel.                                      *)
LEMMA LowerTakesConfig ==
  ASSUME Typed, NEW a \in Lower, a \in Rank, a + 1 \in Rank, Together(a),
         Stage(a, a % 2) = "config", Stage(a, a % 2)' = "out",
         Stage(a + 1, a % 2)' = Stage(a + 1, a % 2),
         chan[a + 1][a] # <<>>, chan'[a + 1][a] = Tail(chan[a + 1][a]),
         chan'[a][a + 1] = chan[a][a + 1], UNCHANGED <<Ej, flag>>
  PROVE  /\ AheadOf(a, a + 1, a % 2)'
         /\ Head(chan[a + 1][a]) = ConfigOf(a + 1) /\ Bonds[Atom[a + 1]] = Ej[a]
<1> DEFINE b == a + 1
           B == Stage(b, a % 2)
<1>1. /\ B = "config" /\ flag[b] /\ Ej[b] = Bonds[Atom[a]] /\ Ej[a] = Bonds[Atom[b]]
      /\ chan[b][a] = <<ConfigOf(b)>> /\ chan[a][b] = <<ConfigOf(a)>>
  <2>1. B = "config" /\ chan[b][a] = <<ConfigOf(b)>>
    BY DEF Together, SentUp, Learnt
  <2>2. QED
    BY <2>1 DEF Together, SentDown, Learnt
<1>2. chan'[b][a] = <<>> /\ Head(chan[b][a]) = ConfigOf(b)
  BY <1>1
<1>3. Atom[a] \in Config
  BY DEF Typed, TypeOK
<1>4. AheadOf(a, b, a % 2)'
  BY <1>1, <1>2, <1>3 DEF AheadOf, ConfigOf
<1>5. QED
  BY <1>1, <1>2, <1>4

(* The upper one takes the lower configuration likewise.                   *)
LEMMA UpperTakesConfig ==
  ASSUME Typed, NEW a \in Lower, a \in Rank, a + 1 \in Rank, Together(a),
         Stage(a + 1, a % 2) = "config", Stage(a + 1, a % 2)' = "out",
         Stage(a, a % 2)' = Stage(a, a % 2),
         chan[a][a + 1] # <<>>, chan'[a][a + 1] = Tail(chan[a][a + 1]),
         chan'[a + 1][a] = chan[a + 1][a], UNCHANGED <<Ej, flag>>
  PROVE  /\ AheadOf(a + 1, a, a % 2)'
         /\ Head(chan[a][a + 1]) = ConfigOf(a) /\ Bonds[Atom[a]] = Ej[a + 1]
<1> DEFINE b == a + 1
           A == Stage(a, a % 2)
<1>1. /\ A = "config" /\ flag[a] /\ Ej[b] = Bonds[Atom[a]] /\ Ej[a] = Bonds[Atom[b]]
      /\ chan[b][a] = <<ConfigOf(b)>> /\ chan[a][b] = <<ConfigOf(a)>>
  <2>1. A = "config" /\ chan[a][b] = <<ConfigOf(a)>>
    BY DEF Together, SentDown, Learnt
  <2>2. QED
    BY <2>1 DEF Together, SentUp, Learnt
<1>2. chan'[a][b] = <<>> /\ Head(chan[a][b]) = ConfigOf(a)
  BY <1>1
<1>3. Atom[b] \in Config
  BY DEF Typed, TypeOK
<1>4. AheadOf(b, a, a % 2)'
  BY <1>1, <1>2, <1>3 DEF AheadOf, ConfigOf
<1>5. QED
  BY <1>1, <1>2, <1>4

(* The rank behind goes on with what the other one left for it.            *)
LEMMA BehindTakesEnergy ==
  ASSUME NEW x \in Rank, NEW y \in Rank, NEW p, AheadOf(y, x, p),
         Stage(x, p) = "energy", Stage(x, p)' = "flag", Stage(y, p)' = Stage(y, p),
         chan'[y][x] = Tail(chan[y][x]), chan'[x][y] = chan[x][y],
         UNCHANGED <<Atom, flag>>
  PROVE  AheadOf(y, x, p)'
<1> DEFINE Y == Stage(y, p)
           No == [kind |-> "flag", flag |-> FALSE]
<1>1. Y \in {"out", "energy"} /\ chan'[x][y] = <<>> /\ EnergyOf(y)' = EnergyOf(y)
  BY DEF AheadOf, EnergyOf
<1>2. PICK e \in Int :
        /\ Y = "out" => chan[y][x] = <<[kind |-> "energy", energy |-> e], No>>
        /\ Y = "energy" => chan[y][x] = <<[kind |-> "energy", energy |-> e], No, EnergyOf(y)>>
  BY DEF AheadOf
<1>3. /\ Y = "out" => chan'[y][x] = <<No>>
      /\ Y = "energy" => chan'[y][x] = <<No, EnergyOf(y)>>
  <2> DEFINE E == [kind |-> "energy", energy |-> e]
  <2>1. /\ Y = "out" => chan[y][x] = <<E, No>>
        /\ Y = "energy" => chan[y][x] = <<E, No, EnergyOf(y)>>
    BY <1>2
  <2> HIDE DEF E, No, Y
  <2>2. Tail(<<E, No>>) = <<No>> /\ Tail(<<E, No, EnergyOf(y)>>) = <<No, EnergyOf(y)>>
    BY Tails
  <2>3. QED
    BY <2>1, <2>2
<1>4. QED
  BY <1>1, <1>3 DEF AheadOf

(* The refusal is what the rank ahead left.                                *)
LEMMA BehindTakesFlag ==
  ASSUME NEW x \in Rank, NEW y \in Rank, NEW p, AheadOf(y, x, p),
         Stage(x, p) = "flag", Stage(x, p)' = "decided", Stage(y, p)' = Stage(y, p),
         chan'[y][x] = Tail(chan[y][x]), chan'[x][y] = chan[x][y],
         flag'[x] = Head(chan[y][x]).flag, UNCHANGED <<Atom, Ej>>
  PROVE  AheadOf(y, x, p)'
<1> DEFINE Y == Stage(y, p)
           No == [kind |-> "flag", flag |-> FALSE]
<1>1. /\ Y \in {"out", "energy"} /\ chan'[x][y] = <<>> /\ EnergyOf(y)' = EnergyOf(y)
      /\ Y = "out" => chan[y][x] = <<No>>
      /\ Y = "energy" => chan[y][x] = <<No, EnergyOf(y)>>
  BY DEF AheadOf, EnergyOf
<1>2. Head(chan[y][x]) = No
  BY <1>1
<1>3. /\ Y = "out" => chan'[y][x] = <<>>
      /\ Y = "energy" => chan'[y][x] = <<EnergyOf(y)>>
      /\ ~flag'[x]
  <2>1. ~flag'[x]
    BY <1>2
  <2> HIDE DEF No, Y
  <2>2. Tail(<<No>>) = <<>> /\ Tail(<<No, EnergyOf(y)>>) = <<EnergyOf(y)>>
    BY Tails
  <2>3. QED
    BY <1>1, <2>1, <2>2
<1>4. QED
  BY <1>1, <1>3 DEF AheadOf

(* ... until it leaves the meeting too.                                    *)
LEMMA Rejoins ==
  ASSUME NEW a \in Lower, NEW x \in {a, a + 1}, NEW y \in {a, a + 1}, x # y,
         Stage(x, a % 2)' = "out", Stage(y, a % 2)' \in {"out", "energy"},
         chan'[x][y] = <<>>,
         Stage(y, a % 2)' = "out" => chan'[y][x] = <<>>,
         Stage(y, a % 2)' = "energy" => chan'[y][x] = <<EnergyOf(y)'>>
  PROVE  Together(a)'
<1>1. CASE x = a /\ y = a + 1
  BY <1>1 DEF Together, SentDown, SentUp, Learnt
<1>2. CASE x = a + 1 /\ y = a
  BY <1>2 DEF Together, SentDown, SentUp, Learnt
<1>3. QED
  BY <1>1, <1>2

(* It rejects as the other one did, and both are before their next         *)
(* meeting.                                                                *)
LEMMA BehindRejects ==
  ASSUME NEW a \in Lower, NEW x \in {a, a + 1}, NEW y \in {a, a + 1}, x # y,
         AheadOf(y, x, a % 2),
         Stage(x, a % 2) = "decided", Stage(x, a % 2)' = "out",
         Stage(y, a % 2)' = Stage(y, a % 2), UNCHANGED <<Atom, chan>>
  PROVE  Together(a)'
<1>1. /\ Stage(y, a % 2)' \in {"out", "energy"} /\ chan'[x][y] = <<>>
      /\ Stage(y, a % 2)' = "out" => chan'[y][x] = <<>>
      /\ Stage(y, a % 2)' = "energy" => chan'[y][x] = <<EnergyOf(y)'>>
  BY DEF AheadOf, EnergyOf
<1>2. QED
  BY <1>1, Rejoins

(* It takes the configuration left for it, which has the energy it heard.  *)
LEMMA BehindTakesConfig ==
  ASSUME NEW a \in Lower, NEW x \in {a, a + 1}, NEW y \in {a, a + 1}, x # y,
         AheadOf(y, x, a % 2),
         Stage(x, a % 2) = "config", Stage(x, a % 2)' = "out",
         Stage(y, a % 2)' = Stage(y, a % 2), Atom'[y] = Atom[y],
         chan'[y][x] = Tail(chan[y][x]), chan'[x][y] = chan[x][y]
  PROVE  /\ Together(a)'
         /\ \E c \in Config : /\ Bonds[c] = Ej[x]
                              /\ Head(chan[y][x]) = [kind |-> "config", atom |-> c]
<1> DEFINE Y == Stage(y, a % 2)
<1>1. /\ Y \in {"out", "energy"} /\ chan'[x][y] = <<>> /\ EnergyOf(y)' = EnergyOf(y)
      /\ \E c \in Config :
           /\ Bonds[c] = Ej[x]
           /\ Y = "out" => chan[y][x] = <<[kind |-> "config", atom |-> c]>>
           /\ Y = "energy" => chan[y][x] = <<[kind |-> "config", atom |-> c], EnergyOf(y)>>
  BY DEF AheadOf, EnergyOf
<1>2. PICK c \in Config :
           /\ Bonds[c] = Ej[x]
           /\ Y = "out" => chan[y][x] = <<[kind |-> "config", atom |-> c]>>
           /\ Y = "energy" => chan[y][x] = <<[kind |-> "config", atom |-> c], EnergyOf(y)>>
  BY <1>1
<1> DEFINE C == [kind |-> "config", atom |-> c]
<1>3. Head(chan[y][x]) = C
  BY <1>1, <1>2
<1>4. /\ Y = "out" => chan'[y][x] = <<>>
      /\ Y = "energy" => chan'[y][x] = <<EnergyOf(y)>>
  <2>1. /\ Y = "out" => chan[y][x] = <<C>>
        /\ Y = "energy" => chan[y][x] = <<C, EnergyOf(y)>>
    BY <1>2
  <2> HIDE DEF C, Y
  <2>2. Tail(<<C>>) = <<>> /\ Tail(<<C, EnergyOf(y)>>) = <<EnergyOf(y)>>
    BY Tails
  <2>3. QED
    BY <2>1, <2>2
<1>5. Together(a)'
  BY <1>1, <1>4, Rejoins
<1>6. QED
  BY <1>2, <1>3, <1>5

(* What a step of the pair's meeting finds and leaves.                     *)
LEMMA Sides ==
  ASSUME IInv, NEW a \in Lower, NEW r \in {a, a + 1}, Swap(r), ~IniW(r),
         RoundOf(r) % 2 = a % 2,
         NEW x \in {a, a + 1}, x # r
  PROVE  /\ Typed /\ Scheduled /\ Pair(a)
         /\ a \in Rank /\ a + 1 \in Rank /\ r \in Rank /\ x \in Rank /\ a < a + 1
         /\ Peer(r) = x /\ Peer(r) # r
         /\ Stage(x, a % 2)' = Stage(x, a % 2) /\ Meeting(x, a % 2)' = Meeting(x, a % 2)
         /\ Atom'[x] = Atom[x] /\ Ej'[x] = Ej[x] /\ flag'[x] = flag[x]
         /\ Meeting(r, a % 2) \in Nat /\ Meeting(x, a % 2) \in Nat
         /\ Stage(r, a % 2) = IF pc[r] = "swap" THEN "out" ELSE pc[r]
         /\ Stage(r, a % 2)' = IF pc'[r] = "ini_W" THEN "out" ELSE pc'[r]
         /\ Meeting(r, a % 2)' = IF pc'[r] = "ini_W" THEN Meeting(r, a % 2) + 2
                                 ELSE Meeting(r, a % 2)
<1>1. a \in Rank /\ a + 1 \in Rank /\ a < a + 1 /\ r \in Rank /\ x \in Rank
  BY NRanksAssumption DEF Lower, Last, Rank
<1>2. Typed /\ Scheduled /\ Pair(a)
  BY DEF IInv, Pairs
<1>3. Peer(r) = x /\ Peer(r) # r
  BY <1>1, <1>2, MeetingStep
<1>4. Meeting(x, a % 2) \in Nat
  BY <1>1, <1>2 DEF Meeting, Scheduled, OnSchedule
<1>5. QED
  BY <1>1, <1>2, <1>3, <1>4, MeetingStep, Others

(* Learning the energy keeps the pair, together or behind.                 *)
LEMMA TakeEnergyPair ==
  ASSUME IInv, NEW a \in Lower, NEW r \in {a, a + 1}, TakeEnergy(r), RoundOf(r) % 2 = a % 2
  PROVE  Pair(a)'
<1> DEFINE p == a % 2
           n == Meeting(a, p)
           m == Meeting(a + 1, p)
<1>1. PICK x \in {a, a + 1} : x # r
  BY NRanksAssumption DEF Lower, Last, Rank
<1>2. Swap(r) /\ ~IniW(r)
  BY DEF Swap, TakeEnergy, IniW
<1>3. /\ Typed /\ Scheduled /\ Pair(a) /\ a \in Rank /\ a + 1 \in Rank /\ r \in Rank /\ x \in Rank
      /\ Peer(r) = x /\ Stage(x, p)' = Stage(x, p) /\ n \in Nat /\ m \in Nat
      /\ n' = n /\ m' = m /\ a < a + 1 /\ Ej'[x] = Ej[x]
      /\ Stage(r, p) = "energy"
      /\ r = a => Stage(r, p)' = "decide"
      /\ r = a + 1 => Stage(r, p)' = "flag"
  <2>1. pc[r] = "energy" /\ pc'[r] = IF Proposes(r) THEN "decide" ELSE "flag"
    BY <1>1, <1>2, Sides DEF TakeEnergy, Typed, TypeOK
  <2>2. (r = a => Proposes(r)) /\ (r = a + 1 => ~Proposes(r))
    BY <1>1, <1>2, Sides, MeetingStep
  <2>3. QED
    BY <1>1, <1>2, <2>1, <2>2, Sides
<1>4. /\ chan[x][r] # <<>> /\ chan'[x][r] = Tail(chan[x][r]) /\ chan'[r][x] = chan[r][x]
      /\ Ej'[r] = Head(chan[x][r]).energy
      /\ UNCHANGED <<Atom, flag>>
  BY <1>1, <1>3, Taken DEF TakeEnergy, Arrived, Incoming, walker, Typed, TypeOK
<1>5. CASE n = m /\ Together(a)
  <2>1. Together(a)'
    BY <1>1, <1>3, <1>4, <1>5, LowerTakesEnergy, UpperTakesEnergy
  <2>2. QED
    BY <1>3, <1>5, <2>1 DEF Pair
<1>6. CASE n = m + 2 /\ AheadOf(a, a + 1, p)
  <2>1. r = a + 1 /\ x = a
    BY <1>1, <1>4, <1>6 DEF AheadOf
  <2>2. AheadOf(a, a + 1, p)'
    BY <1>3, <1>4, <1>6, <2>1, BehindTakesEnergy
  <2>3. QED
    BY <1>3, <1>6, <2>2 DEF Pair
<1>7. CASE m = n + 2 /\ AheadOf(a + 1, a, p)
  <2>1. r = a
    BY <1>1, <1>4, <1>7 DEF AheadOf
  <2>2. ~(a + 1 < a)
    BY <1>3 DEF Rank
  <2>3. Stage(a, p) # "energy"
    BY <1>7, <2>2 DEF AheadOf
  <2>4. QED
    BY <1>3, <2>1, <2>3
<1>8. QED
  BY <1>3, <1>5, <1>6, <1>7 DEF Pair

(* Nobody decides while one of the pair is ahead.                          *)
LEMMA DecidePair ==
  ASSUME IInv, NEW a \in Lower, NEW r \in {a, a + 1}, Decide(r), RoundOf(r) % 2 = a % 2
  PROVE  Pair(a)'
<1> DEFINE p == a % 2
           n == Meeting(a, p)
           m == Meeting(a + 1, p)
<1>1. PICK x \in {a, a + 1} : x # r
  BY NRanksAssumption DEF Lower, Last, Rank
<1>2. Swap(r) /\ ~IniW(r)
  BY DEF Swap, Decide, IniW
<1>3. /\ Typed /\ Scheduled /\ Pair(a) /\ a \in Rank /\ a + 1 \in Rank /\ r \in Rank
      /\ Peer(r) = x /\ Peer(r) # r /\ Stage(x, p)' = Stage(x, p) /\ n \in Nat /\ m \in Nat
      /\ n' = n /\ m' = m
      /\ Stage(r, p) = "decide" /\ Stage(r, p)' = "decided"
      /\ r = a /\ x = a + 1
  <2>1. pc[r] = "decide" /\ pc'[r] = "decided"
    BY <1>1, <1>2, Sides DEF Decide, Typed, TypeOK
  <2>2. Proposes(r)
    BY <1>1, <1>2, <2>1, Sides DEF Scheduled, Roles
  <2>3. r = a /\ x = a + 1
    BY <1>1, <1>2, <2>2, Sides, MeetingStep
  <2>4. QED
    BY <1>1, <1>2, <2>1, <2>3, Sides
<1>4. /\ Post(a, FlagOf(a)') /\ FlagOf(a)' \in Message /\ UNCHANGED <<Atom, Ej>>
  <2>1. PICK f \in BOOLEAN : /\ flag' = [flag EXCEPT ![r] = f]
                             /\ Post(r, [kind |-> "flag", flag |-> f])
    BY DEF Decide
  <2>2. FlagOf(a)' = [kind |-> "flag", flag |-> f]
    BY <1>3, <2>1 DEF FlagOf, Typed, TypeOK
  <2>3. QED
    BY <1>3, <2>1, <2>2, MessageTypes DEF Decide, walker
<1>5. /\ chan'[a][a + 1] = Append(chan[a][a + 1], FlagOf(a)')
      /\ chan'[a + 1][a] = chan[a + 1][a]
  BY <1>3, <1>4, PostedTo
<1>6. n = m /\ Together(a)
  BY <1>3 DEF Pair, AheadOf
<1>7. Together(a)'
  BY <1>3, <1>4, <1>5, <1>6, LowerDecides
<1>8. QED
  BY <1>3, <1>6, <1>7 DEF Pair

(* Learning the decision keeps the pair, together or behind.               *)
LEMMA TakeFlagPair ==
  ASSUME IInv, NEW a \in Lower, NEW r \in {a, a + 1}, TakeFlag(r), RoundOf(r) % 2 = a % 2
  PROVE  Pair(a)'
<1> DEFINE p == a % 2
           n == Meeting(a, p)
           m == Meeting(a + 1, p)
<1>1. PICK x \in {a, a + 1} : x # r
  BY NRanksAssumption DEF Lower, Last, Rank
<1>2. Swap(r) /\ ~IniW(r)
  BY DEF Swap, TakeFlag, IniW
<1>3. /\ Typed /\ Scheduled /\ Pair(a) /\ a \in Rank /\ a + 1 \in Rank /\ r \in Rank /\ x \in Rank
      /\ Peer(r) = x /\ Peer(r) # r /\ Stage(x, p)' = Stage(x, p) /\ n \in Nat /\ m \in Nat
      /\ n' = n /\ m' = m /\ flag'[x] = flag[x] /\ a < a + 1
      /\ Stage(r, p) = "flag" /\ Stage(r, p)' = "decided"
      /\ r = a + 1 /\ x = a
  <2>1. pc[r] = "flag" /\ pc'[r] = "decided"
    BY <1>1, <1>2, Sides DEF TakeFlag, Typed, TypeOK
  <2>2. Answers(r)
    BY <1>1, <1>2, <2>1, Sides DEF Scheduled, Roles
  <2>3. r = a + 1 /\ x = a
    BY <1>1, <1>2, <2>2, Sides, MeetingStep DEF Answers, Proposes
  <2>4. QED
    BY <1>1, <1>2, <2>1, <2>3, Sides
<1>4. /\ chan[x][r] # <<>> /\ chan'[x][r] = Tail(chan[x][r]) /\ chan'[r][x] = chan[r][x]
      /\ flag'[r] = Head(chan[x][r]).flag
      /\ UNCHANGED <<Atom, Ej>>
  BY <1>3, Taken DEF TakeFlag, Arrived, Incoming, walker, Typed, TypeOK
<1>5. CASE n = m /\ Together(a)
  <2>1. Together(a)'
    BY <1>3, <1>4, <1>5, UpperTakesFlag
  <2>2. QED
    BY <1>3, <1>5, <2>1 DEF Pair
<1>6. CASE n = m + 2 /\ AheadOf(a, a + 1, p)
  <2>1. AheadOf(a, a + 1, p)'
    BY <1>3, <1>4, <1>6, BehindTakesFlag
  <2>2. QED
    BY <1>3, <1>6, <2>1 DEF Pair
<1>7. CASE m = n + 2 /\ AheadOf(a + 1, a, p)
  BY <1>3, <1>7 DEF AheadOf
<1>8. QED
  BY <1>3, <1>5, <1>6, <1>7 DEF Pair

(* The first to reject is ahead, the second joins it.                      *)
LEMMA RejectPair ==
  ASSUME IInv, NEW a \in Lower, NEW r \in {a, a + 1}, Reject(r), RoundOf(r) % 2 = a % 2
  PROVE  Pair(a)'
<1> DEFINE p == a % 2
           n == Meeting(a, p)
           m == Meeting(a + 1, p)
<1>1. PICK x \in {a, a + 1} : x # r
  BY NRanksAssumption DEF Lower, Last, Rank
<1>2. Swap(r) /\ ~IniW(r)
  BY DEF Swap, Reject, IniW
<1>3. /\ Typed /\ Scheduled /\ Pair(a) /\ a \in Rank /\ a + 1 \in Rank /\ r \in Rank
      /\ Stage(x, p)' = Stage(x, p) /\ n \in Nat /\ m \in Nat /\ a < a + 1
      /\ Meeting(r, p)' = Meeting(r, p) + 2 /\ Meeting(x, p)' = Meeting(x, p)
      /\ Stage(r, p) = "decided" /\ Stage(r, p)' = "out" /\ ~flag[r]
      /\ Bonds[Atom[a]] \in Int /\ flag \in [Rank -> BOOLEAN]
      /\ UNCHANGED <<Atom, Ej, flag, chan>>
  <2>1. pc[r] = "decided" /\ pc'[r] = "ini_W" /\ ~flag[r] /\ UNCHANGED <<Atom, Ej, flag, chan>>
    BY <1>1, <1>2, Sides DEF Reject, Typed, TypeOK, walker, round
  <2>2. QED
    <3>1. Bonds[Atom[a]] \in Int /\ flag \in [Rank -> BOOLEAN]
      <4>1. Typed /\ a \in Rank
        BY <1>1, <1>2, Sides
      <4>2. QED
        BY <4>1, EnergyAssumption DEF Typed, TypeOK
    <3>2. QED
      BY <1>1, <1>2, <2>1, <3>1, Sides
<1>4. CASE n = m /\ Together(a)
  <2>1. r = a => AheadOf(a, a + 1, p)'
    BY <1>1, <1>3, <1>4, LowerRejects
  <2>2. r = a + 1 => AheadOf(a + 1, a, p)'
    BY <1>1, <1>3, <1>4, UpperRejects
  <2>3. QED
    BY <1>1, <1>3, <1>4, <2>1, <2>2 DEF Pair
<1>5. CASE n = m + 2 /\ AheadOf(a, a + 1, p)
  <2>1. r = a + 1 /\ x = a
    BY <1>1, <1>3, <1>5 DEF AheadOf
  <2>2. Together(a)'
    BY <1>3, <1>5, <2>1, BehindRejects
  <2>3. QED
    BY <1>3, <1>5, <2>1, <2>2 DEF Pair
<1>6. CASE m = n + 2 /\ AheadOf(a + 1, a, p)
  <2>1. r = a /\ x = a + 1
    BY <1>1, <1>3, <1>6 DEF AheadOf
  <2>2. Together(a)'
    BY <1>3, <1>6, <2>1, BehindRejects
  <2>3. QED
    BY <1>3, <1>6, <2>1, <2>2 DEF Pair
<1>7. QED
  BY <1>3, <1>4, <1>5, <1>6 DEF Pair

(* Nobody sends a configuration while one of the pair is ahead.            *)
LEMMA PostConfigPair ==
  ASSUME IInv, NEW a \in Lower, NEW r \in {a, a + 1}, PostConfig(r), RoundOf(r) % 2 = a % 2
  PROVE  Pair(a)'
<1> DEFINE p == a % 2
           n == Meeting(a, p)
           m == Meeting(a + 1, p)
<1>1. PICK x \in {a, a + 1} : x # r
  BY NRanksAssumption DEF Lower, Last, Rank
<1>2. Swap(r) /\ ~IniW(r)
  BY DEF Swap, PostConfig, IniW
<1>3. /\ Typed /\ Scheduled /\ Pair(a) /\ a \in Rank /\ a + 1 \in Rank /\ r \in Rank
      /\ Peer(r) = x /\ Peer(r) # r /\ Stage(x, p)' = Stage(x, p) /\ n \in Nat /\ m \in Nat
      /\ n' = n /\ m' = m /\ flag[r]
      /\ Stage(r, p) = "decided" /\ Stage(r, p)' = "config"
      /\ Post(r, ConfigOf(r)) /\ UNCHANGED <<Atom, Ej, flag>>
  <2>1. /\ pc[r] = "decided" /\ pc'[r] = "config" /\ flag[r]
        /\ Post(r, ConfigOf(r)) /\ UNCHANGED <<Atom, Ej, flag>>
    BY <1>1, <1>2, Sides DEF PostConfig, Typed, TypeOK, walker, round, ConfigOf
  <2>2. QED
    BY <1>1, <1>2, <2>1, Sides
<1>4. chan'[r][x] = Append(chan[r][x], ConfigOf(r)) /\ chan'[x][r] = chan[x][r]
  BY <1>3, PostedTo
<1>5. n = m /\ Together(a)
  BY <1>1, <1>3 DEF Pair, AheadOf
<1>6. Together(a)'
  <2>1. r = a => Together(a)'
    BY <1>1, <1>3, <1>4, <1>5, LowerPostsConfig
  <2>2. r = a + 1 => Together(a)'
    BY <1>1, <1>3, <1>4, <1>5, UpperPostsConfig
  <2>3. QED
    BY <2>1, <2>2
<1>7. QED
  BY <1>3, <1>5, <1>6 DEF Pair

(* The configuration taken is one with the energy heard before.            *)
LEMMA TakeConfigPair ==
  ASSUME IInv, NEW a \in Lower, NEW r \in {a, a + 1}, TakeConfig(r), RoundOf(r) % 2 = a % 2
  PROVE  Pair(a)' /\ Bonds[Incoming(r).atom] = Ej[r]
<1> DEFINE p == a % 2
           n == Meeting(a, p)
           m == Meeting(a + 1, p)
<1>1. PICK x \in {a, a + 1} : x # r
  BY NRanksAssumption DEF Lower, Last, Rank
<1>2. Swap(r) /\ ~IniW(r)
  BY DEF Swap, TakeConfig, IniW
<1>3. /\ Typed /\ Scheduled /\ Pair(a) /\ a \in Rank /\ a + 1 \in Rank /\ r \in Rank /\ x \in Rank
      /\ Peer(r) = x /\ Peer(r) # r /\ Stage(x, p)' = Stage(x, p) /\ n \in Nat /\ m \in Nat
      /\ Meeting(r, p)' = Meeting(r, p) + 2 /\ Meeting(x, p)' = Meeting(x, p)
      /\ Stage(r, p) = "config" /\ Stage(r, p)' = "out" /\ a < a + 1
      /\ Atom'[x] = Atom[x] /\ UNCHANGED <<Ej, flag>>
  <2>1. pc[r] = "config" /\ pc'[r] = "ini_W" /\ UNCHANGED <<Ej, flag>>
    BY <1>1, <1>2, Sides DEF TakeConfig, Typed, TypeOK, round
  <2>2. QED
    BY <1>1, <1>2, <2>1, Sides
<1>4. /\ chan[x][r] # <<>> /\ chan'[x][r] = Tail(chan[x][r]) /\ chan'[r][x] = chan[r][x]
      /\ Incoming(r) = Head(chan[x][r])
  BY <1>3, Taken DEF TakeConfig, Arrived, Incoming
<1>5. CASE n = m /\ Together(a)
  <2>1. r = a => /\ AheadOf(a, a + 1, p)'
                 /\ Head(chan[x][r]) = ConfigOf(x) /\ Bonds[Atom[x]] = Ej[r]
    BY <1>1, <1>3, <1>4, <1>5, LowerTakesConfig
  <2>2. r = a + 1 => /\ AheadOf(a + 1, a, p)'
                     /\ Head(chan[x][r]) = ConfigOf(x) /\ Bonds[Atom[x]] = Ej[r]
    BY <1>1, <1>3, <1>4, <1>5, UpperTakesConfig
  <2>3. Pair(a)'
    BY <1>1, <1>3, <1>5, <2>1, <2>2 DEF Pair
  <2>4. QED
    BY <1>1, <1>4, <2>1, <2>2, <2>3 DEF ConfigOf
<1>6. CASE n = m + 2 /\ AheadOf(a, a + 1, p)
  <2>1. r = a + 1 /\ x = a
    BY <1>1, <1>3, <1>6 DEF AheadOf
  <2>2. /\ Together(a)'
        /\ \E c \in Config : /\ Bonds[c] = Ej[r]
                             /\ Head(chan[x][r]) = [kind |-> "config", atom |-> c]
    BY <1>3, <1>4, <1>6, <2>1, BehindTakesConfig
  <2>3. QED
    BY <1>3, <1>4, <1>6, <2>1, <2>2 DEF Pair
<1>7. CASE m = n + 2 /\ AheadOf(a + 1, a, p)
  <2>1. r = a /\ x = a + 1
    BY <1>1, <1>3, <1>7 DEF AheadOf
  <2>2. /\ Together(a)'
        /\ \E c \in Config : /\ Bonds[c] = Ej[r]
                             /\ Head(chan[x][r]) = [kind |-> "config", atom |-> c]
    BY <1>3, <1>4, <1>7, <2>1, BehindTakesConfig
  <2>3. QED
    BY <1>3, <1>4, <1>7, <2>1, <2>2 DEF Pair
<1>8. QED
  BY <1>3, <1>5, <1>6, <1>7 DEF Pair

(* Every step keeps every pair.                                            *)
LEMMA StepPairs ==
  ASSUME IInv, NEW r \in Rank, Sweep(r) \/ Swap(r)
  PROVE  Pairs'
<1>1. SUFFICES ASSUME NEW a \in Lower PROVE Pair(a)'
  BY DEF Pairs, Lower, Last
<1>2. Typed /\ Scheduled /\ Pair(a)
  BY DEF IInv, Pairs
<1>3. CASE r \in {a, a + 1} /\ RoundOf(r) % 2 = a % 2 => Sweep(r) \/ IniW(r)
  BY <1>2, <1>3, QuietPair
<1>4. CASE /\ r \in {a, a + 1} /\ RoundOf(r) % 2 = a % 2
           /\ Swap(r) /\ ~IniW(r)
  <2>1. ~SitOut(r)
    BY <1>2, <1>4, MeetingStep
  <2>2. QED
    BY <1>4, <2>1, PostEnergyPair, TakeEnergyPair, DecidePair, TakeFlagPair, RejectPair,
       PostConfigPair, TakeConfigPair DEF Swap
<1>5. QED
  BY <1>3, <1>4

(* Ranks that are no neighbours never send to each other.                  *)
LEMMA StepStrangers ==
  ASSUME IInv, NEW r \in Rank, Sweep(r) \/ Swap(r)
  PROVE  Strangers'
<1>1. SUFFICES ASSUME NEW s \in Rank, NEW d \in Rank, d # s + 1, s # d + 1
               PROVE  chan'[s][d] = <<>>
  BY DEF Strangers
<1>2. Typed /\ Scheduled /\ chan[s][d] = <<>>
  BY <1>1 DEF IInv, Strangers
<1>3. Peer(r) = r + 1 \/ Peer(r) = r - 1
  BY DEF Peer
<1>4. ~(s = r /\ d = Peer(r)) /\ ~(s = Peer(r) /\ d = r)
  BY <1>1, <1>3 DEF Rank
<1>5. QED
  BY <1>2, <1>4, Others

(* The only place where the energy could part from the configuration is    *)
(* the exchange.                                                           *)
LEMMA ExchangedEnergy ==
  ASSUME IInv, NEW r \in Rank, TakeConfig(r)
  PROVE  Bonds[Incoming(r).atom] = Ej[r]
<1>1. Typed /\ Scheduled
  BY DEF IInv
<1>2. (Proposes(r) \/ Answers(r)) /\ Peer(r) \in Rank
  BY <1>1 DEF TakeConfig, Typed, HasPartner, Scheduled, Roles, Exchanging
<1>3. CASE Proposes(r)
  <2>1. r \in Lower /\ RoundOf(r) % 2 = r % 2
    BY <1>1, <1>2, <1>3, MeetingPair
  <2>2. QED
    BY <2>1, TakeConfigPair
<1>4. CASE Answers(r)
  <2>1. r - 1 \in Lower /\ RoundOf(r) % 2 = (r - 1) % 2
    BY <1>1, <1>2, <1>4, MeetingPair
  <2>2. r \in {r - 1, (r - 1) + 1}
    BY DEF Rank
  <2>3. QED
    BY <2>1, <2>2, TakeConfigPair
<1>5. QED
  BY <1>2, <1>3, <1>4

(* Every step keeps the energy that of the configuration.                  *)
LEMMA StepEnergyKept ==
  ASSUME IInv, NEW r \in Rank, Sweep(r) \/ Swap(r)
  PROVE  EnergyKept'
<1>1. /\ Typed /\ Scheduled
      /\ \A q \in Rank : /\ currEtot[q] = Bonds[Atom[q]]
                         /\ pc[q] # "ini_W" => W[q] = Bonds[Atom[q]]
  BY DEF IInv, EnergyKept
<1>2. SUFFICES /\ currEtot'[r] = Bonds[Atom'[r]]
               /\ pc'[r] # "ini_W" => W'[r] = Bonds[Atom'[r]]
  BY <1>1, Others DEF EnergyKept
<1>3. CASE Sweep(r)
  <2>1. pc[r] = "sweep" /\ W[r] = Bonds[Atom[r]]
    BY <1>1, <1>3 DEF Sweep
  <2>2. CASE UNCHANGED walker
    BY <1>1, <2>1, <2>2 DEF walker
  <2>3. ASSUME NEW c \in Config, Move(r, c)
        PROVE  /\ currEtot'[r] = Bonds[Atom'[r]]
               /\ W'[r] = Bonds[Atom'[r]]
    <3>1. Atom'[r] = c /\ currEtot'[r] = W'[r] /\ W'[r] = W[r] + Bonds[c] - Bonds[Atom[r]]
      BY <1>1, <2>3 DEF Move, Typed, TypeOK
    <3>2. Bonds[c] \in Int /\ Bonds[Atom[r]] \in Int
      BY <1>1, EnergyAssumption DEF Typed, TypeOK
    <3>3. QED
      BY <2>1, <3>1, <3>2
  <2>4. QED
    BY <1>3, <2>2, <2>3 DEF Sweep
<1>4. CASE TakeConfig(r)
  BY <1>1, <1>4, ExchangedEnergy DEF TakeConfig, Typed, TypeOK
<1>5. CASE IniW(r)
  BY <1>1, <1>5 DEF IniW, Typed, TypeOK
<1>6. CASE PostEnergy(r) \/ SitOut(r) \/ TakeEnergy(r) \/ Decide(r) \/ TakeFlag(r)
           \/ Reject(r) \/ PostConfig(r)
  <2>1. UNCHANGED walker /\ pc[r] # "ini_W"
    BY <1>6 DEF PostEnergy, SitOut, TakeEnergy, Decide, TakeFlag, Reject, PostConfig
  <2>2. QED
    BY <1>1, <2>1 DEF walker
<1>7. QED
  BY <1>3, <1>4, <1>5, <1>6 DEF Swap

(* The invariant holds before the first sweep                              *)
LEMMA InitIInv == Init => IInv
<1> SUFFICES ASSUME Init PROVE IInv
  OBVIOUS
<1>1. Typed /\ Scheduled
  BY InitTyped, InitScheduled
<1>2. /\ \A s, d \in Rank : chan[s][d] = <<>>
      /\ \A r \in Rank : pc[r] \in {"sweep", "done"} /\ sweeps[r] = 0
  BY DEF Init, LoopEnd
<1>3. Strangers
  BY <1>2 DEF Strangers
<1>4. EnergyKept
  BY DEF Init, EnergyKept
<1>5. ASSUME NEW a \in Lower PROVE Pair(a)
  <2>1. a \in Rank /\ a + 1 \in Rank
    BY NRanksAssumption DEF Lower, Last, Rank
  <2>2. RoundOf(a) = RoundOf(a + 1)
    BY <1>2, <2>1 DEF RoundOf, InSwap, Exchanging
  <2>3. Meeting(a, a % 2) = Meeting(a + 1, a % 2)
    BY <1>2, <2>1, <2>2 DEF Meeting
  <2>4. Stage(a, a % 2) = "out" /\ Stage(a + 1, a % 2) = "out"
    BY <1>2, <2>1 DEF Stage, Exchanging
  <2>5. Together(a)
    BY <1>2, <2>1, <2>4 DEF Together, SentDown, SentUp, Learnt
  <2>6. QED
    BY <2>3, <2>5 DEF Pair
<1>6. QED
  BY <1>1, <1>3, <1>4, <1>5 DEF IInv, Pairs

(* and after every step,                                                   *)
LEMMA StepIInv == IInv /\ [Next]_vars => IInv'
<1> SUFFICES ASSUME IInv, [Next]_vars PROVE IInv'
  OBVIOUS
<1>1. Typed' /\ Scheduled'
  BY StepTyped, StepScheduled DEF IInv
<1>2. CASE UNCHANGED vars
  <2>1. Strangers' /\ EnergyKept'
    BY <1>2 DEF vars, IInv, Strangers, EnergyKept
  <2>2. ASSUME NEW a \in Lower PROVE Pair(a)'
    <3>1. Pair(a)
      BY DEF IInv, Pairs
    <3>2. \A x, p : Stage(x, p)' = Stage(x, p) /\ Meeting(x, p)' = Meeting(x, p)
      BY <1>2 DEF vars, Stage, Meeting, RoundOf
    <3>3. QED
      BY <1>2, <3>1, <3>2, PairFrame DEF vars
  <2>3. QED
    BY <1>1, <2>1, <2>2 DEF IInv, Pairs, Lower, Last
<1>3. ASSUME NEW r \in Rank, Sweep(r) \/ Swap(r) PROVE IInv'
  BY <1>1, <1>3, StepPairs, StepStrangers, StepEnergyKept DEF IInv
<1>4. QED
  BY <1>2, <1>3 DEF Next, Done

(* so it holds throughout.                                                 *)
LEMMA Invariant == Spec => []IInv
BY InitIInv, StepIInv, PTL DEF Spec

-----------------------------------------------------------------------------
(* Who waits in an exchange waits for a neighbour, in a meeting of theirs. *)
LEMMA WaitsInPair ==
  ASSUME Typed, Scheduled, NEW r \in Rank, pc[r] \in Exchanging
  PROVE  \E a \in Lower : /\ a \in Rank /\ a + 1 \in Rank /\ a < a + 1
                          /\ Stage(r, a % 2) = pc[r]
                          /\ \/ r = a /\ Peer(r) = a + 1 /\ Proposes(r)
                             \/ r = a + 1 /\ Peer(r) = a /\ ~Proposes(r)
<1>1. (Proposes(r) \/ Answers(r)) /\ Peer(r) \in Rank
  BY DEF Typed, HasPartner, Scheduled, Roles
<1>2. \A a \in Lower : a \in Rank /\ a + 1 \in Rank /\ a < a + 1
  BY NRanksAssumption DEF Lower, Last, Rank
<1>3. CASE Proposes(r)
  <2>1. r \in Lower /\ Peer(r) = r + 1 /\ RoundOf(r) % 2 = r % 2
    BY <1>1, <1>3, MeetingPair
  <2>2. QED
    BY <1>2, <1>3, <2>1 DEF Stage
<1>4. CASE Answers(r)
  <2>1. r - 1 \in Lower /\ Peer(r) = r - 1 /\ RoundOf(r) % 2 = (r - 1) % 2 /\ ~Proposes(r)
    BY <1>1, <1>4, MeetingPair
  <2>2. r = (r - 1) + 1
    BY DEF Rank
  <2>3. QED
    BY <1>2, <2>1, <2>2 DEF Stage
<1>5. QED
  BY <1>1, <1>3, <1>4

(* Outside swap() a rank's pair counts and its energy are those of the     *)
(* configuration it holds, however many exchanges and sweeps it has made.  *)
THEOREM WalkersStayConsistent == Spec => []WalkerConsistent
<1>1. IInv => WalkerConsistent
  BY DEF IInv, EnergyKept, WalkerConsistent
<1>2. QED
  BY <1>1, Invariant, PTL

(* Who waits, together or behind, finds what it waits for.                 *)
LEMMA AwaitedInPairs == IInv => AwaitedMessageFirst
<1> SUFFICES ASSUME IInv, NEW r \in Rank, pc[r] \in {"energy", "flag", "config"},
                    chan[Peer(r)][r] # <<>>
             PROVE  Head(chan[Peer(r)][r]).kind = pc[r]
  BY DEF AwaitedMessageFirst, Awaited
<1>1. PICK a \in Lower :
        /\ a \in Rank /\ a + 1 \in Rank /\ a < a + 1
        /\ Stage(r, a % 2) = pc[r]
        /\ (r = a /\ Peer(r) = a + 1) \/ (r = a + 1 /\ Peer(r) = a)
  BY WaitsInPair DEF IInv, Exchanging
<1>2. Pair(a)
  BY DEF IInv, Pairs
<1>3. CASE Together(a) /\ r = a
  <2>1. pc[r] # "flag"
    BY <1>1, <1>3 DEF Together, Learnt
  <2>2. /\ pc[r] = "energy" => chan[a + 1][a] = <<EnergyOf(a + 1)>>
        /\ pc[r] = "config" => chan[a + 1][a] = <<ConfigOf(a + 1)>>
    BY <1>1, <1>3 DEF Together, SentUp
  <2>3. QED
    BY <1>1, <1>3, <2>1, <2>2 DEF EnergyOf, ConfigOf
<1>4. CASE Together(a) /\ r = a + 1
  <2>1. Peer(r) = a
    BY <1>1, <1>4
  <2>2. CASE pc[r] = "energy"
    <3>1. Head(chan[a][a + 1]) = EnergyOf(a)
      BY <1>1, <1>4, <2>1, <2>2 DEF Together, SentDown, Learnt
    <3>2. QED
      BY <1>4, <2>1, <2>2, <3>1 DEF EnergyOf
  <2>3. CASE pc[r] = "flag"
    <3>1. Head(chan[a][a + 1]) = FlagOf(a)
      BY <1>1, <1>4, <2>1, <2>3 DEF Together, SentDown, Learnt
    <3>2. QED
      BY <1>4, <2>1, <2>3, <3>1 DEF FlagOf
  <2>4. CASE pc[r] = "config"
    <3>1. Head(chan[a][a + 1]) = ConfigOf(a)
      BY <1>1, <1>4, <2>1, <2>4 DEF Together, SentDown, Learnt
    <3>2. QED
      BY <1>4, <2>1, <2>4, <3>1 DEF ConfigOf
  <2>5. QED
    BY <2>2, <2>3, <2>4
<1>5. ASSUME NEW x, NEW y, r = x, Peer(r) = y, AheadOf(y, x, a % 2)
      PROVE  Head(chan[Peer(r)][r]).kind = pc[r]
  <2>1. Stage(y, a % 2) \in {"out", "energy"} /\ Stage(x, a % 2) = pc[r]
    BY <1>1, <1>5 DEF AheadOf
  <2>2. CASE pc[r] = "energy"
    <3>1. PICK e \in Int :
            /\ Stage(y, a % 2) = "out" => chan[y][x] =
                 <<[kind |-> "energy", energy |-> e], [kind |-> "flag", flag |-> FALSE]>>
            /\ Stage(y, a % 2) = "energy" => chan[y][x] =
                 <<[kind |-> "energy", energy |-> e], [kind |-> "flag", flag |-> FALSE],
                   EnergyOf(y)>>
      BY <1>5, <2>1, <2>2 DEF AheadOf
    <3>2. Head(chan[y][x]) = [kind |-> "energy", energy |-> e]
      BY <2>1, <3>1
    <3>3. QED
      BY <1>5, <2>2, <3>2
  <2>3. CASE pc[r] = "flag"
    <3>1. Head(chan[y][x]) = [kind |-> "flag", flag |-> FALSE]
      BY <1>5, <2>1, <2>3 DEF AheadOf
    <3>2. QED
      BY <1>5, <2>3, <3>1
  <2>4. CASE pc[r] = "config"
    <3>1. PICK c \in Config :
            /\ Stage(y, a % 2) = "out" => chan[y][x] = <<[kind |-> "config", atom |-> c]>>
            /\ Stage(y, a % 2) = "energy" => chan[y][x] =
                 <<[kind |-> "config", atom |-> c], EnergyOf(y)>>
      BY <1>5, <2>1, <2>4 DEF AheadOf
    <3>2. Head(chan[y][x]) = [kind |-> "config", atom |-> c]
      BY <2>1, <3>1
    <3>3. QED
      BY <1>5, <2>4, <3>2
  <2>5. QED
    BY <2>2, <2>3, <2>4
<1>6. AheadOf(a, a + 1, a % 2) => r = a + 1
  BY <1>1 DEF AheadOf
<1>7. AheadOf(a + 1, a, a % 2) => r = a
  BY <1>1 DEF AheadOf
<1>8. QED
  BY <1>1, <1>2, <1>3, <1>4, <1>5, <1>6, <1>7 DEF Pair

(* One tag serves all three kinds of message; still, in any number of      *)
(* ranks and rounds, however far a neighbour runs ahead, the first message *)
(* a waiting rank finds is of the kind it waits for.                       *)
THEOREM NoMessageMistaken == Spec => []AwaitedMessageFirst
BY AwaitedInPairs, Invariant, PTL

(* The lengths of short sequences.                                         *)
LEMMA AtMostThree ==
  ASSUME NEW x, NEW y, NEW z
  PROVE  Len(<<>>) = 0 /\ Len(<<x>>) = 1 /\ Len(<<x, y>>) = 2 /\ Len(<<x, y, z>>) = 3
OBVIOUS

(* Together or not, a pair has at most three messages in a channel.        *)
LEMMA PairBounded ==
  ASSUME NEW a \in Lower, Pair(a)
  PROVE  Len(chan[a][a + 1]) <= 3 /\ Len(chan[a + 1][a]) <= 3
<1>1. CASE Together(a)
  <2> DEFINE L == Len(chan[a][a + 1])
             M == Len(chan[a + 1][a])
  <2>1. L \in {0, 1, 2, 3}
    BY <1>1, AtMostThree DEF Together, SentDown, Learnt
  <2>2. M \in {0, 1}
    BY <1>1, AtMostThree DEF Together, SentUp, Learnt
  <2> HIDE DEF L, M
  <2>3. L <= 3 /\ M <= 3
    BY <2>1, <2>2
  <2>4. QED
    BY <2>3 DEF L, M
<1>2. ASSUME NEW x, NEW y, NEW p, AheadOf(y, x, p)
      PROVE  Len(chan[x][y]) <= 3 /\ Len(chan[y][x]) <= 3
  <2> DEFINE L == Len(chan[y][x])
             M == Len(chan[x][y])
  <2>1. M = 0
    BY <1>2, AtMostThree DEF AheadOf
  <2>2. Stage(x, p) = "energy" => L \in {2, 3}
    BY <1>2, AtMostThree DEF AheadOf
  <2>3. Stage(x, p) = "flag" => L \in {1, 2}
    BY <1>2, AtMostThree DEF AheadOf
  <2>4. Stage(x, p) = "decided" => L \in {0, 1}
    BY <1>2, AtMostThree DEF AheadOf
  <2>5. Stage(x, p) = "config" => L \in {1, 2}
    BY <1>2, AtMostThree DEF AheadOf
  <2>6. Stage(x, p) \in {"energy", "flag", "decided", "config"}
    BY <1>2 DEF AheadOf
  <2> HIDE DEF L, M
  <2>7. L <= 3 /\ M <= 3
    BY <2>1, <2>2, <2>3, <2>4, <2>5, <2>6
  <2>8. QED
    BY <2>7 DEF L, M
<1>3. QED
  BY <1>1, <1>2 DEF Pair

(* Ranks that have finished are in no meeting, and are even with their     *)
(* neighbours.                                                             *)
LEMMA BoundedInPairs == IInv => ChannelsBounded
<1> SUFFICES ASSUME IInv PROVE ChannelsBounded
  OBVIOUS
<1>1. \A s, d \in Rank : \/ chan[s][d] = <<>>
                         \/ s \in Lower /\ d = s + 1
                         \/ d \in Lower /\ s = d + 1
  <2>1. \A s \in Rank : s + 1 \in Rank => s \in Lower
    BY NRanksAssumption DEF Lower, Last, Rank
  <2>2. QED
    BY <2>1 DEF IInv, Strangers
<1>2. \A s, d \in Rank : Len(chan[s][d]) <= 3
  <2>1. \A a \in Lower : Len(chan[a][a + 1]) <= 3 /\ Len(chan[a + 1][a]) <= 3
    BY PairBounded DEF IInv, Pairs
  <2>2. Len(<<>>) <= 3
    OBVIOUS
  <2>3. QED
    BY <1>1, <2>1, <2>2
<1>3. ASSUME \A r \in Rank : pc[r] = "done", NEW a \in Lower
      PROVE  chan[a][a + 1] = <<>> /\ chan[a + 1][a] = <<>>
  <2>1. a \in Rank /\ a + 1 \in Rank
    BY NRanksAssumption DEF Lower, Last, Rank
  <2>2. sweeps[a] = Total /\ sweeps[a + 1] = Total
    BY <1>3, <2>1 DEF IInv, Scheduled, OnSchedule
  <2>3. RoundOf(a) = RoundOf(a + 1) /\ RoundOf(a) \in Nat
    BY <1>3, <2>1, <2>2 DEF RoundOf, InSwap, Exchanging, IInv, Scheduled, OnSchedule
  <2>4. Meeting(a, a % 2) = Meeting(a + 1, a % 2) /\ Meeting(a, a % 2) \in Nat
    BY <1>3, <2>1, <2>3 DEF Meeting
  <2>5. Stage(a, a % 2) = "out" /\ Stage(a + 1, a % 2) = "out"
    BY <1>3, <2>1 DEF Stage, Exchanging
  <2>6. Together(a)
    BY <2>4 DEF IInv, Pairs, Pair
  <2>7. QED
    BY <2>5, <2>6 DEF Together, SentDown, SentUp
<1>4. QED
  BY <1>1, <1>2, <1>3 DEF ChannelsBounded

(* At most three messages wait in a channel, for every number of ranks and *)
(* every schedule, and none is left over when all have finished.           *)
THEOREM NothingPilesUp == Spec => []ChannelsBounded
BY BoundedInPairs, Invariant, PTL

(* Equal rounds of equal parity make equal counts.                         *)
LEMMA MeetingsCounted == IInv => AttemptsCountMeetings
<1> SUFFICES ASSUME IInv PROVE AttemptsCountMeetings
  OBVIOUS
<1>1. att[NRanks - 1] = 0
  BY DEF IInv, Scheduled, AttemptsMade, Last
<1>2. ASSUME NEW r \in Rank, NEW s \in Rank,
             {pc[r], pc[s]} \subseteq {"sweep", "done"}, sweeps[r] = sweeps[s],
             r % 2 = s % 2, NRanks - 1 \notin {r, s}
      PROVE  att[r] = att[s]
  <2>1. pc[r] \in {"sweep", "done"} /\ pc[s] \in {"sweep", "done"} /\ r # Last /\ s # Last
    BY <1>2 DEF Last
  <2>2. RoundOf(r) = RoundOf(s)
    BY <1>2, <2>1 DEF RoundOf, InSwap, Exchanging
  <2>3. AttemptsOf(r) = AttemptsOf(s)
    BY <1>2, <2>1, <2>2 DEF AttemptsOf
  <2>4. QED
    BY <2>1, <2>3 DEF IInv, Scheduled, AttemptsMade
<1>3. QED
  BY <1>1, <1>2 DEF AttemptsCountMeetings

(* The attempts a rank has counted are the meetings its schedule gave it   *)
(* as the lower of a pair: ranks of equal parity that have made the same   *)
(* sweeps have counted the same, and the last rank none.                   *)
THEOREM AttemptsAreMeetings == Spec => []AttemptsCountMeetings
BY MeetingsCounted, Invariant, PTL

(* The promise of swap()'s documentation, for an even number of ranks.     *)
LEMMA StepHasPartner ==
  NRanks % 2 = 0 /\ EveryProposalHasAPartner /\ Typed /\ [Next]_vars
    => EveryProposalHasAPartner'
<1> SUFFICES ASSUME NRanks % 2 = 0, EveryProposalHasAPartner, Typed, [Next]_vars
             PROVE  EveryProposalHasAPartner'
  OBVIOUS
<1>1. CASE UNCHANGED vars
  BY <1>1 DEF vars, EveryProposalHasAPartner
<1>2. ASSUME NEW r \in Rank, Sweep(r) \/ Swap(r) PROVE EveryProposalHasAPartner'
  <2>1. PostEnergy(r) => Peer(r) \in Rank
    <3>1. /\ Proposes(r) => r # NRanks - 1
          /\ Answers(r) /\ ~Proposes(r) => r # 0
      BY NRanksAssumption DEF Proposes, Answers, Rank
    <3>2. QED
      BY <3>1, NRanksAssumption DEF PostEnergy, Peer, Rank
  <2>2. pc'[r] # "abort" /\ \A q \in Rank \ {r} : pc'[q] = pc[q]
    BY <1>2, <2>1 DEF Sweep, Swap, PostEnergy, SitOut, TakeEnergy, Decide, TakeFlag, Reject,
         PostConfig, TakeConfig, IniW, LoopEnd, Typed, TypeOK
  <2>3. QED
    BY <2>2 DEF EveryProposalHasAPartner
<1>3. QED
  BY <1>1, <1>2 DEF Next, Done

(* On an even number of ranks no rank ever sends to one that does not      *)
(* exist; a run shows that on an odd number the last one does.             *)
THEOREM EvenRanksPairUp == NRanks % 2 = 0 => (Spec => []EveryProposalHasAPartner)
<1> SUFFICES ASSUME NRanks % 2 = 0 PROVE Spec => []EveryProposalHasAPartner
  OBVIOUS
<1>1. Init => EveryProposalHasAPartner
  BY DEF Init, LoopEnd, EveryProposalHasAPartner
<1>2. IInv /\ EveryProposalHasAPartner /\ [Next]_vars => EveryProposalHasAPartner'
  BY StepHasPartner DEF IInv
<1>3. QED
  BY <1>1, <1>2, Invariant, PTL DEF Spec

-----------------------------------------------------------------------------
(***************************************************************************)
(* The refinement.  A rank that waits for a configuration has lost its own *)
(* to its peer exactly when the peer has left the meeting: PeerTook(r) is  *)
(* being behind.  So the first of the two that takes its copy makes the    *)
(* abstract exchange, and the second one's step changes nothing abstract.  *)
(***************************************************************************)

(* Two ranks that wait for each other's configuration still hold theirs.   *)
LEMMA TogetherHoldOwn ==
  ASSUME NEW a \in Lower, Together(a)
  PROVE  /\ Stage(a, a % 2) = "config" /\ Peer(a) = a + 1 => ~PeerTook(a)
         /\ Stage(a + 1, a % 2) = "config" /\ Peer(a + 1) = a => ~PeerTook(a + 1)
<1>1. \A x, y, z : /\ <<x>>[1] = x /\ <<x, y>>[2] = y /\ <<x, y, z>>[3] = z
                   /\ 1 \in 1 .. Len(<<x>>) /\ 2 \in 1 .. Len(<<x, y>>)
                   /\ 3 \in 1 .. Len(<<x, y, z>>)
  OBVIOUS
<1>2. ASSUME Stage(a, a % 2) = "config", Peer(a) = a + 1 PROVE ~PeerTook(a)
  <2>1. \E i \in 1 .. Len(chan[a][a + 1]) : chan[a][a + 1][i] = ConfigOf(a)
    <3>1. \/ chan[a][a + 1] = <<EnergyOf(a), FlagOf(a), ConfigOf(a)>>
          \/ chan[a][a + 1] = <<FlagOf(a), ConfigOf(a)>>
          \/ chan[a][a + 1] = <<ConfigOf(a)>>
      BY <1>2 DEF Together, SentDown, Learnt
    <3> DEFINE s == chan[a][a + 1]
               C == ConfigOf(a)
    <3>2. (3 \in 1 .. Len(s) /\ s[3] = C) \/ (2 \in 1 .. Len(s) /\ s[2] = C)
            \/ (1 \in 1 .. Len(s) /\ s[1] = C)
      <4> HIDE DEF C
      <4>1. CASE s = <<EnergyOf(a), FlagOf(a), C>>
        BY <1>1, <4>1
      <4>2. CASE s = <<FlagOf(a), C>>
        BY <1>1, <4>2
      <4>3. CASE s = <<C>>
        BY <1>1, <4>3
      <4>4. QED
        BY <3>1, <4>1, <4>2, <4>3 DEF C
    <3>3. QED
      BY <3>2
  <2>2. ConfigOf(a).kind = "config"
    BY DEF ConfigOf
  <2>3. QED
    BY <1>2, <2>1, <2>2 DEF PeerTook, Posted
<1>3. ASSUME Stage(a + 1, a % 2) = "config", Peer(a + 1) = a PROVE ~PeerTook(a + 1)
  <2>1. \E i \in 1 .. Len(chan[a + 1][a]) : chan[a + 1][a][i] = ConfigOf(a + 1)
    <3>1. chan[a + 1][a] = <<ConfigOf(a + 1)>>
      BY <1>3 DEF Together, SentUp, SentDown, Learnt
    <3>2. QED
      BY <1>1, <3>1
  <2>2. ConfigOf(a + 1).kind = "config"
    BY DEF ConfigOf
  <2>3. QED
    BY <1>3, <2>1, <2>2 DEF PeerTook, Posted
<1>4. QED
  BY <1>2, <1>3

(* The one behind holds what is in flight to it.                           *)
LEMMA BehindHoldsSent ==
  ASSUME NEW x \in Rank, NEW y \in Rank, NEW p, AheadOf(y, x, p), Peer(x) = y,
         Stage(x, p) = "config", pc[x] = "config"
  PROVE  PeerTook(x) /\ chan[Peer(x)][x] # <<>>
<1>1. chan[x][y] = <<>>
  BY DEF AheadOf
<1>2. ~Posted(x, y, "config")
  BY <1>1 DEF Posted
<1>3. chan[y][x] # <<>>
  <2>1. PICK c \in Config :
          \/ chan[y][x] = <<[kind |-> "config", atom |-> c]>>
          \/ chan[y][x] = <<[kind |-> "config", atom |-> c], EnergyOf(y)>>
    BY DEF AheadOf
  <2>2. \A u, v : <<u>> # <<>> /\ <<u, v>> # <<>>
    OBVIOUS
  <2>3. QED
    BY <2>1, <2>2
<1>4. QED
  BY <1>2, <1>3 DEF PeerTook

(* Who has lost its configuration to its peer finds one in the channel.    *)
LEMMA TookMeansSent ==
  ASSUME IInv, NEW r \in Rank, PeerTook(r)
  PROVE  chan[Peer(r)][r] # <<>>
<1>1. pc[r] = "config"
  BY DEF PeerTook
<1>2. PICK a \in Lower :
        /\ a \in Rank /\ a + 1 \in Rank /\ a < a + 1 /\ Stage(r, a % 2) = pc[r]
        /\ (r = a /\ Peer(r) = a + 1) \/ (r = a + 1 /\ Peer(r) = a)
  BY <1>1, WaitsInPair DEF IInv, Exchanging
<1>3. Pair(a)
  BY DEF IInv, Pairs
<1>4. ~Together(a)
  BY <1>1, <1>2, TogetherHoldOwn
<1>5. \/ AheadOf(a, a + 1, a % 2) /\ r = a + 1
      \/ AheadOf(a + 1, a, a % 2) /\ r = a
  BY <1>1, <1>2, <1>3, <1>4 DEF Pair, AheadOf
<1>6. QED
  BY <1>1, <1>2, <1>5, BehindHoldsSent

(* Except where it takes its configuration, a rank's step leaves what the  *)
(* others hold, and so does a step that is not their peer's.               *)
LEMMA OthersHold ==
  ASSUME IInv, NEW r \in Rank, Sweep(r) \/ Swap(r), NEW q \in Rank, q # r,
         ~TakeConfig(r) \/ pc[q] # "config" \/ Peer(q) # r \/ Peer(r) # q
  PROVE  Held(q)' = Held(q) /\ Exchanged(q)' = Exchanged(q)
<1>1. /\ Typed /\ Scheduled
      /\ Atom'[q] = Atom[q] /\ acc'[q] = acc[q] /\ pc'[q] = pc[q]
      /\ Peer(q)' = Peer(q) /\ (Proposes(q)' <=> Proposes(q))
  <2>1. Typed /\ Scheduled
    BY DEF IInv
  <2>2. QED
    BY <2>1, Others DEF Peer, Proposes
<1>2. CASE pc[q] # "config"
  BY <1>1, <1>2 DEF Held, Exchanged, PeerTook
<1>3. CASE pc[q] = "config" /\ (chan'[q][Peer(q)] = chan[q][Peer(q)]
                                /\ chan'[Peer(q)][q] = chan[Peer(q)][q])
  BY <1>1, <1>3 DEF Held, Exchanged, PeerTook, Posted, Incoming
<1>4. CASE pc[q] = "config" /\ ~(chan'[q][Peer(q)] = chan[q][Peer(q)]
                                 /\ chan'[Peer(q)][q] = chan[Peer(q)][q])
  <2>1. Peer(q) \in Rank
    BY <1>1, <1>4 DEF Typed, HasPartner, Exchanging
  <2>2. Peer(q) = r /\ Peer(r) = q
    BY <1>1, <1>4, <2>1, Others
  <2>3. ~TakeConfig(r) /\ Swap(r) /\ chan' # chan
    BY <1>4, <2>2 DEF Sweep
  <2>4. /\ chan \in [Rank -> [Rank -> Seq(Message)]]
        /\ chan[q][r] \in Seq(Message) /\ chan[r][q] \in Seq(Message)
    BY <1>1 DEF Typed, TypeOK
  <2>5. Posted(q, r, "config")' <=> Posted(q, r, "config")
    <3>1. CASE chan'[q][r] = chan[q][r]
      BY <3>1 DEF Posted
    <3>2. CASE chan'[q][r] # chan[q][r]
      <4>1. TakeEnergy(r) \/ TakeFlag(r)
        BY <2>2, <2>3, <2>4, <3>2 DEF Swap, PostEnergy, SitOut, Decide, Reject, PostConfig,
                                     IniW, Post
      <4>2. /\ chan[q][r] # <<>> /\ Head(chan[q][r]).kind # "config"
            /\ chan'[q][r] = Tail(chan[q][r])
        <5>1. chan[q][r] # <<>> /\ Head(chan[q][r]).kind # "config" /\ chan' = Received(r)
          BY <2>2, <4>1 DEF TakeEnergy, TakeFlag, Arrived
        <5>2. QED
          BY <1>1, <2>1, <2>2, <5>1, Taken
      <4> DEFINE s == chan[q][r]
                 t == chan'[q][r]
      <4>3. /\ s \in Seq(Message) /\ Len(s) \in Nat /\ Len(s) > 0 /\ Len(t) = Len(s) - 1
            /\ s[1].kind # "config"
            /\ \A i \in 1 .. Len(t) : t[i] = s[i + 1]
        BY <2>4, <4>2
      <4> HIDE DEF s, t
      <4>4. (\E i \in 1 .. Len(t) : t[i].kind = "config")
              => \E i \in 1 .. Len(s) : s[i].kind = "config"
        <5>1. \A i \in 1 .. Len(t) : i + 1 \in 1 .. Len(s)
          BY <4>3
        <5>2. QED
          BY <4>3, <5>1
      <4>5. ASSUME NEW i \in 1 .. Len(s), s[i].kind = "config"
            PROVE  \E j \in 1 .. Len(t) : t[j].kind = "config"
        <5>1. i # 1
          BY <4>3, <4>5
        <5>2. i - 1 \in 1 .. Len(t) /\ (i - 1) + 1 = i
          BY <4>3, <5>1
        <5>3. t[i - 1] = s[i]
          BY <4>3, <5>2
        <5>4. QED
          BY <4>5, <5>2, <5>3
      <4>6. QED
        BY <4>4, <4>5 DEF Posted, s, t
    <3>3. QED
      BY <3>1, <3>2
  <2>6. PeerTook(q)' <=> PeerTook(q)
    BY <1>1, <2>2, <2>5 DEF PeerTook
  <2>7. PeerTook(q) => Incoming(q)' = Incoming(q)
    <3>1. SUFFICES ASSUME PeerTook(q) PROVE Head(chan'[r][q]) = Head(chan[r][q])
      BY <1>1, <2>2 DEF Incoming
    <3>2. chan[r][q] # <<>>
      BY <2>2, <3>1, TookMeansSent
    <3>3. CASE chan'[r][q] = chan[r][q]
      BY <3>3
    <3>4. CASE chan'[r][q] # chan[r][q]
      <4>1. \E m : Post(r, m)
        <5>1. PostEnergy(r) \/ Decide(r) \/ PostConfig(r)
          BY <2>2, <2>3, <2>4, <3>4 DEF Swap, SitOut, TakeEnergy, TakeFlag, Reject, IniW,
                                       Received
        <5>2. QED
          BY <2>3, <5>1 DEF PostEnergy, Decide, PostConfig
      <4>2. PICK m : chan'[r][q] = Append(chan[r][q], m)
        <5>1. PICK m : Post(r, m)
          BY <4>1
        <5>2. QED
          BY <1>1, <2>2, <5>1, PostedTo
      <4>3. QED
        BY <2>4, <3>2, <4>2
    <3>5. QED
      BY <3>3, <3>4
  <2>8. QED
    BY <1>1, <2>6, <2>7 DEF Held, Exchanged
<1>5. QED
  BY <1>2, <1>3, <1>4

(* A rank's own step, unless it takes a configuration or sweeps.           *)
LEMMA OwnHeld ==
  ASSUME IInv, NEW r \in Rank, Swap(r), ~TakeConfig(r)
  PROVE  Held(r)' = Held(r) /\ Exchanged(r)' = Exchanged(r)
<1>1. Typed /\ Scheduled
  BY DEF IInv
<1>2. /\ pc[r] # "config" /\ Atom'[r] = Atom[r] /\ acc'[r] = acc[r]
      /\ pc'[r] = "config" => PostConfig(r)
  BY <1>1 DEF Swap, PostEnergy, SitOut, TakeEnergy, Decide, TakeFlag, Reject, PostConfig,
              TakeConfig, IniW, LoopEnd, walker, counters, Typed, TypeOK
<1>3. ~PeerTook(r)
  BY <1>2 DEF PeerTook
<1>4. ~PeerTook(r)'
  <2>1. CASE pc'[r] # "config"
    BY <2>1 DEF PeerTook
  <2>2. CASE PostConfig(r)
    <3>1. Post(r, ConfigOf(r)) /\ Peer(r)' = Peer(r) /\ pc[r] = "decided"
      BY <2>2 DEF PostConfig, ConfigOf, loop, Peer, Proposes
    <3>2. Peer(r) \in Rank /\ Peer(r) # r
      BY <1>1, <3>1 DEF Typed, HasPartner, Exchanging, Peer, Rank
    <3>3. chan'[r][Peer(r)] = Append(chan[r][Peer(r)], ConfigOf(r))
      BY <1>1, <3>1, <3>2, PostedTo
    <3> DEFINE s == chan[r][Peer(r)]
               t == chan'[r][Peer(r)]
    <3>4. s \in Seq(Message) /\ ConfigOf(r) \in Message
      BY <1>1, <3>2, MessageTypes DEF Typed, TypeOK
    <3>5. Len(t) \in 1 .. Len(t) /\ t[Len(t)] = ConfigOf(r)
      BY <3>3, <3>4
    <3>6. ConfigOf(r).kind = "config"
      BY DEF ConfigOf
    <3>7. Posted(r, Peer(r), "config")'
      BY <3>1, <3>5, <3>6 DEF Posted
    <3>8. QED
      BY <3>1, <3>7 DEF PeerTook
  <2>3. QED
    BY <1>2, <2>1, <2>2
<1>5. QED
  BY <1>2, <1>3, <1>4 DEF Held, Exchanged

(* The first of the two to take its copy exchanges both configurations.    *)
LEMMA FirstTakes ==
  ASSUME IInv, NEW a \in Lower, Together(a), NEW r \in {a, a + 1}, NEW x \in {a, a + 1}, x # r,
         TakeConfig(r), RoundOf(r) % 2 = a % 2
  PROVE  /\ Held(r)' = Held(x) /\ Held(x)' = Held(r)
         /\ Exchanged(a)' = Exchanged(a) + 1 /\ Exchanged(a + 1)' = Exchanged(a + 1)
<1> DEFINE p == a % 2
           b == a + 1
<1>1. Swap(r) /\ ~IniW(r)
  BY DEF Swap, TakeConfig, IniW
<1>2. /\ Typed /\ Scheduled /\ a \in Rank /\ b \in Rank /\ r \in Rank /\ x \in Rank /\ a < b
      /\ Peer(r) = x /\ Peer(r) # r /\ Stage(x, p)' = Stage(x, p)
      /\ Stage(r, p) = "config" /\ Stage(r, p)' = "out"
      /\ Atom'[x] = Atom[x] /\ UNCHANGED <<Ej, flag, even>>
      /\ pc[r] = "config" /\ pc'[r] = "ini_W"
  <2>1. pc[r] = "config" /\ pc'[r] = "ini_W" /\ UNCHANGED <<Ej, flag, even>>
    BY <1>1, Sides DEF TakeConfig, Typed, TypeOK, round, loop
  <2>2. QED
    BY <1>1, <2>1, Sides
<1>3. /\ chan[x][r] # <<>> /\ chan'[x][r] = Tail(chan[x][r]) /\ chan'[r][x] = chan[r][x]
      /\ Incoming(r) = Head(chan[x][r])
      /\ Atom'[r] = Incoming(r).atom
      /\ acc'[r] = IF Proposes(r) THEN acc[r] + 1 ELSE acc[r]
      /\ acc'[x] = acc[x]
  <2>1. acc'[x] = acc[x]
    BY <1>1, <1>2, Others
  <2>2. QED
    BY <1>2, <2>1, Taken DEF TakeConfig, Arrived, Incoming, Typed, TypeOK
<1>4. /\ Stage(x, p) = "config" /\ chan[x][r] = <<ConfigOf(x)>> /\ chan[r][x] = <<ConfigOf(r)>>
  <2>1. CASE r = a
    <3>1. Stage(b, p) = "config" /\ chan[b][a] = <<ConfigOf(b)>>
      BY <1>2, <1>3, <2>1 DEF Together, SentUp, Learnt
    <3>2. chan[a][b] = <<ConfigOf(a)>>
      BY <1>2, <2>1, <3>1 DEF Together, SentDown
    <3>3. QED
      BY <2>1, <3>1, <3>2
  <2>2. CASE r = b
    <3>1. Stage(a, p) = "config" /\ chan[a][b] = <<ConfigOf(a)>>
      BY <1>2, <1>3, <2>2 DEF Together, SentDown, Learnt
    <3>2. chan[b][a] = <<ConfigOf(b)>>
      BY <1>2, <2>2, <3>1 DEF Together, SentUp
    <3>3. QED
      BY <2>2, <3>1, <3>2
  <2>3. QED
    BY <2>1, <2>2
<1>5. pc[x] = "config" /\ RoundOf(x) % 2 = p /\ pc'[x] = "config"
  <2>1. pc[x] = "config" /\ RoundOf(x) % 2 = p
    BY <1>4 DEF Stage
  <2>2. QED
    BY <1>1, <1>2, <2>1, Others
<1>6. /\ Proposes(a) /\ ~Proposes(b) /\ Peer(a) = b /\ Peer(b) = a
      /\ Proposes(a)' /\ ~Proposes(b)' /\ Peer(a)' = b /\ Peer(b)' = a
  <2>1. \A q \in {a, b} : (Proposes(q) \/ Answers(q)) /\ Peer(q) \in Rank
                          /\ RoundOf(q) % 2 = p
    BY <1>2, <1>5 DEF Scheduled, Roles, Typed, HasPartner, Exchanging
  <2>2. Proposes(a) /\ Peer(a) = b
    <3>1. ~Answers(a)
      BY <1>2, <2>1, MeetingPair
    <3>2. QED
      BY <1>2, <2>1, <3>1, MeetingPair
  <2>3. ~Proposes(b) /\ Peer(b) = a
    <3>1. ~Proposes(b)
      BY <1>2, <2>1, MeetingPair
    <3>2. Peer(b) = b - 1
      BY <3>1 DEF Peer
    <3>3. QED
      BY <1>2, <3>1, <3>2 DEF Rank
  <2>4. QED
    BY <1>2, <2>2, <2>3 DEF Proposes, Peer
<1>7. ~PeerTook(a) /\ ~PeerTook(b)
  BY <1>2, <1>4, <1>6, TogetherHoldOwn
<1>8. ~PeerTook(r)' /\ PeerTook(x)'
  <2>1. chan'[x][r] = <<>> /\ Peer(x)' = r
    BY <1>2, <1>3, <1>4, <1>6, Tails
  <2>2. ~Posted(x, r, "config")'
    BY <2>1 DEF Posted
  <2>3. QED
    BY <1>2, <1>5, <2>1, <2>2 DEF PeerTook
<1>9. Held(r) = Atom[r] /\ Held(x) = Atom[x]
  BY <1>7 DEF Held
<1>10. Held(r)' = Atom[x]
  BY <1>3, <1>4, <1>8 DEF Held, ConfigOf
<1>11. Held(x)' = Atom[r]
  <2>1. Incoming(x)' = ConfigOf(r)
    <3>1. Peer(x)' = r
      BY <1>6
    <3>2. chan'[r][x] = <<ConfigOf(r)>>
      BY <1>3, <1>4
    <3>3. QED
      BY <3>1, <3>2 DEF Incoming
  <2>2. QED
    BY <1>8, <2>1 DEF Held, ConfigOf
<1>12. Exchanged(a) = acc[a] /\ Exchanged(b) = acc[b]
  BY <1>7 DEF Exchanged
<1>13. Exchanged(a)' = acc[a] + 1 /\ Exchanged(b)' = acc[b]
  BY <1>3, <1>6, <1>8 DEF Exchanged
<1>14. QED
  BY <1>9, <1>10, <1>11, <1>12, <1>13

(* The second one's step shows in what it holds nothing new.               *)
LEMMA SecondTakes ==
  ASSUME IInv, NEW r \in Rank, TakeConfig(r), PeerTook(r)
  PROVE  Held(r)' = Held(r) /\ Exchanged(r)' = Exchanged(r)
<1>1. /\ pc'[r] = "ini_W" /\ Atom'[r] = Incoming(r).atom
      /\ acc'[r] = IF Proposes(r) THEN acc[r] + 1 ELSE acc[r]
  BY DEF TakeConfig, IInv, Typed, TypeOK
<1>2. ~PeerTook(r)'
  BY <1>1 DEF PeerTook
<1>3. QED
  BY <1>1, <1>2 DEF Held, Exchanged

(* A sweep changes what its rank holds to some configuration.              *)
LEMMA SweepHeld ==
  ASSUME IInv, NEW r \in Rank, Sweep(r)
  PROVE  Held(r)' \in Config /\ Exchanged(r)' = Exchanged(r)
<1>1. pc[r] = "sweep" /\ pc'[r] # "config" /\ Atom'[r] \in Config /\ acc'[r] = acc[r]
  <2>1. pc[r] = "sweep" /\ pc'[r] # "config" /\ acc'[r] = acc[r]
    BY DEF Sweep, LoopEnd, counters, IInv, Typed, TypeOK
  <2>2. Typed'
    BY StepTyped DEF IInv, Next
  <2>3. QED
    BY <2>1, <2>2 DEF Typed, TypeOK
<1>2. ~PeerTook(r) /\ ~PeerTook(r)'
  BY <1>1 DEF PeerTook
<1>3. QED
  BY <1>1, <1>2 DEF Held, Exchanged

(* Both specifications start with one configuration everywhere.            *)
LEMMA InitReplicas == Init => Replicas!Init
<1> SUFFICES ASSUME Init PROVE Replicas!Init
  OBVIOUS
<1>1. \A r \in Rank : ~PeerTook(r)
  BY DEF Init, LoopEnd, PeerTook
<1>2. PICK c \in Config : Atom = [r \in Rank |-> c]
  BY DEF Init
<1>3. [r \in Rank |-> Held(r)] = [r \in Rank |-> c]
  BY <1>1, <1>2 DEF Held
<1>4. [r \in Rank |-> Exchanged(r)] = [r \in Rank |-> 0]
  BY <1>1 DEF Init, Exchanged
<1>5. sweeps = [r \in Rank |-> 0]
  BY DEF Init
<1>6. QED
  BY <1>3, <1>4, <1>5 DEF Replicas!Init, Replicas!Rank, Rank

(* Every step is a sweep or an exchange of the abstract specification, or  *)
(* leaves it as it is.                                                     *)
LEMMA StepReplicas ==
  IInv /\ [Next]_vars => [Replicas!Next]_(Replicas!vars)
<1> SUFFICES ASSUME IInv, [Next]_vars PROVE [Replicas!Next]_(Replicas!vars)
  OBVIOUS
<1> DEFINE H == [r \in Rank |-> Held(r)]
           X == [r \in Rank |-> Exchanged(r)]
<1>1. CASE UNCHANGED vars
  <2>1. \A r \in Rank : Held(r)' = Held(r) /\ Exchanged(r)' = Exchanged(r)
    BY <1>1 DEF vars, Held, Exchanged, PeerTook, Posted, Incoming, Peer, Proposes
  <2>2. H' = H /\ X' = X /\ sweeps' = sweeps
    BY <1>1, <2>1 DEF vars
  <2>3. QED
    BY <2>2 DEF Replicas!vars, Replicas!Rank, Rank
<1>2. ASSUME NEW r \in Rank, Sweep(r) PROVE Replicas!Next
  <2>1. \A q \in Rank \ {r} : Held(q)' = Held(q) /\ Exchanged(q)' = Exchanged(q)
    BY <1>2, OthersHold DEF Sweep, TakeConfig
  <2>2. Held(r)' \in Config /\ Exchanged(r)' = Exchanged(r)
    BY <1>2, SweepHeld
  <2>3. H' = [H EXCEPT ![r] = Held(r)'] /\ X' = X
    BY <2>1, <2>2
  <2>4. sweeps' = [sweeps EXCEPT ![r] = @ + 1]
    BY <1>2 DEF Sweep
  <2>5. Replicas!Sweep(r)
    BY <2>2, <2>3, <2>4 DEF Replicas!Sweep, Replicas!Rank, Rank
  <2>6. QED
    BY <2>5 DEF Replicas!Next, Replicas!Rank, Rank
<1>3. ASSUME NEW r \in Rank, Swap(r),
             \A q \in Rank : Held(q)' = Held(q) /\ Exchanged(q)' = Exchanged(q)
      PROVE  UNCHANGED Replicas!vars
  <2>1. H' = H /\ X' = X
    BY <1>3
  <2>2. sweeps' = sweeps
    BY <1>3 DEF Swap, PostEnergy, SitOut, TakeEnergy, Decide, TakeFlag, Reject, PostConfig,
                TakeConfig, IniW, loop
  <2>3. QED
    BY <2>1, <2>2 DEF Replicas!vars, Replicas!Rank, Rank
<1>4. ASSUME NEW r \in Rank, Swap(r), ~TakeConfig(r) PROVE UNCHANGED Replicas!vars
  BY <1>3, <1>4, OwnHeld, OthersHold
<1>5. ASSUME NEW r \in Rank, TakeConfig(r) PROVE [Replicas!Next]_(Replicas!vars)
  <2>1. Typed /\ Scheduled /\ Swap(r) /\ pc[r] = "config" /\ UNCHANGED sweeps
    BY <1>5 DEF IInv, Swap, TakeConfig, loop
  <2>2. PICK a \in Lower :
          /\ a \in Rank /\ a + 1 \in Rank /\ a < a + 1 /\ Stage(r, a % 2) = "config"
          /\ (r = a /\ Peer(r) = a + 1) \/ (r = a + 1 /\ Peer(r) = a)
    BY <2>1, WaitsInPair DEF Exchanging
  <2>3. PICK x \in {a, a + 1} : x # r /\ x = Peer(r) /\ x \in Rank
    <3>1. Peer(r) \in {a, a + 1} /\ Peer(r) # r /\ Peer(r) \in Rank
      <4>1. a # a + 1
        BY <2>2 DEF Rank
      <4>2. QED
        BY <2>2, <4>1
    <3>2. QED
      BY <3>1
  <2>4. RoundOf(r) % 2 = a % 2
    BY <2>2 DEF Stage
  <2>5. CASE Together(a)
    <3>1. /\ Held(r)' = Held(x) /\ Held(x)' = Held(r)
          /\ Exchanged(a)' = Exchanged(a) + 1 /\ Exchanged(a + 1)' = Exchanged(a + 1)
      BY <1>5, <2>2, <2>3, <2>4, <2>5, FirstTakes
    <3>2. \A q \in Rank \ {a, a + 1} : Held(q)' = Held(q) /\ Exchanged(q)' = Exchanged(q)
      BY <1>5, <2>1, <2>2, <2>3, OthersHold
    <3>3. H' = [H EXCEPT ![a] = H[a + 1], ![a + 1] = H[a]]
      <4>1. Held(a)' = Held(a + 1) /\ Held(a + 1)' = Held(a)
        BY <2>2, <2>3, <3>1
      <4>2. QED
        BY <2>2, <3>2, <4>1
    <3>4. X' = [X EXCEPT ![a] = @ + 1]
      BY <2>2, <3>1, <3>2
    <3>5. Replicas!Exchange(a)
      BY <2>1, <2>2, <3>3, <3>4 DEF Replicas!Exchange, Replicas!Rank, Rank
    <3>6. QED
      BY <2>2, <3>5 DEF Replicas!Next, Replicas!Rank, Rank
  <2>6. CASE ~Together(a)
    <3>1. AheadOf(x, r, a % 2)
      <4>1. Pair(a)
        BY DEF IInv, Pairs
      <4>2. CASE AheadOf(a, a + 1, a % 2)
        BY <2>2, <2>3, <4>2 DEF AheadOf
      <4>3. CASE AheadOf(a + 1, a, a % 2)
        BY <2>2, <2>3, <4>3 DEF AheadOf
      <4>4. QED
        BY <2>6, <4>1, <4>2, <4>3 DEF Pair
    <3>2. PeerTook(r)
      BY <2>1, <2>2, <2>3, <3>1, BehindHoldsSent
    <3>3. pc[x] # "config" \/ Peer(x) # r
      <4>1. SUFFICES ASSUME pc[x] = "config", Peer(x) = r PROVE FALSE
        OBVIOUS
      <4>2. PICK e \in Lower :
              /\ Stage(x, e % 2) = "config"
              /\ (x = e /\ Peer(x) = e + 1) \/ (x = e + 1 /\ Peer(x) = e)
        BY <2>1, <2>3, <4>1, WaitsInPair DEF Exchanging
      <4>3. e = a
        BY <2>2, <2>3, <4>1, <4>2 DEF Lower, Rank
      <4>4. Stage(x, a % 2) # "config"
        BY <3>1 DEF AheadOf
      <4>5. QED
        BY <4>2, <4>3, <4>4
    <3>4. \A q \in Rank \ {r} : Held(q)' = Held(q) /\ Exchanged(q)' = Exchanged(q)
      BY <1>5, <2>1, <2>3, <3>3, OthersHold
    <3>5. QED
      BY <1>3, <1>5, <2>1, <3>2, <3>4, SecondTakes
  <2>7. QED
    BY <2>5, <2>6
<1>6. QED
  BY <1>1, <1>2, <1>4, <1>5 DEF Next, Done, Swap

(* The message protocol implements the abstract replica permutation: for   *)
(* every number of ranks and every interleaving, an accepted swap moves    *)
(* both configurations in one step, once, and nothing else moves any.      *)
THEOREM SwapImplementsExchange == Spec => ExchangesAreAtomic
<1>1. Init => Replicas!Init
  BY InitReplicas
<1>2. IInv /\ [Next]_vars => [Replicas!Next]_(Replicas!vars)
  BY StepReplicas
<1>3. QED
  BY <1>1, <1>2, Invariant, PTL DEF Spec, ExchangesAreAtomic, Replicas!Spec
=============================================================================
