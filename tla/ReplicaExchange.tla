-------------------------- MODULE ReplicaExchange --------------------------
(***************************************************************************)
(* Parallel tempering over MPI ranks (src/src/pt.cc): the sweep-and-swap   *)
(* schedule of parallel_tempering() and the message protocol of swap().    *)
(*                                                                         *)
(* Every rank runs the same program.  In a round, ranks pair up with a     *)
(* neighbour on the temperature ladder: the lower one proposes, the upper  *)
(* one answers.  All messages carry tag 123, so a receive takes the oldest *)
(* message from its peer, whatever it is.  A send may complete at once,    *)
(* when the library buffers it, or only when the peer receives it: both    *)
(* are behaviours here, and the fairness relies on the second alone.       *)
(*                                                                         *)
(* A configuration is abstract; the pair counts W and the energy Etot()    *)
(* derived from them are one integer, Bonds[c].                            *)
(***************************************************************************)
EXTENDS Integers, Sequences

CONSTANTS NRanks,     \* mpiState.nprocs
          Config,     \* configurations at the fixed composition
          Bonds,      \* Bonds[c]: pair counts of c, and so its energy
          T,          \* T[r]: the temperature of rank r
          DropI,      \* equilibration sweeps (DROPI)
          Samples     \* sampling sweeps (SAMPS * SEP)

Rank == 0 .. NRanks - 1

ASSUME NRanksAssumption == NRanks \in Nat /\ NRanks > 1
ASSUME LadderAssumption == T \in [Rank -> Nat]
ASSUME EnergyAssumption == Bonds \in [Config -> Int]
ASSUME ScheduleAssumption == DropI \in Nat /\ Samples \in Nat

VARIABLES pc,         \* where rank r is in the loop and in swap()
          sweeps,     \* mchybrid() calls made so far
          even,       \* the loop's flag: which pairs meet in the next round
          Atom,       \* the configuration rank r holds
          W,          \* its pair counts, kept incrementally
          currEtot,   \* its energy
          Ej,         \* the peer's energy, received in this round
          flag,       \* this round's decision, known after it was made or received
          att, acc,   \* ptState.att, ptState.acc
          chan        \* chan[s][d]: messages from s not yet received by d

vars == <<pc, sweeps, even, Atom, W, currEtot, Ej, flag, att, acc, chan>>
walker == <<Atom, W, currEtot>>
loop == <<sweeps, even>>
round == <<Ej, flag>>
counters == <<att, acc>>

Message == [kind : {"energy"}, energy : Int]
             \cup [kind : {"flag"}, flag : BOOLEAN]
             \cup [kind : {"config"}, atom : Config]

(* Roles: swap(even), src/src/pt.cc lines 116-128. *)
Proposes(r) == IF even[r] THEN r % 2 = 0 ELSE r % 2 # 0 /\ r # NRanks - 1
Answers(r) == IF even[r] THEN r % 2 # 0
                         ELSE ~Proposes(r) /\ r # 0 /\ r # NRanks - 1
Peer(r) == IF Proposes(r) THEN r + 1 ELSE r - 1

(* The schedule: sweep number t (from 0) is followed by a swap when its    *)
(* index in its own loop is even; the index restarts after equilibration.  *)
SwapDue(t) == IF t < DropI THEN t % 2 = 0 ELSE (t - DropI) % 2 = 0
LoopEnd(r) == IF sweeps[r] = DropI + Samples THEN "done" ELSE "sweep"

Post(r, m) == chan' = [chan EXCEPT ![r][Peer(r)] = Append(@, m)]
Arrived(r, kind) == /\ chan[Peer(r)][r] # <<>>
                    /\ Head(chan[Peer(r)][r]).kind = kind
Incoming(r) == Head(chan[Peer(r)][r])
Received(r) == [chan EXCEPT ![Peer(r)][r] = Tail(@)]

-----------------------------------------------------------------------------
(* main.cc broadcasts one configuration to every rank before the first     *)
(* sweep; LoopEnd covers a schedule of no sweeps at all.                   *)
Init == /\ \E c \in Config : /\ Atom = [r \in Rank |-> c]
                             /\ W = [r \in Rank |-> Bonds[c]]
                             /\ currEtot = [r \in Rank |-> Bonds[c]]
        /\ sweeps = [r \in Rank |-> 0]
        /\ pc = [r \in Rank |-> LoopEnd(r)]
        /\ even = [r \in Rank |-> TRUE]
        /\ Ej = [r \in Rank |-> 0]
        /\ flag = [r \in Rank |-> FALSE]
        /\ att = [r \in Rank |-> 0]
        /\ acc = [r \in Rank |-> 0]
        /\ chan = [s \in Rank |-> [d \in Rank |-> <<>>]]

(* mchybrid(): N^3 trial moves.  The accepted ones change the pair counts  *)
(* by the difference they make and set the energy to Etot() of the counts. *)
Move(r, c) == /\ Atom' = [Atom EXCEPT ![r] = c]
              /\ W' = [W EXCEPT ![r] = @ + Bonds[c] - Bonds[Atom[r]]]
              /\ currEtot' = [currEtot EXCEPT ![r] = W'[r]]

Sweep(r) == /\ pc[r] = "sweep"
            /\ UNCHANGED walker \/ \E c \in Config : Move(r, c)
            /\ sweeps' = [sweeps EXCEPT ![r] = @ + 1]
            /\ pc' = [pc EXCEPT ![r] =
                        IF SwapDue(sweeps[r]) THEN "swap" ELSE LoopEnd(r)']
            /\ UNCHANGED <<even, round, counters, chan>>

(* A send to a rank that does not exist is a fatal MPI error. *)
PostEnergy(r) == /\ pc[r] = "swap"
                 /\ Proposes(r) \/ Answers(r)
                 /\ IF Peer(r) \in Rank
                    THEN /\ Post(r, [kind |-> "energy", energy |-> currEtot[r]])
                         /\ pc' = [pc EXCEPT ![r] = "energy"]
                    ELSE /\ pc' = [pc EXCEPT ![r] = "abort"]
                         /\ UNCHANGED chan
                 /\ UNCHANGED <<loop, walker, round, counters>>

(* The first and the last rank have no partner in an odd round. *)
SitOut(r) == /\ pc[r] = "swap"
             /\ ~Proposes(r) /\ ~Answers(r)
             /\ pc' = [pc EXCEPT ![r] = "ini_W"]
             /\ UNCHANGED <<loop, walker, round, counters, chan>>

TakeEnergy(r) == /\ pc[r] = "energy"
                 /\ Arrived(r, "energy")
                 /\ Ej' = [Ej EXCEPT ![r] = Incoming(r).energy]
                 /\ chan' = Received(r)
                 /\ pc' = [pc EXCEPT ![r] = IF Proposes(r) THEN "decide" ELSE "flag"]
                 /\ UNCHANGED <<loop, walker, flag, counters>>

(* delta = (Ei - Ej) (1/T_up - 1/T_own); not positive: always accept. *)
Favourable(r) == (currEtot[r] - Ej[r]) * (T[r] - T[r + 1]) <= 0

(* Faulty variant: only an acceptance is announced. *)
DecideSilently(r) ==
  /\ pc[r] = "decide"
  /\ \E b \in BOOLEAN :
       /\ Favourable(r) => b
       /\ flag' = [flag EXCEPT ![r] = b]
       /\ IF b THEN Post(r, [kind |-> "flag", flag |-> b]) ELSE UNCHANGED chan
  /\ att' = [att EXCEPT ![r] = @ + 1]
  /\ pc' = [pc EXCEPT ![r] = "decided"]
  /\ UNCHANGED <<loop, walker, Ej, acc>>

Decide(r) == /\ pc[r] = "decide"
             /\ \E b \in BOOLEAN :
                  /\ Favourable(r) => b
                  /\ flag' = [flag EXCEPT ![r] = b]
                  /\ Post(r, [kind |-> "flag", flag |-> b])
             /\ att' = [att EXCEPT ![r] = @ + 1]
             /\ pc' = [pc EXCEPT ![r] = "decided"]
             /\ UNCHANGED <<loop, walker, Ej, acc>>

(* Faulty variant: the answering rank counts the attempt too. *)
TakeFlagCounting(r) ==
  /\ pc[r] = "flag"
  /\ Arrived(r, "flag")
  /\ flag' = [flag EXCEPT ![r] = Incoming(r).flag]
  /\ att' = [att EXCEPT ![r] = @ + 1]
  /\ chan' = Received(r)
  /\ pc' = [pc EXCEPT ![r] = "decided"]
  /\ UNCHANGED <<loop, walker, Ej, acc>>

TakeFlag(r) == /\ pc[r] = "flag"
               /\ Arrived(r, "flag")
               /\ flag' = [flag EXCEPT ![r] = Incoming(r).flag]
               /\ chan' = Received(r)
               /\ pc' = [pc EXCEPT ![r] = "decided"]
               /\ UNCHANGED <<loop, walker, Ej, counters>>

Reject(r) == /\ pc[r] = "decided"
             /\ ~flag[r]
             /\ pc' = [pc EXCEPT ![r] = "ini_W"]
             /\ UNCHANGED <<loop, walker, round, counters, chan>>

(* Faulty variant: the answering rank only sends. *)
PostConfigOnly(r) ==
  /\ pc[r] = "decided"
  /\ flag[r]
  /\ Post(r, [kind |-> "config", atom |-> Atom[r]])
  /\ pc' = [pc EXCEPT ![r] = IF Proposes(r) THEN "config" ELSE "ini_W"]
  /\ UNCHANGED <<loop, walker, round, counters>>

PostConfig(r) == /\ pc[r] = "decided"
                 /\ flag[r]
                 /\ Post(r, [kind |-> "config", atom |-> Atom[r]])
                 /\ pc' = [pc EXCEPT ![r] = "config"]
                 /\ UNCHANGED <<loop, walker, round, counters>>

(* Faulty variants: the wrong buffer is copied back; the answering rank     *)
(* keeps its own configuration.                                            *)
TakeConfigWrongBuffer(r) ==
  /\ pc[r] = "config"
  /\ Arrived(r, "config")
  /\ Atom' = [Atom EXCEPT ![r] = Ej[r]]
  /\ currEtot' = [currEtot EXCEPT ![r] = Ej[r]]
  /\ acc' = [acc EXCEPT ![r] = IF Proposes(r) THEN @ + 1 ELSE @]
  /\ chan' = Received(r)
  /\ pc' = [pc EXCEPT ![r] = "ini_W"]
  /\ UNCHANGED <<loop, W, round, att>>

TakeConfigOneSided(r) ==
  /\ pc[r] = "config"
  /\ Arrived(r, "config")
  /\ Atom' = [Atom EXCEPT ![r] = IF Proposes(r) THEN Incoming(r).atom ELSE @]
  /\ currEtot' = [currEtot EXCEPT ![r] = Ej[r]]
  /\ acc' = [acc EXCEPT ![r] = IF Proposes(r) THEN @ + 1 ELSE @]
  /\ chan' = Received(r)
  /\ pc' = [pc EXCEPT ![r] = "ini_W"]
  /\ UNCHANGED <<loop, W, round, att>>

TakeConfig(r) == /\ pc[r] = "config"
                 /\ Arrived(r, "config")
                 /\ Atom' = [Atom EXCEPT ![r] = Incoming(r).atom]
                 /\ currEtot' = [currEtot EXCEPT ![r] = Ej[r]]
                 /\ acc' = [acc EXCEPT ![r] = IF Proposes(r) THEN @ + 1 ELSE @]
                 /\ chan' = Received(r)
                 /\ pc' = [pc EXCEPT ![r] = "ini_W"]
                 /\ UNCHANGED <<loop, W, round, att>>

(* Faulty variant: the pair counts are not recounted. *)
IniWNoRecount(r) ==
  /\ pc[r] = "ini_W"
  /\ even' = [even EXCEPT ![r] = ~@]
  /\ pc' = [pc EXCEPT ![r] = LoopEnd(r)]
  /\ UNCHANGED <<sweeps, walker, round, counters, chan>>

(* ini_W() recounts the pairs from the configuration; the loop then flips  *)
(* its flag.                                                               *)
IniW(r) == /\ pc[r] = "ini_W"
           /\ W' = [W EXCEPT ![r] = Bonds[Atom[r]]]
           /\ even' = [even EXCEPT ![r] = ~@]
           /\ pc' = [pc EXCEPT ![r] = LoopEnd(r)]
           /\ UNCHANGED <<sweeps, Atom, currEtot, round, counters, chan>>

Swap(r) == \/ PostEnergy(r) \/ SitOut(r) \/ TakeEnergy(r)
           \/ Decide(r) \/ TakeFlag(r) \/ Reject(r)
           \/ PostConfig(r) \/ TakeConfig(r) \/ IniW(r)

Done == (\A r \in Rank : pc[r] = "done") /\ UNCHANGED vars

Next == (\E r \in Rank : Sweep(r) \/ Swap(r)) \/ Done

(* What holds when rank r goes on without any buffering: MPI_Sendrecv has  *)
(* its send and its receive posted together, so a rank in one takes what   *)
(* arrives; anywhere else its sends have been received.                    *)
TakenBeforeReceive(r) ==     \* faulty variant: MPI_Send, then MPI_Recv
  pc[r] = "config" \/ \A d \in Rank : chan[r][d] = <<>>
Unbuffered(r) ==
  pc[r] \in {"energy", "config"} \/ \A d \in Rank : chan[r][d] = <<>>

(* Each rank is an operating-system process that keeps running, and MPI    *)
(* delivers what is posted to a rank that waits for it.                    *)
Fairness == \A r \in Rank : WF_vars((Sweep(r) \/ Swap(r)) /\ Unbuffered(r))

Spec == Init /\ [][Next]_vars /\ Fairness
-----------------------------------------------------------------------------
(* Every variable stays in its range. *)
TypeOK == /\ pc \in [Rank -> {"sweep", "swap", "energy", "decide", "flag",
                              "decided", "config", "ini_W", "done", "abort"}]
          /\ sweeps \in [Rank -> Nat]
          /\ even \in [Rank -> BOOLEAN]
          /\ Atom \in [Rank -> Config]
          /\ W \in [Rank -> Int]
          /\ currEtot \in [Rank -> Int]
          /\ Ej \in [Rank -> Int]
          /\ flag \in [Rank -> BOOLEAN]
          /\ att \in [Rank -> Nat]
          /\ acc \in [Rank -> Nat]
          /\ chan \in [Rank -> [Rank -> Seq(Message)]]

(* Outside swap() the three parts of a walker agree: BondSwap() updates W  *)
(* incrementally and adds energy differences to currEtot, so an exchange   *)
(* that leaves one of them behind corrupts every later sweep.              *)
WalkerConsistent ==
  \A r \in Rank : pc[r] \in {"sweep", "done"} =>
    /\ W[r] = Bonds[Atom[r]]
    /\ currEtot[r] = Bonds[Atom[r]]

(* All messages share one tag, so only the order of the protocol keeps a   *)
(* receive from taking a message of another type: what a waiting rank      *)
(* finds first is what it waits for, even when its peer runs ahead into    *)
(* later rounds.                                                           *)
Awaited == [energy |-> "energy", flag |-> "flag", config |-> "config"]
AwaitedMessageFirst ==
  \A r \in Rank : pc[r] \in DOMAIN Awaited /\ chan[Peer(r)][r] # <<>>
    => Head(chan[Peer(r)][r]).kind = Awaited[pc[r]]

(* A rank never runs so far ahead of its neighbour that more than one      *)
(* round of messages (energy, flag, configuration, or the first message of *)
(* the pair's next round) waits: at most three, and none is left at the    *)
(* end, where the collectives of main.cc follow.                           *)
ChannelsBounded ==
  /\ \A s, d \in Rank : Len(chan[s][d]) <= 3
  /\ (\A r \in Rank : pc[r] = "done") => \A s, d \in Rank : chan[s][d] = <<>>

(* The swap statistics are about pairs r, r + 1: an attempt is counted     *)
(* once per meeting of the pair, on its lower rank, so the ranks of equal  *)
(* parity agree on it once they have made the same sweeps, and the last    *)
(* rank, which begins no pair, never counts one.                           *)
AttemptsCountMeetings ==
  /\ att[NRanks - 1] = 0
  /\ \A r, s \in Rank :
       /\ {pc[r], pc[s]} \subseteq {"sweep", "done"}
       /\ sweeps[r] = sweeps[s]
       /\ r % 2 = s % 2 /\ NRanks - 1 \notin {r, s}
       => att[r] = att[s]

(* A rank that sends to a partner has one: the documentation of swap()     *)
(* (src/src/pt.hpp lines 47-55) pairs every rank that proposes upward with *)
(* one that accepts from below.  The code meets this for an even number of *)
(* ranks only.                                                             *)
EveryProposalHasAPartner == \A r \in Rank : pc[r] # "abort"

(* Every rank gets through its whole schedule of sweeps and swaps, even    *)
(* when no send is ever buffered: no cycle of ranks waits on one another.  *)
AllFinish == <>(\A r \in Rank : pc[r] = "done")

-----------------------------------------------------------------------------
(* Refinement.  The two configurations of an accepted exchange change      *)
(* hands when the first of the two ranks takes its copy; from then on the  *)
(* other rank's configuration is the one in flight to it.                  *)
Posted(s, d, kind) == \E i \in 1 .. Len(chan[s][d]) : chan[s][d][i].kind = kind
PeerTook(r) == pc[r] = "config" /\ ~Posted(r, Peer(r), "config")

Held(r) == IF PeerTook(r) THEN Incoming(r).atom ELSE Atom[r]
Exchanged(r) == IF PeerTook(r) /\ Proposes(r) THEN acc[r] + 1 ELSE acc[r]

Replicas == INSTANCE ReplicaPermutation WITH
              config <- [r \in Rank |-> Held(r)],
              exchanges <- [r \in Rank |-> Exchanged(r)]

(* An exchange is all or nothing for its pair: whatever the interleaving   *)
(* of the messages, a configuration changes hands with its neighbour's in  *)
(* one step of the abstract specification, never lost and never copied.    *)
ExchangesAreAtomic == Replicas!Spec
=============================================================================
