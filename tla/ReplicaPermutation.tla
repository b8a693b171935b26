------------------------- MODULE ReplicaPermutation -------------------------
(***************************************************************************)
(* What replica exchange promises, without messages: every rank holds one  *)
(* configuration; a rank changes its own configuration only by sweeping    *)
(* it, and two neighbouring ranks may exchange theirs in one step.  A      *)
(* configuration is never lost and never copied.                           *)
(* Abstract specification of src/src/pt.cc, implemented by ReplicaExchange.*)
(***************************************************************************)
EXTENDS Integers

CONSTANTS NRanks,   \* mpiState.nprocs
          Config    \* the configurations of the lattice at fixed composition

Rank == 0 .. NRanks - 1

VARIABLES config,     \* config[r]: the configuration rank r holds
          sweeps,     \* sweeps[r]: Monte Carlo sweeps rank r has made
          exchanges   \* exchanges[r]: exchanges of the pair r, r + 1

vars == <<config, sweeps, exchanges>>

Init == /\ \E c \in Config : config = [r \in Rank |-> c]
        /\ sweeps = [r \in Rank |-> 0]
        /\ exchanges = [r \in Rank |-> 0]

Sweep(r) == /\ \E c \in Config : config' = [config EXCEPT ![r] = c]
            /\ sweeps' = [sweeps EXCEPT ![r] = @ + 1]
            /\ UNCHANGED exchanges

Exchange(r) == /\ r + 1 \in Rank
               /\ config' = [config EXCEPT ![r] = config[r + 1],
                                           ![r + 1] = config[r]]
               /\ exchanges' = [exchanges EXCEPT ![r] = @ + 1]
               /\ UNCHANGED sweeps

Next == \E r \in Rank : Sweep(r) \/ Exchange(r)

Spec == Init /\ [][Next]_vars
=============================================================================
