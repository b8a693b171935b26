----------------------------- MODULE Allreduce -----------------------------
(***************************************************************************)
(* When an allreduce may return: the k-th call of a rank returns only once *)
(* every rank has entered its k-th call.  Abstract specification of the    *)
(* collective calls of src/src/main.cc, implemented by RingAllreduce and   *)
(* assumed of MPI by WangLandau.                                           *)
(***************************************************************************)
EXTENDS Integers

CONSTANTS NRanks, Calls

Rank == 0 .. NRanks - 1

VARIABLES entered,   \* calls rank r has entered
          returned   \* calls that have returned on rank r

vars == <<entered, returned>>

Init == /\ entered = [r \in Rank |-> 0]
        /\ returned = [r \in Rank |-> 0]

Enter(r) == /\ entered[r] = returned[r]
            /\ entered[r] < Calls
            /\ entered' = [entered EXCEPT ![r] = @ + 1]
            /\ UNCHANGED returned

Return(r) == /\ returned[r] < entered[r]
             /\ \A s \in Rank : entered[s] >= entered[r]
             /\ returned' = [returned EXCEPT ![r] = @ + 1]
             /\ UNCHANGED entered

Next == \E r \in Rank : Enter(r) \/ Return(r)

Spec == Init /\ [][Next]_vars
=============================================================================
