--------------------------- MODULE RingAllreduce ---------------------------
(***************************************************************************)
(* RingAllreduce() of src/src/allreduce.cc: the sum of one array per rank, *)
(* by a scatter-reduce and an allgather around the ring.  The array is cut *)
(* into NRanks segments; in every iteration a rank sends one segment to    *)
(* its right and receives another from its left.                           *)
(*                                                                         *)
(* A segment's data is abstract: how often each rank's contribution was    *)
(* added into it.  The caller makes the call several times in a row, with  *)
(* no barrier between (src/src/main.cc lines 145-148), so a rank may start *)
(* the next call while its neighbours are in this one; all messages have   *)
(* tag 0.  A send may complete at once, when the library buffers it, or    *)
(* only when the receive its neighbour has posted takes it; the fairness   *)
(* relies on the second alone.  With one rank both loops are empty; that   *)
(* case is left out.                                                       *)
(***************************************************************************)
EXTENDS Integers, Sequences

CONSTANTS NRanks,   \* size
          Length,   \* elements of the array
          Calls     \* calls made in a row

ASSUME RingAssumption == /\ NRanks \in Nat /\ NRanks > 1 /\ Length \in Nat
                         /\ Calls \in Nat \ {0}

Rank == 0 .. NRanks - 1
Chunk == Rank
send_to(r) == (r + 1) % NRanks
recv_from(r) == (r - 1 + NRanks) % NRanks

(* Lines 133-146: the residual goes to the first segments, one each. *)
segment_size(c) == Length \div NRanks + (IF c < Length % NRanks THEN 1 ELSE 0)

VARIABLES pc,      \* "iterate" (before a send), "wait", "call" (returned), "done"
          call,    \* calls finished by rank r
          phase,   \* "reduce" or "gather"
          i,       \* the loop index
          output,  \* output[r][c][q]: how often q's data is in r's segment c
          posted,  \* whether rank r has a receive posted
          buffer,  \* what that receive took
          chan     \* chan[r]: messages from r to its right neighbour

vars == <<pc, call, phase, i, output, posted, buffer, chan>>

(* Faulty variant: the allgather sends the segment it is about to receive. *)
send_chunk_late(r) == (r - i[r] + NRanks) % NRanks
send_chunk(r) == IF phase[r] = "reduce" THEN (r - i[r] + NRanks) % NRanks
                                        ELSE (r - i[r] + 1 + NRanks) % NRanks
recv_chunk(r) == IF phase[r] = "reduce" THEN (r - i[r] - 1 + NRanks) % NRanks
                                        ELSE (r - i[r] + NRanks) % NRanks

Own(r) == [c \in Chunk |-> [q \in Rank |-> IF q = r THEN 1 ELSE 0]]
Nothing == [chunk |-> -1, data |-> [q \in Rank |-> 0]]

-----------------------------------------------------------------------------
Init == /\ pc = [r \in Rank |-> "iterate"]
        /\ call = [r \in Rank |-> 0]
        /\ phase = [r \in Rank |-> "reduce"]
        /\ i = [r \in Rank |-> 0]
        /\ output = [r \in Rank |-> Own(r)]
        /\ posted = [r \in Rank |-> FALSE]
        /\ buffer = [r \in Rank |-> Nothing]
        /\ chan = [r \in Rank |-> <<>>]

(* MPI_Irecv and MPI_Send, or MPI_Sendrecv, post both at once. *)
Send(r) ==
  /\ pc[r] = "iterate"
  /\ posted' = [posted EXCEPT ![r] = TRUE]
  /\ chan' = [chan EXCEPT ![r] = Append(@,
       [chunk |-> send_chunk(r), size |-> segment_size(send_chunk(r)),
        phase |-> phase[r], call |-> call[r], data |-> output[r][send_chunk(r)]])]
  /\ pc' = [pc EXCEPT ![r] = "wait"]
  /\ UNCHANGED <<call, phase, i, output, buffer>>

Deliver(r) ==
  LET s == recv_from(r)
  IN  /\ posted[r]
      /\ chan[s] # <<>>
      /\ buffer' = [buffer EXCEPT ![r] = Head(chan[s])]
      /\ chan' = [chan EXCEPT ![s] = Tail(@)]
      /\ posted' = [posted EXCEPT ![r] = FALSE]
      /\ UNCHANGED <<pc, call, phase, i, output>>

Overwritten(r) == buffer[r].data     \* faulty variant of Reduced
Reduced(r) == [q \in Rank |-> output[r][recv_chunk(r)][q] + buffer[r].data[q]]

(* Faulty variants: no MPI_Wait before the data is used; one iteration too *)
(* many.                                                                   *)
Unwaited(r) == TRUE
Received(r) == ~posted[r]
More(r) == i[r] < NRanks - 2

(* The iteration ends when both have completed: reduce() adds the buffer   *)
(* in, the allgather receives straight into its segment.                   *)
Receive(r) ==
  /\ pc[r] = "wait"
  /\ Received(r)
  /\ output' = [output EXCEPT ![r][recv_chunk(r)] =
                  IF phase[r] = "reduce" THEN Reduced(r) ELSE buffer[r].data]
  /\ buffer' = [buffer EXCEPT ![r] = Nothing]
  /\ IF More(r)
     THEN /\ i' = [i EXCEPT ![r] = @ + 1]
          /\ pc' = [pc EXCEPT ![r] = "iterate"]
          /\ UNCHANGED <<call, phase>>
     ELSE /\ i' = [i EXCEPT ![r] = 0]
          /\ IF phase[r] = "reduce"
             THEN /\ phase' = [phase EXCEPT ![r] = "gather"]
                  /\ pc' = [pc EXCEPT ![r] = "iterate"]
                  /\ UNCHANGED call
             ELSE /\ pc' = [pc EXCEPT ![r] = "call"]
                  /\ call' = [call EXCEPT ![r] = @ + 1]
                  /\ UNCHANGED phase
  /\ UNCHANGED <<posted, chan>>

(* The call has returned; the caller makes the next one, with new data. *)
NextCall(r) ==
  /\ pc[r] = "call"
  /\ IF call[r] < Calls
     THEN /\ output' = [output EXCEPT ![r] = Own(r)]
          /\ phase' = [phase EXCEPT ![r] = "reduce"]
          /\ pc' = [pc EXCEPT ![r] = "iterate"]
     ELSE /\ pc' = [pc EXCEPT ![r] = "done"]
          /\ UNCHANGED <<output, phase>>
  /\ UNCHANGED <<call, i, posted, buffer, chan>>

Step(r) == Send(r) \/ Deliver(r) \/ Receive(r) \/ NextCall(r)
Done == (\A r \in Rank : pc[r] = "done") /\ UNCHANGED vars
Next == (\E r \in Rank : Step(r)) \/ Done

(* What holds when rank r goes on without any buffering: its receive is    *)
(* still posted, or its send has been taken.                               *)
SentBeforeReceive(r) == chan[r] = <<>>     \* faulty variant: no MPI_Irecv
Unbuffered(r) == posted[r] \/ chan[r] = <<>>

(* Every rank keeps running and MPI delivers what is posted. *)
Fairness == \A r \in Rank : WF_vars(Step(r) /\ Unbuffered(r))
Spec == Init /\ [][Next]_vars /\ Fairness
-----------------------------------------------------------------------------
(* The sum: when a call returns, every rank has every contribution in      *)
(* every segment exactly once, however far its neighbours have run ahead.  *)
EveryContributionOnce ==
  \A r \in Rank : pc[r] \in {"call", "done"} =>
    \A c \in Chunk, q \in Rank : output[r][c][q] = 1

(* What a posted receive takes is the segment this iteration expects, of   *)
(* this phase of this call, and fits the buffer of segment_sizes[0]        *)
(* elements: tag 0 alone does not tell the messages apart.                 *)
ExpectedSegment ==
  \A r \in Rank : buffer[r] # Nothing =>
    /\ buffer[r].chunk = recv_chunk(r)
    /\ buffer[r].phase = phase[r]
    /\ buffer[r].call = call[r]
    /\ buffer[r].size <= segment_size(0)

(* Every call returns on every rank even when every send waits for its     *)
(* receive, since the receives are posted before the sends.                *)
AllReturn == <>(\A r \in Rank : pc[r] = "done")

(* The calls of a rank are those of a collective operation (Allreduce).    *)
Begun(r) == \/ pc[r] = "wait"
            \/ pc[r] = "iterate" /\ (i[r] > 0 \/ phase[r] = "gather")
Collective == INSTANCE Allreduce WITH
                entered <- [r \in Rank |-> call[r] + (IF Begun(r) THEN 1 ELSE 0)],
                returned <- call

(* No rank returns from a call before every rank is in it: the ring is as  *)
(* good a meeting point as MPI_Allreduce.                                  *)
IsCollective == Collective!Spec
=============================================================================
