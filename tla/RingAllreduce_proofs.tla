------------------------ MODULE RingAllreduce_proofs ------------------------
(***************************************************************************)
(* Proofs about the ring allreduce, for every number of ranks, every       *)
(* length of the array and every number of calls: the sum it computes, the *)
(* messages its receives take, and that it implements Allreduce.           *)
(*                                                                         *)
(* None of the three is inductive.  Every rank goes through the same       *)
(* iterations, numbered over phases and calls, and in the iteration of a   *)
(* number it sends and receives the message of that number.  So the        *)
(* invariant says what the message of each number carries (Message), which *)
(* ones a channel holds (Flow) and a buffer (Holding), what a rank has     *)
(* summed up so far (Summed), and how far the ranks at a distance must be  *)
(* for a rank to be where it is (Following).                               *)
(***************************************************************************)
EXTENDS RingAllreduce, TLAPS

Phases == {"reduce", "gather"}
Index == 0 .. NRanks - 2

(* How many ranks to the right of q rank r is. *)
Dist(r, q) == (r - q + NRanks) % NRanks

(* Iterations are numbered from 0, twice NRanks - 1 of them in a call.  At *)
(* is the iteration rank r is in or goes to next.                          *)
Turns == 2 * (NRanks - 1)
Number(c, ph, n) == c * Turns + (IF ph = "gather" THEN NRanks - 1 ELSE 0) + n
Returned(r) == pc[r] \in {"call", "done"}
At(r) == IF Returned(r) THEN call[r] * Turns ELSE Number(call[r], phase[r], i[r])
Sent(r) == At(r) + (IF pc[r] = "wait" THEN 1 ELSE 0)
Taken(r) == At(r) + (IF pc[r] = "wait" /\ ~posted[r] THEN 1 ELSE 0)

(* The segment a rank sends, and what is in it: in the scatter-reduce the  *)
(* contributions of the ranks it came through, in the allgather all.       *)
Segment(s, ph, n) == IF ph = "reduce" THEN (s - n + NRanks) % NRanks
                                      ELSE (s - n + 1 + NRanks) % NRanks
Carried(s, ph, n) ==
  [q \in Rank |-> IF ph = "gather" \/ Dist(s, q) <= n THEN 1 ELSE 0]
Message(s, c, ph, n) ==
  [chunk |-> Segment(s, ph, n), size |-> segment_size(Segment(s, ph, n)),
   phase |-> ph, call |-> c, data |-> Carried(s, ph, n)]
Numbered(m, s, k) == \E c \in Nat, ph \in Phases, n \in Index :
                       Number(c, ph, n) = k /\ m = Message(s, c, ph, n)

Messages == [chunk : Chunk, size : Int, phase : Phases, call : Nat, data : [Rank -> Nat]]
Typed == /\ pc \in [Rank -> {"iterate", "wait", "call", "done"}]
         /\ call \in [Rank -> Nat]
         /\ phase \in [Rank -> Phases]
         /\ i \in [Rank -> Index]
         /\ output \in [Rank -> [Chunk -> [Rank -> Nat]]]
         /\ posted \in [Rank -> BOOLEAN]
         /\ buffer \in [Rank -> Messages \cup {Nothing}]
         /\ chan \in [Rank -> Seq(Messages)]

Orderly == \A r \in Rank :
  /\ Returned(r) => phase[r] = "gather" /\ i[r] = 0 /\ call[r] > 0
  /\ ~Returned(r) => call[r] < Calls
  /\ posted[r] => pc[r] = "wait"

Flow == \A s \in Rank :
  /\ Len(chan[s]) = Sent(s) - Taken(send_to(s))
  /\ \A j \in 1 .. Len(chan[s]) : Numbered(chan[s][j], s, Taken(send_to(s)) + j - 1)

Holding == \A r \in Rank : IF pc[r] = "wait" /\ ~posted[r]
                           THEN Numbered(buffer[r], recv_from(r), At(r))
                           ELSE buffer[r] = Nothing

(* Segment c of rank r is complete, or has come some ranks far.            *)
Complete(r, c) == /\ phase[r] = "gather"
                  /\ Returned(r) \/ Dist(r, c) < i[r] \/ Dist(r, c) = NRanks - 1
Level(r, c) == IF phase[r] = "gather" \/ Dist(r, c) <= i[r] THEN Dist(r, c) ELSE 0
Summed == \A r \in Rank, c \in Chunk, q \in Rank :
  output[r][c][q] = IF Complete(r, c) \/ Dist(r, q) <= Level(r, c) THEN 1 ELSE 0

(* For rank r to have taken a message, the rank at distance d must have    *)
(* sent the one d - 1 before it.                                           *)
Following == \A r, s \in Rank : s # r => Sent(s) + Dist(r, s) >= Taken(r) + 1

(* The inductive invariant. *)
IInv == Typed /\ Orderly /\ Flow /\ Holding /\ Summed /\ Following

-----------------------------------------------------------------------------
(* A remainder of a sum that goes around the ring at most three times.     *)
LEMMA Wrap ==
  ASSUME NEW x \in 0 .. 3 * NRanks - 1
  PROVE  x % NRanks = IF x < NRanks THEN x
                      ELSE IF x < 2 * NRanks THEN x - NRanks ELSE x - 2 * NRanks
BY RingAssumption

(* The neighbours of a rank are ranks, and each other's.                   *)
LEMMA Neighbours ==
  ASSUME NEW r \in Rank
  PROVE  /\ send_to(r) \in Rank /\ recv_from(r) \in Rank
         /\ send_to(recv_from(r)) = r /\ recv_from(send_to(r)) = r
         /\ recv_from(r) # r
         /\ recv_from(r) = IF r = 0 THEN NRanks - 1 ELSE r - 1
         /\ send_to(r) = IF r = NRanks - 1 THEN 0 ELSE r + 1
<1>1. NRanks \in Nat /\ NRanks > 1 /\ r \in 0 .. NRanks - 1
  BY RingAssumption DEF Rank
<1>2. /\ recv_from(r) = IF r = 0 THEN NRanks - 1 ELSE r - 1
      /\ send_to(r) = IF r = NRanks - 1 THEN 0 ELSE r + 1
  <2>1. r + 1 \in 0 .. 3 * NRanks - 1 /\ r - 1 + NRanks \in 0 .. 3 * NRanks - 1
    BY <1>1
  <2>2. QED
    BY <1>1, <2>1, Wrap DEF recv_from, send_to
<1>3. \A q \in Rank : /\ recv_from(q) = IF q = 0 THEN NRanks - 1 ELSE q - 1
                      /\ send_to(q) = IF q = NRanks - 1 THEN 0 ELSE q + 1
  <2>1. ASSUME NEW q \in Rank
        PROVE  /\ recv_from(q) = IF q = 0 THEN NRanks - 1 ELSE q - 1
               /\ send_to(q) = IF q = NRanks - 1 THEN 0 ELSE q + 1
    <3>1. q + 1 \in 0 .. 3 * NRanks - 1 /\ q - 1 + NRanks \in 0 .. 3 * NRanks - 1
      BY <1>1 DEF Rank
    <3>2. QED
      BY <1>1, <3>1, Wrap DEF recv_from, send_to, Rank
  <2>2. QED
    BY <2>1
<1>4. QED
  BY <1>1, <1>2, <1>3 DEF Rank

(* Distances along the ring.                                               *)
LEMMA Distances ==
  ASSUME NEW r \in Rank, NEW q \in Rank
  PROVE  /\ Dist(r, q) = IF q <= r THEN r - q ELSE r - q + NRanks
         /\ Dist(r, q) \in 0 .. NRanks - 1
         /\ Dist(r, q) = 0 <=> q = r
         /\ Dist(recv_from(r), q) = IF q = r THEN NRanks - 1 ELSE Dist(r, q) - 1
         /\ \A p \in Rank : Dist(r, p) = Dist(r, q) => p = q
<1>1. NRanks \in Nat /\ NRanks > 1
  BY RingAssumption
<1>2. \A s, p \in Rank : Dist(s, p) = IF p <= s THEN s - p ELSE s - p + NRanks
  <2>1. ASSUME NEW s \in Rank, NEW p \in Rank
        PROVE  Dist(s, p) = IF p <= s THEN s - p ELSE s - p + NRanks
    <3>1. s - p + NRanks \in 0 .. 3 * NRanks - 1
      BY <1>1 DEF Rank
    <3>2. QED
      BY <1>1, <3>1, Wrap DEF Dist, Rank
  <2>2. QED
    BY <2>1
<1>3. recv_from(r) \in Rank /\ recv_from(r) = IF r = 0 THEN NRanks - 1 ELSE r - 1
  BY Neighbours
<1>4. /\ Dist(r, q) \in 0 .. NRanks - 1
      /\ Dist(r, q) = 0 <=> q = r
  BY <1>1, <1>2 DEF Rank
<1>5. Dist(recv_from(r), q) = IF q = r THEN NRanks - 1 ELSE Dist(r, q) - 1
  <2>1. /\ Dist(r, q) = IF q <= r THEN r - q ELSE r - q + NRanks
        /\ Dist(recv_from(r), q) = IF q <= recv_from(r) THEN recv_from(r) - q
                                   ELSE recv_from(r) - q + NRanks
    BY <1>2, <1>3
  <2>2. QED
    BY <1>1, <1>3, <2>1 DEF Rank
<1>6. ASSUME NEW p \in Rank, Dist(r, p) = Dist(r, q) PROVE p = q
  <2>1. /\ Dist(r, q) = IF q <= r THEN r - q ELSE r - q + NRanks
        /\ Dist(r, p) = IF p <= r THEN r - p ELSE r - p + NRanks
    BY <1>2
  <2>2. QED
    BY <1>1, <1>6, <2>1 DEF Rank
<1>7. QED
  BY <1>2, <1>4, <1>5, <1>6

(* The segment of each iteration is the one that many ranks back, and what *)
(* a rank sends its right neighbour takes for the same iteration.          *)
LEMMA Segments ==
  ASSUME NEW r \in Rank, NEW n \in Index, NEW ph \in Phases
  PROVE  /\ Segment(r, ph, n) \in Chunk
         /\ Dist(r, Segment(r, ph, n)) = IF ph = "reduce" THEN n
                                         ELSE IF n = 0 THEN NRanks - 1 ELSE n - 1
         /\ Segment(recv_from(r), ph, n) \in Chunk
         /\ Dist(r, Segment(recv_from(r), ph, n)) = IF ph = "reduce" THEN n + 1 ELSE n
         /\ Segment(recv_from(r), ph, n) = IF ph = "reduce" THEN (r - n - 1 + NRanks) % NRanks
                                           ELSE (r - n + NRanks) % NRanks
<1>1. NRanks \in Nat /\ NRanks > 1 /\ r \in 0 .. NRanks - 1 /\ n \in 0 .. NRanks - 2
      /\ Chunk = Rank /\ Rank = 0 .. NRanks - 1
  BY RingAssumption DEF Rank, Index, Chunk
<1>2. recv_from(r) \in Rank /\ recv_from(r) = IF r = 0 THEN NRanks - 1 ELSE r - 1
  BY Neighbours
<1>3. \A s \in Rank :
        Segment(s, ph, n) = IF ph = "reduce" THEN IF s >= n THEN s - n ELSE s - n + NRanks
                            ELSE IF s - n + 1 < 0 THEN s - n + 1 + NRanks
                                 ELSE IF s - n + 1 < NRanks THEN s - n + 1 ELSE 0
  <2>1. ASSUME NEW s \in Rank
        PROVE  Segment(s, ph, n) = IF ph = "reduce" THEN IF s >= n THEN s - n ELSE s - n + NRanks
                            ELSE IF s - n + 1 < 0 THEN s - n + 1 + NRanks
                                 ELSE IF s - n + 1 < NRanks THEN s - n + 1 ELSE 0
    <3>1. s - n + NRanks \in 0 .. 3 * NRanks - 1 /\ s - n + 1 + NRanks \in 0 .. 3 * NRanks - 1
      BY <1>1
    <3>2. /\ (s - n + NRanks) % NRanks = IF s >= n THEN s - n ELSE s - n + NRanks
          /\ (s - n + 1 + NRanks) % NRanks =
               IF s - n + 1 < 0 THEN s - n + 1 + NRanks
               ELSE IF s - n + 1 < NRanks THEN s - n + 1 ELSE 0
      <4>1. PICK x \in 0 .. 3 * NRanks - 1, y \in 0 .. 3 * NRanks - 1 :
              x = s - n + NRanks /\ y = s - n + 1 + NRanks
        BY <3>1
      <4>2. /\ x % NRanks = IF x < NRanks THEN x
                            ELSE IF x < 2 * NRanks THEN x - NRanks ELSE x - 2 * NRanks
            /\ y % NRanks = IF y < NRanks THEN y
                            ELSE IF y < 2 * NRanks THEN y - NRanks ELSE y - 2 * NRanks
        BY Wrap
      <4>3. /\ x % NRanks = IF s >= n THEN s - n ELSE s - n + NRanks
            /\ y % NRanks = IF s - n + 1 < 0 THEN s - n + 1 + NRanks
                            ELSE IF s - n + 1 < NRanks THEN s - n + 1 ELSE 0
        BY <1>1, <4>1, <4>2
      <4>4. QED
        BY <4>1, <4>3
    <3>3. QED
      BY <1>1, <3>2 DEF Segment
  <2>2. QED
    BY <2>1
<1>4. Segment(r, ph, n) \in Chunk /\ Segment(recv_from(r), ph, n) \in Chunk
  BY <1>1, <1>2, <1>3
<1>5. /\ Dist(r, Segment(r, ph, n)) = IF ph = "reduce" THEN n
                                      ELSE IF n = 0 THEN NRanks - 1 ELSE n - 1
      /\ Dist(r, Segment(recv_from(r), ph, n)) = IF ph = "reduce" THEN n + 1 ELSE n
  <2>1. \A c \in Rank : Dist(r, c) = IF c <= r THEN r - c ELSE r - c + NRanks
    BY Distances
  <2>2. CASE ph = "reduce"
    BY <1>1, <1>2, <1>3, <1>4, <2>1, <2>2
  <2>3. CASE ph = "gather"
    BY <1>1, <1>2, <1>3, <1>4, <2>1, <2>3
  <2>4. QED
    BY <2>2, <2>3 DEF Phases
<1>6. Segment(recv_from(r), ph, n) = IF ph = "reduce" THEN (r - n - 1 + NRanks) % NRanks
                                     ELSE (r - n + NRanks) % NRanks
  <2>1. r - n - 1 + NRanks \in 0 .. 3 * NRanks - 1 /\ r - n + NRanks \in 0 .. 3 * NRanks - 1
    BY <1>1
  <2>2. /\ (r - n - 1 + NRanks) % NRanks = IF r >= n + 1 THEN r - n - 1 ELSE r - n - 1 + NRanks
        /\ (r - n + NRanks) % NRanks = IF r >= n THEN r - n ELSE r - n + NRanks
    <3>1. PICK x \in 0 .. 3 * NRanks - 1, y \in 0 .. 3 * NRanks - 1 :
            x = r - n - 1 + NRanks /\ y = r - n + NRanks
      BY <2>1
    <3>2. /\ x % NRanks = IF x < NRanks THEN x
                          ELSE IF x < 2 * NRanks THEN x - NRanks ELSE x - 2 * NRanks
          /\ y % NRanks = IF y < NRanks THEN y
                          ELSE IF y < 2 * NRanks THEN y - NRanks ELSE y - 2 * NRanks
      BY Wrap
    <3>3. /\ x % NRanks = IF r >= n + 1 THEN r - n - 1 ELSE r - n - 1 + NRanks
          /\ y % NRanks = IF r >= n THEN r - n ELSE r - n + NRanks
      BY <1>1, <3>1, <3>2
    <3>4. QED
      BY <3>1, <3>3
  <2>3. QED
    BY <1>1, <1>2, <1>3, <2>2 DEF Phases
<1>7. QED
  BY <1>4, <1>5, <1>6

(* The iterations of all calls, in order, have different numbers.          *)
LEMMA TurnsOfCalls ==
  ASSUME NEW c \in Nat, NEW d \in Nat
  PROVE  /\ Turns = 2 * (NRanks - 1) /\ Turns \in Nat /\ Turns > 0
         /\ c * Turns \in Nat
         /\ (c + 1) * Turns = c * Turns + Turns
         /\ c < d => d * Turns >= c * Turns + Turns
<1>1. Turns = 2 * (NRanks - 1) /\ Turns \in Nat /\ Turns > 0
  BY RingAssumption DEF Turns
<1>2. \A t \in Nat : /\ c * t \in Nat /\ (c + 1) * t = c * t + t
                     /\ c < d => d * t >= c * t + t
  OBVIOUS
<1>3. QED
  BY <1>1, <1>2

(* The iterations of a call are numbered without gaps, from the end of the *)
(* one before to the start of the next.                                    *)
LEMMA Numbers ==
  ASSUME NEW c \in Nat, NEW ph \in Phases, NEW n \in Index
  PROVE  /\ Number(c, ph, n) \in Nat
         /\ Number(c, ph, n) >= c * Turns /\ Number(c, ph, n) < c * Turns + Turns
         /\ n < NRanks - 2 => n + 1 \in Index /\ Number(c, ph, n + 1) = Number(c, ph, n) + 1
         /\ Number(c, "gather", 0) = Number(c, "reduce", NRanks - 2) + 1
         /\ (c + 1) * Turns = Number(c, "gather", NRanks - 2) + 1
         /\ c * Turns = Number(c, "reduce", 0)
<1>1. /\ Turns = 2 * (NRanks - 1) /\ c * Turns \in Nat
      /\ (c + 1) * Turns = c * Turns + Turns
  BY TurnsOfCalls
<1>2. NRanks \in Nat /\ NRanks > 1 /\ n \in 0 .. NRanks - 2
  BY RingAssumption DEF Index
<1> DEFINE k == c * Turns
<1>3. k \in Nat /\ (c + 1) * Turns = k + 2 * (NRanks - 1)
      /\ \A p, x : Number(c, p, x) = k + (IF p = "gather" THEN NRanks - 1 ELSE 0) + x
  BY <1>1 DEF Number
<1> HIDE DEF k
<1>4. /\ Number(c, ph, n) \in Nat
      /\ Number(c, ph, n) >= k /\ Number(c, ph, n) < k + 2 * (NRanks - 1)
      /\ n < NRanks - 2 => n + 1 \in Index /\ Number(c, ph, n + 1) = Number(c, ph, n) + 1
      /\ Number(c, "gather", 0) = Number(c, "reduce", NRanks - 2) + 1
      /\ (c + 1) * Turns = Number(c, "gather", NRanks - 2) + 1
      /\ k = Number(c, "reduce", 0)
  BY <1>2, <1>3 DEF Index
<1>5. QED
  BY <1>1, <1>4 DEF k

(* A number names its call, phase and iteration.                           *)
LEMMA NumbersDiffer ==
  ASSUME NEW c \in Nat, NEW ph \in Phases, NEW n \in Index,
         NEW d \in Nat, NEW ps \in Phases, NEW m \in Index,
         Number(c, ph, n) = Number(d, ps, m)
  PROVE  c = d /\ ph = ps /\ n = m
<1>1. /\ c * Turns \in Nat /\ d * Turns \in Nat /\ Turns \in Nat
      /\ c < d => d * Turns >= c * Turns + Turns
      /\ d < c => c * Turns >= d * Turns + Turns
  BY TurnsOfCalls
<1>2. /\ Number(c, ph, n) >= c * Turns /\ Number(c, ph, n) < c * Turns + Turns
      /\ Number(d, ps, m) >= d * Turns /\ Number(d, ps, m) < d * Turns + Turns
      /\ Number(c, ph, n) \in Nat
  BY Numbers
<1>3. c = d
  <2> DEFINE x == c * Turns
             y == d * Turns
             k == Number(c, ph, n)
  <2>1. /\ x \in Nat /\ y \in Nat /\ Turns \in Nat /\ k \in Nat
        /\ c < d => y >= x + Turns
        /\ d < c => x >= y + Turns
        /\ k >= x /\ k < x + Turns /\ k >= y /\ k < y + Turns
    BY <1>1, <1>2
  <2> HIDE DEF x, y, k
  <2>2. ~(c < d) /\ ~(d < c)
    BY <2>1
  <2>3. QED
    BY <2>2
<1>4. ph = ps /\ n = m
  <2>1. c * Turns \in Nat /\ NRanks \in Nat /\ NRanks > 1
    BY <1>1, RingAssumption
  <2> DEFINE x == c * Turns
  <2>2. x + (IF ph = "gather" THEN NRanks - 1 ELSE 0) + n
          = x + (IF ps = "gather" THEN NRanks - 1 ELSE 0) + m
    BY <1>3 DEF Number
  <2> HIDE DEF x
  <2>3. QED
    BY <2>1, <2>2 DEF Phases, Index, x
<1>5. QED
  BY <1>3, <1>4

-----------------------------------------------------------------------------
(* A step leaves the other ranks as they are.                              *)
LEMMA Others ==
  ASSUME Typed, NEW r \in Rank, Step(r), NEW q \in Rank, q # r
  PROVE  /\ pc'[q] = pc[q] /\ call'[q] = call[q] /\ phase'[q] = phase[q] /\ i'[q] = i[q]
         /\ output'[q] = output[q] /\ posted'[q] = posted[q] /\ buffer'[q] = buffer[q]
         /\ At(q)' = At(q) /\ Sent(q)' = Sent(q) /\ Taken(q)' = Taken(q)
<1>1. /\ pc'[q] = pc[q] /\ call'[q] = call[q] /\ phase'[q] = phase[q] /\ i'[q] = i[q]
      /\ output'[q] = output[q] /\ posted'[q] = posted[q] /\ buffer'[q] = buffer[q]
  BY DEF Typed, Step, Send, Deliver, Receive, NextCall
<1>2. At(q)' = At(q)
  BY <1>1 DEF At, Returned, Number, Turns
<1>3. QED
  BY <1>1, <1>2 DEF Sent, Taken

(* A rank has sent and taken at most one message more than iterations.     *)
LEMMA Counts ==
  ASSUME Typed, NEW r \in Rank
  PROVE  At(r) \in Nat /\ Sent(r) \in Nat /\ Taken(r) \in Nat /\ Sent(r) <= At(r) + 1
<1>1. At(r) \in Nat
  BY TurnsOfCalls, Numbers DEF At, Typed
<1>2. QED
  BY <1>1 DEF Sent, Taken

(* A send counts as one sent.                                              *)
LEMMA SendCounts ==
  ASSUME Typed, Orderly, NEW r \in Rank, Send(r)
  PROVE  At(r)' = At(r) /\ Sent(r) = At(r) /\ Sent(r)' = Sent(r) + 1 /\ Taken(r)' = Taken(r)
<1>1. /\ pc[r] = "iterate" /\ pc'[r] = "wait" /\ posted'[r] = TRUE
      /\ UNCHANGED <<call, phase, i>>
  BY DEF Send, Typed
<1>2. At(r)' = At(r)
  BY <1>1 DEF At, Returned, Number, Turns
<1>3. QED
  BY <1>1, <1>2, Counts DEF Sent, Taken

(* A delivery counts as one taken.                                         *)
LEMMA DeliverCounts ==
  ASSUME Typed, Orderly, NEW r \in Rank, Deliver(r)
  PROVE  At(r)' = At(r) /\ Taken(r) = At(r) /\ Sent(r)' = Sent(r) /\ Taken(r)' = Taken(r) + 1
<1>1. /\ pc[r] = "wait" /\ posted[r] /\ posted'[r] = FALSE
      /\ UNCHANGED <<pc, call, phase, i>>
  BY DEF Deliver, Typed, Orderly
<1>2. At(r)' = At(r)
  BY <1>1 DEF At, Returned, Number, Turns
<1>3. QED
  BY <1>1, <1>2, Counts DEF Sent, Taken

(* The end of an iteration is the next one, before its send and receive.   *)
LEMMA ReceiveCounts ==
  ASSUME Typed, Orderly, NEW r \in Rank, Receive(r)
  PROVE  Sent(r)' = Sent(r) /\ Taken(r)' = Taken(r) /\ Taken(r) = At(r) + 1
<1>1. pc[r] = "wait" /\ ~posted[r] /\ pc'[r] \in {"iterate", "call"}
  BY DEF Receive, Received, Typed
<1>2. At(r)' = At(r) + 1
  <2>1. /\ At(r) = Number(call[r], phase[r], i[r])
        /\ call[r] \in Nat /\ phase[r] \in Phases /\ i[r] \in Index
    BY <1>1 DEF At, Returned, Typed
  <2>2. CASE More(r)
    <3>1. /\ pc'[r] = "iterate" /\ i'[r] = i[r] + 1
          /\ call'[r] = call[r] /\ phase'[r] = phase[r]
      BY <2>2 DEF Receive, Typed
    <3>2. At(r)' = Number(call[r], phase[r], i[r] + 1)
      BY <3>1 DEF At, Returned, Number, Turns
    <3>3. QED
      BY <2>1, <2>2, <3>2, Numbers DEF More
  <2>3. CASE ~More(r) /\ phase[r] = "reduce"
    <3>1. /\ pc'[r] = "iterate" /\ i'[r] = 0 /\ call'[r] = call[r] /\ phase'[r] = "gather"
      BY <2>3 DEF Receive, Typed
    <3>2. i[r] = NRanks - 2
      BY <2>1, <2>3, RingAssumption DEF More, Index
    <3>3. At(r)' = Number(call[r], "gather", 0)
      BY <3>1 DEF At, Returned, Number, Turns
    <3>4. QED
      BY <2>1, <2>3, <3>2, <3>3, Numbers
  <2>4. CASE ~More(r) /\ phase[r] # "reduce"
    <3>1. pc'[r] = "call" /\ call'[r] = call[r] + 1
      BY <2>4 DEF Receive, Typed
    <3>2. i[r] = NRanks - 2 /\ phase[r] = "gather"
      BY <2>1, <2>4, RingAssumption DEF More, Index, Phases
    <3>3. At(r)' = (call[r] + 1) * Turns
      BY <3>1 DEF At, Returned, Turns
    <3>4. QED
      BY <2>1, <3>2, <3>3, Numbers
  <2>5. QED
    BY <2>2, <2>3, <2>4
<1>3. QED
  BY <1>1, <1>2, Counts DEF Sent, Taken

(* The next call goes on where the last one ended.                         *)
LEMMA NextCallCounts ==
  ASSUME Typed, Orderly, NEW r \in Rank, NextCall(r)
  PROVE  Sent(r)' = Sent(r) /\ Taken(r)' = Taken(r) /\ At(r)' = At(r)
<1>1. /\ pc[r] = "call" /\ pc'[r] \in {"iterate", "done"} /\ UNCHANGED <<call, i>>
      /\ pc'[r] = "iterate" => phase'[r] = "reduce"
      /\ i[r] = 0 /\ call[r] \in Nat
  BY DEF NextCall, Typed, Orderly, Returned
<1>2. At(r)' = At(r)
  <2>1. At(r) = call[r] * Turns
    BY <1>1 DEF At, Returned
  <2>2. CASE pc'[r] = "done"
    BY <1>1, <2>1, <2>2 DEF At, Returned, Turns
  <2>3. CASE pc'[r] = "iterate"
    <3>1. At(r)' = Number(call[r], "reduce", 0)
      BY <1>1, <2>3 DEF At, Returned, Number, Turns
    <3>2. 0 \in Index /\ "reduce" \in Phases
      BY RingAssumption DEF Index, Phases
    <3>3. QED
      BY <1>1, <2>1, <3>1, <3>2, Numbers
  <2>4. QED
    BY <1>1, <2>2, <2>3
<1>3. QED
  BY <1>1, <1>2, Counts DEF Sent, Taken

(* A call ends with the allgather and a receive is posted only to wait.    *)
LEMMA StepOrderly ==
  ASSUME Typed, Orderly, NEW r \in Rank, Step(r)
  PROVE  Orderly'
<1>1. SUFFICES /\ Returned(r)' => phase'[r] = "gather" /\ i'[r] = 0 /\ call'[r] > 0
               /\ ~Returned(r)' => call'[r] < Calls
               /\ posted'[r] => pc'[r] = "wait"
  BY Others DEF Orderly, Returned
<1>2. CASE Send(r)
  BY <1>2 DEF Send, Typed, Orderly, Returned
<1>3. CASE Deliver(r)
  BY <1>3 DEF Deliver, Typed, Orderly, Returned
<1>4. CASE Receive(r)
  <2>1. /\ pc[r] = "wait" /\ ~posted[r] /\ posted' = posted
        /\ call[r] < Calls /\ call[r] \in Nat
    BY <1>4 DEF Receive, Received, Typed, Orderly, Returned
  <2>2. CASE More(r)
    BY <1>4, <2>1, <2>2 DEF Receive, Typed, Returned
  <2>3. CASE ~More(r) /\ phase[r] = "reduce"
    BY <1>4, <2>1, <2>3 DEF Receive, Typed, Returned
  <2>4. CASE ~More(r) /\ phase[r] # "reduce"
    BY <1>4, <2>1, <2>4 DEF Receive, Typed, Returned, Phases
  <2>5. QED
    BY <2>2, <2>3, <2>4
<1>5. CASE NextCall(r)
  BY <1>5 DEF NextCall, Typed, Orderly, Returned
<1>6. QED
  BY <1>2, <1>3, <1>4, <1>5 DEF Step

(* Sizes are numbers, and none is larger than that of the first segment,   *)
(* which every buffer has.                                                 *)
LEMMA Sizes ==
  ASSUME NEW c \in Chunk
  PROVE  segment_size(c) \in Int /\ segment_size(c) <= segment_size(0)
<1>1. /\ Length \div NRanks \in Int
      /\ Length % NRanks \in Nat
      /\ c \in Nat
  BY RingAssumption DEF Chunk, Rank
<1> DEFINE x == Length \div NRanks
           y == Length % NRanks
<1>2. /\ x \in Int /\ y \in Nat
      /\ \A d : segment_size(d) = x + (IF d < y THEN 1 ELSE 0)
  BY <1>1 DEF segment_size
<1> HIDE DEF x, y
<1>3. segment_size(c) \in Int
  BY <1>1, <1>2
<1>4. segment_size(c) <= segment_size(0)
  BY <1>1, <1>2
<1>5. QED
  BY <1>3, <1>4

(* Messages are messages.                                                  *)
LEMMA MessageType ==
  ASSUME NEW s \in Rank, NEW c \in Nat, NEW ph \in Phases, NEW n \in Index
  PROVE  Message(s, c, ph, n) \in Messages
<1>1. Segment(s, ph, n) \in Chunk
  BY Segments
<1>2. segment_size(Segment(s, ph, n)) \in Int
  BY <1>1, Sizes
<1>3. Carried(s, ph, n) \in [Rank -> Nat]
  BY DEF Carried
<1>4. QED
  BY <1>1, <1>2, <1>3 DEF Message, Messages

(* What a rank sends is the message of its iteration: the segment has come *)
(* as far as that, or is complete.                                         *)
LEMMA SentMessage ==
  ASSUME Typed, Orderly, Summed, NEW r \in Rank, Send(r)
  PROVE  chan' = [chan EXCEPT ![r] = Append(@, Message(r, call[r], phase[r], i[r]))]
<1>1. /\ phase[r] \in Phases /\ i[r] \in Index /\ ~Returned(r)
      /\ send_chunk(r) = Segment(r, phase[r], i[r])
  BY DEF Typed, send_chunk, Segment, Send, Returned
<1> DEFINE g == Segment(r, phase[r], i[r])
<1>2. /\ g \in Chunk
      /\ Dist(r, g) = IF phase[r] = "reduce" THEN i[r]
                      ELSE IF i[r] = 0 THEN NRanks - 1 ELSE i[r] - 1
  BY <1>1, Segments
<1>3. output[r][g] = Carried(r, phase[r], i[r])
  <2>1. output[r][g] \in [Rank -> Nat] /\ Carried(r, phase[r], i[r]) \in [Rank -> Nat]
    BY <1>2 DEF Typed, Carried
  <2>2. ASSUME NEW q \in Rank PROVE output[r][g][q] = Carried(r, phase[r], i[r])[q]
    <3>1. output[r][g][q] = IF Complete(r, g) \/ Dist(r, q) <= Level(r, g) THEN 1 ELSE 0
      BY <1>2 DEF Summed
    <3>2. Carried(r, phase[r], i[r])[q]
            = IF phase[r] = "gather" \/ Dist(r, q) <= i[r] THEN 1 ELSE 0
      BY DEF Carried
    <3>3. CASE phase[r] = "reduce"
      <4>1. ~Complete(r, g) /\ Level(r, g) = i[r]
        BY <1>1, <1>2, <3>3 DEF Complete, Level, Index
      <4>2. QED
        BY <3>1, <3>2, <3>3, <4>1
    <3>4. CASE phase[r] = "gather"
      <4>1. Complete(r, g)
        BY <1>1, <1>2, <3>4 DEF Complete, Index
      <4>2. QED
        BY <3>1, <3>2, <3>4, <4>1
    <3>5. QED
      BY <1>1, <3>3, <3>4 DEF Phases
  <2>3. QED
    BY <2>1, <2>2
<1>4. QED
  BY <1>1, <1>3 DEF Send, Message

(* What a rank holds when its receive is complete is the message its       *)
(* iteration expects.                                                      *)
LEMMA HeldMessage ==
  ASSUME Typed, Orderly, Holding, NEW r \in Rank, pc[r] = "wait", ~posted[r]
  PROVE  /\ buffer[r] = Message(recv_from(r), call[r], phase[r], i[r])
         /\ recv_chunk(r) = Segment(recv_from(r), phase[r], i[r])
<1>1. /\ Numbered(buffer[r], recv_from(r), At(r))
      /\ At(r) = Number(call[r], phase[r], i[r])
      /\ call[r] \in Nat /\ phase[r] \in Phases /\ i[r] \in Index
  BY DEF Holding, At, Returned, Typed
<1>2. PICK c \in Nat, ph \in Phases, n \in Index :
        /\ Number(c, ph, n) = Number(call[r], phase[r], i[r])
        /\ buffer[r] = Message(recv_from(r), c, ph, n)
  BY <1>1 DEF Numbered
<1>3. c = call[r] /\ ph = phase[r] /\ n = i[r]
  BY <1>1, <1>2, NumbersDiffer
<1>4. recv_chunk(r) = Segment(recv_from(r), phase[r], i[r])
  BY <1>1, Segments DEF recv_chunk
<1>5. QED
  BY <1>2, <1>3, <1>4

(* Every variable stays in its range.                                      *)
LEMMA StepTyped ==
  ASSUME IInv, NEW r \in Rank, Step(r)
  PROVE  Typed'
<1> USE DEF IInv
<1>1. 0 \in Index /\ "reduce" \in Phases /\ "gather" \in Phases
  BY RingAssumption DEF Index, Phases
<1>2. CASE Send(r)
  <2>1. chan' \in [Rank -> Seq(Messages)]
    <3>1. Message(r, call[r], phase[r], i[r]) \in Messages
      BY MessageType DEF Typed
    <3> DEFINE m == Message(r, call[r], phase[r], i[r])
    <3>2. chan' = [chan EXCEPT ![r] = Append(@, m)]
      BY <1>2, SentMessage
    <3> HIDE DEF m
    <3>3. chan[r] \in Seq(Messages) /\ m \in Messages
      BY <3>1 DEF Typed, m
    <3>4. Append(chan[r], m) \in Seq(Messages)
      BY <3>3
    <3>5. QED
      BY <3>2, <3>4 DEF Typed
  <2>2. QED
    BY <1>2, <2>1 DEF Send, Typed
<1>3. CASE Deliver(r)
  <2>1. /\ recv_from(r) \in Rank
        /\ chan[recv_from(r)] # <<>> /\ chan[recv_from(r)] \in Seq(Messages)
    BY <1>3, Neighbours DEF Deliver, Typed
  <2>2. Head(chan[recv_from(r)]) \in Messages /\ Tail(chan[recv_from(r)]) \in Seq(Messages)
    BY <2>1
  <2>3. QED
    BY <1>3, <2>1, <2>2 DEF Deliver, Typed
<1>4. CASE Receive(r)
  <2>1. /\ buffer[r] = Message(recv_from(r), call[r], phase[r], i[r])
        /\ recv_chunk(r) \in Chunk
    <3>1. pc[r] = "wait" /\ ~posted[r] /\ phase[r] \in Phases /\ i[r] \in Index
      BY <1>4 DEF Receive, Received, Typed
    <3>2. QED
      BY <3>1, HeldMessage, Segments
  <2>2. buffer[r].data \in [Rank -> Nat]
    BY <2>1 DEF Message, Carried
  <2>3. Reduced(r) \in [Rank -> Nat]
    BY <2>1, <2>2 DEF Reduced, Typed
  <2>4. output' \in [Rank -> [Chunk -> [Rank -> Nat]]]
    <3> DEFINE v == IF phase[r] = "reduce" THEN Reduced(r) ELSE buffer[r].data
    <3>1. v \in [Rank -> Nat]
      BY <2>2, <2>3
    <3>2. output' = [output EXCEPT ![r][recv_chunk(r)] = v]
      BY <1>4 DEF Receive
    <3> HIDE DEF v
    <3>3. QED
      BY <2>1, <3>1, <3>2 DEF Typed
  <2>5. /\ i' \in [Rank -> Index] /\ phase' \in [Rank -> Phases] /\ call' \in [Rank -> Nat]
        /\ pc' \in [Rank -> {"iterate", "wait", "call", "done"}]
    <3>1. call[r] + 1 \in Nat /\ i[r] \in Index
      BY DEF Typed
    <3>2. CASE More(r)
      <4>1. i[r] + 1 \in Index
        BY <3>1, <3>2, RingAssumption DEF More, Index
      <4>2. QED
        BY <1>4, <3>2, <4>1 DEF Receive, Typed
    <3>3. CASE ~More(r) /\ phase[r] = "reduce"
      <4>1. /\ i' = [i EXCEPT ![r] = 0] /\ phase' = [phase EXCEPT ![r] = "gather"]
            /\ pc' = [pc EXCEPT ![r] = "iterate"] /\ call' = call
        BY <1>4, <3>3 DEF Receive
      <4>2. QED
        BY <1>1, <4>1 DEF Typed
    <3>4. CASE ~More(r) /\ phase[r] # "reduce"
      <4>1. /\ i' = [i EXCEPT ![r] = 0] /\ phase' = phase
            /\ pc' = [pc EXCEPT ![r] = "call"] /\ call' = [call EXCEPT ![r] = @ + 1]
        BY <1>4, <3>4 DEF Receive
      <4>2. QED
        BY <1>1, <3>1, <4>1 DEF Typed
    <3>5. QED
      BY <3>2, <3>3, <3>4
  <2>6. buffer' \in [Rank -> Messages \cup {Nothing}] /\ UNCHANGED <<posted, chan>>
    BY <1>4 DEF Receive, Typed
  <2>7. QED
    BY <2>4, <2>5, <2>6 DEF Typed
<1>5. CASE NextCall(r)
  <2>1. Own(r) \in [Chunk -> [Rank -> Nat]]
    BY DEF Own
  <2>2. QED
    BY <1>1, <1>5, <2>1 DEF NextCall, Typed
<1>6. QED
  BY <1>2, <1>3, <1>4, <1>5 DEF Step

(* The message a rank has just sent ends its channel, the one delivered    *)
(* leaves the front of its left neighbour's; numbers stay in step.         *)
LEMMA StepFlow ==
  ASSUME IInv, NEW r \in Rank, Step(r)
  PROVE  Flow'
<1> USE DEF IInv
<1>1. SUFFICES ASSUME NEW s \in Rank, NEW t \in Rank, t = send_to(s)
               PROVE  /\ Len(chan'[s]) = Sent(s)' - Taken(t)'
                      /\ \A j \in 1 .. Len(chan'[s]) :
                           Numbered(chan'[s][j], s, Taken(t)' + j - 1)
  BY Neighbours DEF Flow
<1>2. /\ Len(chan[s]) = Sent(s) - Taken(t)
      /\ \A j \in 1 .. Len(chan[s]) : Numbered(chan[s][j], s, Taken(t) + j - 1)
      /\ chan[s] \in Seq(Messages)
      /\ s = recv_from(t) /\ s # t
      /\ Sent(s) \in Nat /\ Taken(t) \in Nat
  BY <1>1, Neighbours, Counts DEF Flow, Typed
<1>3. CASE Send(r) /\ s = r
  <2>1. Sent(s) = At(s) /\ Sent(s)' = Sent(s) + 1 /\ Taken(t)' = Taken(t)
    BY <1>2, <1>3, SendCounts, Others DEF Step
  <2> DEFINE m == Message(r, call[r], phase[r], i[r])
             l == chan[s]
             k == Taken(t)
             n == Sent(s)
             P(x, z) == Numbered(x, s, z)
  <2>2. chan'[s] = Append(l, m) /\ m \in Messages
    BY <1>3, SentMessage, MessageType DEF Typed
  <2>3. P(m, n)
    <3>1. /\ At(s) = Number(call[r], phase[r], i[r])
          /\ call[r] \in Nat /\ phase[r] \in Phases /\ i[r] \in Index
      BY <1>3 DEF At, Returned, Send, Typed
    <3>2. QED
      BY <1>3, <2>1, <3>1 DEF Numbered
  <2>4. /\ Len(l) = n - k /\ l \in Seq(Messages) /\ n \in Nat /\ k \in Nat
        /\ \A j \in 1 .. Len(l) : P(l[j], k + j - 1)
    BY <1>2
  <2>5. Sent(s)' = n + 1 /\ Taken(t)' = k
    BY <2>1
  <2> HIDE DEF m, l, k, n, P
  <2>6. /\ Len(Append(l, m)) = Len(l) + 1 /\ Append(l, m)[Len(l) + 1] = m
        /\ \A j \in 1 .. Len(l) : Append(l, m)[j] = l[j]
        /\ Len(l) \in Nat
    BY <2>2, <2>4
  <2>7. ASSUME NEW j \in 1 .. Len(l) + 1
        PROVE  P(Append(l, m)[j], k + j - 1)
    <3>1. CASE j = Len(l) + 1
      <4>1. k + j - 1 = n
        BY <2>4, <2>6, <3>1
      <4>2. QED
        BY <2>3, <2>6, <3>1, <4>1
    <3>2. CASE j \in 1 .. Len(l)
      BY <2>4, <2>6, <3>2
    <3>3. QED
      BY <2>6, <3>1, <3>2
  <2>8. Len(chan'[s]) = Sent(s)' - Taken(t)'
    BY <2>2, <2>4, <2>5, <2>6
  <2>9. \A j \in 1 .. Len(chan'[s]) : P(chan'[s][j], Taken(t)' + j - 1)
    BY <2>2, <2>5, <2>6, <2>7
  <2>10. QED
    BY <2>8, <2>9 DEF P
<1>4. CASE Deliver(r) /\ t = r
  <2>1. Sent(s)' = Sent(s) /\ Taken(t)' = Taken(t) + 1
    BY <1>2, <1>4, DeliverCounts, Others DEF Step
  <2> DEFINE l == chan[s]
             k == Taken(t)
             n == Sent(s)
             P(x, z) == Numbered(x, s, z)
  <2>2. chan'[s] = Tail(l) /\ l # <<>>
    BY <1>2, <1>4 DEF Deliver, Typed
  <2>3. /\ Len(l) = n - k /\ l \in Seq(Messages) /\ n \in Nat /\ k \in Nat
        /\ \A j \in 1 .. Len(l) : P(l[j], k + j - 1)
    BY <1>2
  <2>4. Sent(s)' = n /\ Taken(t)' = k + 1
    BY <2>1
  <2> HIDE DEF l, k, n, P
  <2>5. /\ Len(Tail(l)) = Len(l) - 1 /\ Len(l) \in Nat
        /\ \A j \in 1 .. Len(l) - 1 : Tail(l)[j] = l[j + 1]
    BY <2>2, <2>3
  <2>6. ASSUME NEW j \in 1 .. Len(l) - 1
        PROVE  P(Tail(l)[j], (k + 1) + j - 1)
    <3>1. j + 1 \in 1 .. Len(l) /\ k + (j + 1) - 1 = (k + 1) + j - 1
      BY <2>3, <2>5
    <3>2. QED
      BY <2>3, <2>5, <3>1
  <2>7. Len(chan'[s]) = Sent(s)' - Taken(t)'
    BY <2>2, <2>3, <2>4, <2>5
  <2>8. \A j \in 1 .. Len(chan'[s]) : P(chan'[s][j], Taken(t)' + j - 1)
    BY <2>2, <2>4, <2>5, <2>6
  <2>9. QED
    BY <2>7, <2>8 DEF P
<1>5. CASE ~(Send(r) /\ s = r) /\ ~(Deliver(r) /\ t = r)
  <2>1. Sent(s)' = Sent(s)
    BY <1>5, DeliverCounts, ReceiveCounts, NextCallCounts, Others DEF Step
  <2>2. Taken(t)' = Taken(t)
    BY <1>5, SendCounts, ReceiveCounts, NextCallCounts, Others DEF Step
  <2>3. chan'[s] = chan[s]
    <3>1. CASE Send(r)
      BY <1>5, <3>1 DEF Send, Typed
    <3>2. CASE Deliver(r)
      <4>1. recv_from(r) # s
        BY <1>1, <1>5, <3>2, Neighbours
      <4>2. QED
        BY <3>2, <4>1 DEF Deliver, Typed
    <3>3. CASE Receive(r) \/ NextCall(r)
      BY <3>3 DEF Receive, NextCall
    <3>4. QED
      BY <3>1, <3>2, <3>3 DEF Step
  <2>4. QED
    BY <1>2, <2>1, <2>2, <2>3
<1>6. QED
  BY <1>3, <1>4, <1>5

(* What is delivered is the message of the receiver's iteration.           *)
LEMMA StepHolding ==
  ASSUME IInv, NEW r \in Rank, Step(r)
  PROVE  Holding'
<1> USE DEF IInv
<1>1. SUFFICES IF pc'[r] = "wait" /\ ~posted'[r]
               THEN Numbered(buffer'[r], recv_from(r), At(r)')
               ELSE buffer'[r] = Nothing
  <2>1. ASSUME NEW q \in Rank, q # r
        PROVE  IF pc'[q] = "wait" /\ ~posted'[q]
               THEN Numbered(buffer'[q], recv_from(q), At(q)')
               ELSE buffer'[q] = Nothing
    <3>1. /\ pc'[q] = pc[q] /\ posted'[q] = posted[q] /\ buffer'[q] = buffer[q]
          /\ At(q)' = At(q)
      BY <2>1, Others
    <3>2. QED
      BY <3>1 DEF Holding
  <2>2. QED
    BY <1>1, <2>1 DEF Holding
<1>2. IF pc[r] = "wait" /\ ~posted[r] THEN Numbered(buffer[r], recv_from(r), At(r))
                                      ELSE buffer[r] = Nothing
  BY DEF Holding
<1>3. CASE Send(r)
  BY <1>2, <1>3 DEF Send, Typed
<1>4. CASE Deliver(r)
  <2>1. /\ pc'[r] = "wait" /\ ~posted'[r] /\ At(r)' = At(r) /\ At(r) = Taken(r)
        /\ Taken(r) \in Nat
    BY <1>4, DeliverCounts, Counts DEF Deliver, Orderly, Typed
  <2>2. PICK s \in Rank : s = recv_from(r) /\ send_to(s) = r
    BY Neighbours
  <2>3. /\ buffer'[r] = Head(chan[s]) /\ chan[s] # <<>> /\ chan[s] \in Seq(Messages)
    BY <1>4, <2>2 DEF Deliver, Typed
  <2>4. \A j \in 1 .. Len(chan[s]) : Numbered(chan[s][j], s, Taken(r) + j - 1)
    BY <2>2 DEF Flow
  <2>5. Head(chan[s]) = chan[s][1] /\ 1 \in 1 .. Len(chan[s])
    BY <2>3
  <2>6. Numbered(chan[s][1], s, Taken(r) + 1 - 1)
    BY <2>4, <2>5
  <2>7. Taken(r) + 1 - 1 = At(r)
    BY <2>1
  <2>8. QED
    BY <2>1, <2>2, <2>3, <2>5, <2>6, <2>7
<1>5. CASE Receive(r)
  <2>1. pc'[r] # "wait" /\ buffer'[r] = Nothing
    BY <1>5 DEF Receive, Typed
  <2>2. QED
    BY <2>1
<1>6. CASE NextCall(r)
  <2>1. pc[r] = "call" /\ pc'[r] # "wait" /\ buffer'[r] = buffer[r]
    BY <1>6 DEF NextCall, Typed
  <2>2. QED
    BY <1>2, <2>1
<1>7. QED
  BY <1>3, <1>4, <1>5, <1>6 DEF Step

(* A rank can take a message only if its left neighbour sent it, and that  *)
(* one has then taken all before it: so the bounds hold around the ring.   *)
LEMMA StepFollowing ==
  ASSUME IInv, NEW r \in Rank, Step(r)
  PROVE  Following'
<1> USE DEF IInv
<1>1. SUFFICES ASSUME NEW a \in Rank, NEW b \in Rank, b # a
               PROVE  Sent(b)' + Dist(a, b) >= Taken(a)' + 1
  BY DEF Following, Dist
<1>2. /\ Sent(b) + Dist(a, b) >= Taken(a) + 1 /\ Dist(a, b) \in Nat
      /\ Sent(b) \in Nat /\ Taken(a) \in Nat
  BY <1>1, Distances, Counts DEF Following
<1>3. Sent(b)' = Sent(b) \/ Sent(b)' = Sent(b) + 1
  BY SendCounts, DeliverCounts, ReceiveCounts, NextCallCounts, Others DEF Step
<1>4. CASE Deliver(r) /\ a = r
  <2>1. PICK s \in Rank : s = recv_from(r) /\ send_to(s) = r
    BY Neighbours
  <2>2. Taken(r) < Sent(s)
    <3>1. Len(chan[s]) = Sent(s) - Taken(r) /\ chan[s] # <<>> /\ chan[s] \in Seq(Messages)
      BY <1>4, <2>1 DEF Flow, Deliver, Typed
    <3>2. Len(chan[s]) > 0
      BY <3>1
    <3>3. QED
      BY <3>1, <3>2, Counts
  <2>3. Sent(b) + Dist(r, b) >= Taken(r) + 2
    <3>1. Dist(s, b) = Dist(r, b) - 1
      BY <1>1, <1>4, <2>1, Distances
    <3>2. CASE b = s
      <4>1. Dist(s, b) = 0
        BY <3>2, Distances
      <4>2. QED
        BY <1>2, <1>4, <2>2, <3>1, <3>2, <4>1
    <3>3. CASE b # s
      <4>1. /\ Sent(b) + Dist(s, b) >= Taken(s) + 1
            /\ Sent(s) \in Nat /\ Taken(s) \in Nat /\ At(s) \in Nat /\ Sent(s) <= At(s) + 1
        BY <3>3, Counts DEF Following
      <4>2. Taken(s) >= At(s)
        BY <4>1 DEF Taken
      <4>3. QED
        BY <1>2, <1>4, <2>2, <3>1, <4>1, <4>2
    <3>4. QED
      BY <3>2, <3>3
  <2>4. Taken(a)' = Taken(r) + 1 /\ Sent(b)' = Sent(b)
    BY <1>1, <1>4, DeliverCounts, Others
  <2>5. QED
    BY <1>2, <1>4, <2>3, <2>4
<1>5. CASE ~(Deliver(r) /\ a = r)
  <2>1. Taken(a)' = Taken(a)
    BY <1>5, SendCounts, ReceiveCounts, NextCallCounts, Others DEF Step
  <2>2. QED
    BY <1>2, <1>3, <2>1
<1>6. QED
  BY <1>4, <1>5

(* The end of an iteration of the scatter-reduce: the segment received had *)
(* only the rank's own contribution, and has now come one rank further.    *)
LEMMA ReduceSummed ==
  ASSUME IInv, NEW r \in Rank, Receive(r), phase[r] = "reduce",
         NEW c \in Chunk, NEW q \in Rank
  PROVE  output'[r][c][q] = IF Complete(r, c)' \/ Dist(r, q) <= Level(r, c)' THEN 1 ELSE 0
<1> DEFINE g == recv_chunk(r)
           s == recv_from(r)
<1> USE DEF IInv
<1>1. /\ NRanks \in Nat /\ NRanks > 1
      /\ i[r] \in 0 .. NRanks - 2 /\ i[r] \in Index
      /\ Chunk = Rank
  BY RingAssumption DEF Typed, Index, Chunk
<1>2. pc[r] = "wait" /\ ~posted[r]
  BY DEF Receive, Received
<1>3. /\ buffer[r].data = Carried(s, "reduce", i[r])
      /\ g \in Chunk /\ Dist(r, g) = i[r] + 1
  <2>1. /\ buffer[r] = Message(s, call[r], "reduce", i[r])
        /\ g = Segment(s, "reduce", i[r])
    BY <1>2, HeldMessage
  <2>2. QED
    BY <1>1, <2>1, Segments DEF Message, Phases
<1>4. /\ output'[r][c][q] = IF c = g THEN output[r][c][q] + Carried(s, "reduce", i[r])[q]
                            ELSE output[r][c][q]
  <2>1. output' = [output EXCEPT ![r][g] = Reduced(r)]
    BY DEF Receive
  <2>2. output'[r][c] = IF c = g THEN Reduced(r) ELSE output[r][c]
    BY <1>3, <2>1 DEF Typed
  <2>3. Reduced(r)[q] = output[r][g][q] + Carried(s, "reduce", i[r])[q]
    BY <1>3 DEF Reduced
  <2>4. QED
    BY <2>2, <2>3
<1>5. Carried(s, "reduce", i[r])[q] = IF q # r /\ Dist(r, q) <= i[r] + 1 THEN 1 ELSE 0
  <2>1. Dist(s, q) = IF q = r THEN NRanks - 1 ELSE Dist(r, q) - 1
    BY Distances
  <2>2. Dist(r, q) \in 0 .. NRanks - 1
    BY Distances
  <2>3. Carried(s, "reduce", i[r])[q] = IF Dist(s, q) <= i[r] THEN 1 ELSE 0
    BY DEF Carried
  <2>4. QED
    BY <1>1, <2>1, <2>2, <2>3
<1>6. /\ output[r][c][q] = IF Dist(r, q) <= (IF Dist(r, c) <= i[r] THEN Dist(r, c) ELSE 0)
                           THEN 1 ELSE 0
  BY DEF Summed, Complete, Level
<1>7. /\ Dist(r, c) \in 0 .. NRanks - 1 /\ Dist(r, q) \in 0 .. NRanks - 1
      /\ Dist(r, q) = 0 <=> q = r
      /\ Dist(r, c) = i[r] + 1 <=> c = g
  BY <1>1, <1>3, Distances
<1>8. CASE More(r)
  <2>1. i'[r] = i[r] + 1 /\ phase'[r] = "reduce"
    BY <1>8 DEF Receive, Typed
  <2>2. /\ ~Complete(r, c)'
        /\ Level(r, c)' = IF Dist(r, c) <= i[r] + 1 THEN Dist(r, c) ELSE 0
    BY <2>1 DEF Complete, Level, Dist
  <2>3. QED
    BY <1>1, <1>4, <1>5, <1>6, <1>7, <2>2
<1>9. CASE ~More(r)
  <2>1. i[r] = NRanks - 2
    BY <1>1, <1>9 DEF More
  <2>2. i'[r] = 0 /\ phase'[r] = "gather" /\ pc'[r] = "iterate"
    BY <1>9 DEF Receive, Typed
  <2>3. /\ Level(r, c)' = Dist(r, c)
        /\ Complete(r, c)' <=> Dist(r, c) < 0 \/ Dist(r, c) = NRanks - 1
    BY <2>2 DEF Complete, Level, Dist, Returned
  <2>4. QED
    BY <1>1, <1>4, <1>5, <1>6, <1>7, <2>1, <2>3
<1>10. QED
  BY <1>8, <1>9

(* The end of an iteration of the allgather: the segment received is       *)
(* complete, and after the last one all are.                               *)
LEMMA GatherSummed ==
  ASSUME IInv, NEW r \in Rank, Receive(r), phase[r] = "gather",
         NEW c \in Chunk, NEW q \in Rank
  PROVE  output'[r][c][q] = IF Complete(r, c)' \/ Dist(r, q) <= Level(r, c)' THEN 1 ELSE 0
<1> DEFINE g == recv_chunk(r)
           s == recv_from(r)
<1> USE DEF IInv
<1>1. /\ NRanks \in Nat /\ NRanks > 1
      /\ i[r] \in 0 .. NRanks - 2 /\ i[r] \in Index
      /\ Chunk = Rank
  BY RingAssumption DEF Typed, Index, Chunk
<1>2. pc[r] = "wait" /\ ~posted[r]
  BY DEF Receive, Received
<1>3. /\ buffer[r].data = Carried(s, "gather", i[r])
      /\ g \in Chunk /\ Dist(r, g) = i[r]
  <2>1. /\ buffer[r] = Message(s, call[r], "gather", i[r])
        /\ g = Segment(s, "gather", i[r])
    BY <1>2, HeldMessage
  <2>2. QED
    BY <1>1, <2>1, Segments DEF Message, Phases
<1>4. /\ output'[r][c][q] = IF c = g THEN 1 ELSE output[r][c][q]
  <2>1. output' = [output EXCEPT ![r][g] = Carried(s, "gather", i[r])]
    BY <1>3 DEF Receive
  <2>2. output'[r][c] = IF c = g THEN Carried(s, "gather", i[r]) ELSE output[r][c]
    BY <1>3, <2>1 DEF Typed
  <2>3. Carried(s, "gather", i[r])[q] = 1
    BY DEF Carried
  <2>4. QED
    BY <2>2, <2>3
<1>5. /\ output[r][c][q] = IF Complete(r, c) \/ Dist(r, q) <= Dist(r, c) THEN 1 ELSE 0
      /\ Complete(r, c) <=> Dist(r, c) < i[r] \/ Dist(r, c) = NRanks - 1
  BY <1>2 DEF Summed, Complete, Level, Returned
<1>6. /\ Dist(r, c) \in 0 .. NRanks - 1 /\ Dist(r, q) \in 0 .. NRanks - 1
      /\ Dist(r, c) = i[r] <=> c = g
  BY <1>1, <1>3, Distances
<1>7. CASE More(r)
  <2>1. i'[r] = i[r] + 1 /\ phase'[r] = "gather" /\ pc'[r] = "iterate"
    BY <1>7 DEF Receive, Typed
  <2>2. /\ Complete(r, c)' <=> Dist(r, c) < i[r] + 1 \/ Dist(r, c) = NRanks - 1
        /\ Level(r, c)' = Dist(r, c)
    BY <2>1 DEF Complete, Level, Dist, Returned
  <2>3. QED
    BY <1>1, <1>4, <1>5, <1>6, <2>2
<1>8. CASE ~More(r)
  <2>1. i[r] = NRanks - 2
    BY <1>1, <1>8 DEF More
  <2>2. phase'[r] = "gather" /\ pc'[r] = "call"
    BY <1>8 DEF Receive, Typed
  <2>3. Complete(r, c)'
    BY <2>2 DEF Complete, Returned
  <2>4. QED
    BY <1>1, <1>4, <1>5, <1>6, <2>1, <2>3
<1>9. QED
  BY <1>7, <1>8

(* Only the end of an iteration, and the next call, change the data.       *)
LEMMA StepSummed ==
  ASSUME IInv, NEW r \in Rank, Step(r)
  PROVE  Summed'
<1> USE DEF IInv
<1>1. SUFFICES ASSUME NEW c \in Chunk, NEW q \in Rank
               PROVE  output'[r][c][q] =
                        IF Complete(r, c)' \/ Dist(r, q) <= Level(r, c)' THEN 1 ELSE 0
  <2>1. ASSUME NEW s \in Rank, s # r, NEW c \in Chunk, NEW q \in Rank
        PROVE  output'[s][c][q] =
                 IF Complete(s, c)' \/ Dist(s, q) <= Level(s, c)' THEN 1 ELSE 0
    <3>1. /\ pc'[s] = pc[s] /\ phase'[s] = phase[s] /\ i'[s] = i[s]
          /\ output'[s] = output[s]
      BY <2>1, Others
    <3>2. (Complete(s, c)' <=> Complete(s, c)) /\ Level(s, c)' = Level(s, c)
      BY <3>1 DEF Complete, Level, Returned, Dist
    <3>3. QED
      BY <3>1, <3>2 DEF Summed
  <2>2. QED
    BY <1>1, <2>1 DEF Summed, Dist
<1>2. output[r][c][q] = IF Complete(r, c) \/ Dist(r, q) <= Level(r, c) THEN 1 ELSE 0
  BY DEF Summed
<1>3. CASE Send(r) \/ Deliver(r)
  <2>1. /\ output'[r] = output[r] /\ phase'[r] = phase[r] /\ i'[r] = i[r]
        /\ Returned(r)' <=> Returned(r)
    BY <1>3 DEF Send, Deliver, Typed, Returned
  <2>2. (Complete(r, c)' <=> Complete(r, c)) /\ Level(r, c)' = Level(r, c)
    BY <2>1 DEF Complete, Level, Dist
  <2>3. QED
    BY <1>2, <2>1, <2>2
<1>4. CASE Receive(r)
  BY <1>4, ReduceSummed, GatherSummed DEF Typed, Phases
<1>5. CASE NextCall(r)
  <2>1. CASE call[r] < Calls
    <3>1. /\ output'[r] = Own(r) /\ phase'[r] = "reduce" /\ i'[r] = 0
      BY <1>5, <2>1 DEF NextCall, Typed, Orderly, Returned
    <3>2. ~Complete(r, c)' /\ Level(r, c)' = IF Dist(r, c) <= 0 THEN Dist(r, c) ELSE 0
      BY <3>1 DEF Complete, Level, Dist
    <3>3. /\ Dist(r, c) \in 0 .. NRanks - 1 /\ Dist(r, q) \in 0 .. NRanks - 1
          /\ Dist(r, q) = 0 <=> q = r
      BY Distances DEF Chunk
    <3>4. Own(r)[c][q] = IF q = r THEN 1 ELSE 0
      BY DEF Own
    <3>5. NRanks \in Nat
      BY RingAssumption
    <3>6. QED
      BY <3>1, <3>2, <3>3, <3>4, <3>5
  <2>2. CASE ~(call[r] < Calls)
    <3>1. /\ output'[r] = output[r] /\ phase'[r] = phase[r] /\ i'[r] = i[r]
          /\ Returned(r)' /\ Returned(r)
      BY <1>5, <2>2 DEF NextCall, Typed, Returned
    <3>2. (Complete(r, c)' <=> Complete(r, c)) /\ Level(r, c)' = Level(r, c)
      BY <3>1 DEF Complete, Level, Dist
    <3>3. QED
      BY <1>2, <3>1, <3>2
  <2>3. QED
    BY <2>1, <2>2
<1>6. QED
  BY <1>3, <1>4, <1>5 DEF Step

(* Before the first call no message is on its way.                         *)
LEMMA InitIInv == Init => IInv
<1> SUFFICES ASSUME Init PROVE IInv
  OBVIOUS
<1>1. /\ 0 \in Index /\ "reduce" \in Phases /\ NRanks \in Nat /\ NRanks > 1
      /\ Calls \in Nat /\ Calls > 0
  BY RingAssumption DEF Index, Phases
<1>2. Typed
  <2>1. \A r \in Rank : Own(r) \in [Chunk -> [Rank -> Nat]]
    BY DEF Own
  <2>2. <<>> \in Seq(Messages)
    OBVIOUS
  <2>3. /\ pc \in [Rank -> {"iterate", "wait", "call", "done"}]
        /\ call \in [Rank -> Nat] /\ phase \in [Rank -> Phases] /\ i \in [Rank -> Index]
        /\ posted \in [Rank -> BOOLEAN] /\ buffer \in [Rank -> Messages \cup {Nothing}]
    BY <1>1 DEF Init
  <2>4. output \in [Rank -> [Chunk -> [Rank -> Nat]]] /\ chan \in [Rank -> Seq(Messages)]
    BY <2>1, <2>2 DEF Init
  <2>5. QED
    BY <2>3, <2>4 DEF Typed
<1>3. \A r \in Rank : /\ pc[r] = "iterate" /\ call[r] = 0 /\ phase[r] = "reduce" /\ i[r] = 0
                      /\ posted[r] = FALSE /\ buffer[r] = Nothing /\ chan[r] = <<>>
                      /\ output[r] = Own(r)
  BY DEF Init
<1>4. \A r \in Rank : At(r) = 0 /\ Sent(r) = 0 /\ Taken(r) = 0
  <2>1. Number(0, "reduce", 0) = 0
    BY TurnsOfCalls DEF Number
  <2>2. QED
    BY <1>3, <2>1 DEF At, Sent, Taken, Returned
<1>5. Orderly
  BY <1>1, <1>3 DEF Orderly, Returned
<1>6. Flow
  <2>1. ASSUME NEW s \in Rank
        PROVE  /\ Len(chan[s]) = Sent(s) - Taken(send_to(s))
               /\ \A j \in 1 .. Len(chan[s]) :
                    Numbered(chan[s][j], s, Taken(send_to(s)) + j - 1)
    <3>1. /\ chan[s] = <<>> /\ Sent(s) = 0 /\ Taken(send_to(s)) = 0
      BY <1>3, <1>4, Neighbours
    <3>2. Len(chan[s]) = 0
      BY <3>1
    <3>3. QED
      BY <3>1, <3>2
  <2>2. QED
    BY <2>1 DEF Flow
<1>7. Holding
  BY <1>3 DEF Holding
<1>8. Summed
  <2>1. ASSUME NEW r \in Rank, NEW c \in Chunk, NEW q \in Rank
        PROVE  output[r][c][q] = IF Complete(r, c) \/ Dist(r, q) <= Level(r, c) THEN 1 ELSE 0
    <3>1. ~Complete(r, c) /\ Level(r, c) = IF Dist(r, c) <= 0 THEN Dist(r, c) ELSE 0
      BY <1>3 DEF Complete, Level
    <3>2. /\ Dist(r, c) \in 0 .. NRanks - 1 /\ Dist(r, q) \in 0 .. NRanks - 1
          /\ Dist(r, q) = 0 <=> q = r
      BY Distances DEF Chunk
    <3>3. output[r][c][q] = IF q = r THEN 1 ELSE 0
      <4>1. output[r] = Own(r)
        BY <1>3
      <4>2. Own(r)[c][q] = IF q = r THEN 1 ELSE 0
        BY DEF Own
      <4>3. QED
        BY <4>1, <4>2
    <3>4. QED
      BY <1>1, <3>1, <3>2, <3>3
  <2>2. QED
    BY <2>1 DEF Summed
<1>9. Following
  <2>1. ASSUME NEW r \in Rank, NEW s \in Rank, s # r
        PROVE  Sent(s) + Dist(r, s) >= Taken(r) + 1
    <3>1. Dist(r, s) \in 0 .. NRanks - 1 /\ Dist(r, s) # 0
      BY <2>1, Distances
    <3>2. QED
      BY <1>1, <1>4, <3>1
  <2>2. QED
    BY <2>1 DEF Following
<1>10. QED
  BY <1>2, <1>5, <1>6, <1>7, <1>8, <1>9 DEF IInv

(* Every step keeps the invariant, part by part.                           *)
LEMMA StepIInv == IInv /\ [Next]_vars => IInv'
<1> SUFFICES ASSUME IInv, [Next]_vars PROVE IInv'
  OBVIOUS
<1>1. ASSUME NEW r \in Rank, Step(r) PROVE IInv'
  <2>1. Typed' /\ Orderly'
    BY <1>1, StepTyped, StepOrderly DEF IInv
  <2>2. Flow' /\ Holding'
    BY <1>1, StepFlow, StepHolding
  <2>3. Summed' /\ Following'
    BY <1>1, StepSummed, StepFollowing
  <2>4. QED
    BY <2>1, <2>2, <2>3 DEF IInv
<1>2. CASE UNCHANGED vars
  <2>1. /\ pc' = pc /\ call' = call /\ phase' = phase /\ i' = i /\ output' = output
        /\ posted' = posted /\ buffer' = buffer /\ chan' = chan
    BY <1>2 DEF vars
  <2>2. Typed'
    BY <2>1 DEF IInv, Typed
  <2>3. \A r \in Rank : /\ At(r)' = At(r) /\ Sent(r)' = Sent(r) /\ Taken(r)' = Taken(r)
                        /\ Returned(r)' <=> Returned(r)
    BY <2>1 DEF At, Sent, Taken, Returned, Number, Turns
  <2>4. Orderly'
    BY <2>1, <2>3 DEF IInv, Orderly
  <2>5. Flow'
    BY <2>1, <2>3, Neighbours DEF IInv, Flow
  <2>6. Holding'
    BY <2>1, <2>3 DEF IInv, Holding
  <2>7. Summed'
    <3>1. \A r \in Rank, c \in Chunk :
            (Complete(r, c)' <=> Complete(r, c)) /\ Level(r, c)' = Level(r, c)
      BY <2>1, <2>3 DEF Complete, Level, Dist
    <3>2. QED
      BY <2>1, <3>1 DEF IInv, Summed, Dist
  <2>8. Following'
    BY <2>3 DEF IInv, Following, Dist
  <2>9. QED
    BY <2>2, <2>4, <2>5, <2>6, <2>7, <2>8 DEF IInv
<1>3. QED
  BY <1>1, <1>2 DEF Next, Done

(* The invariant holds in every run.                                       *)
THEOREM Invariant == Spec => []IInv
BY InitIInv, StepIInv, PTL DEF Spec

-----------------------------------------------------------------------------
(* The sum, for every number of ranks and calls: when a call returns, each *)
(* rank's contribution is in every segment exactly once, whatever the      *)
(* library buffered and however far the neighbours have run ahead.         *)
THEOREM RingSums == Spec => []EveryContributionOnce
<1>1. IInv => EveryContributionOnce
  BY DEF IInv, Orderly, Summed, Complete, Returned, EveryContributionOnce
<1>2. QED
  BY <1>1, Invariant, PTL

(* With one tag for every message, what a receive takes is nevertheless    *)
(* the segment of this iteration, phase and call, and fits its buffer.     *)
THEOREM ReceivesExpected == Spec => []ExpectedSegment
<1>1. ASSUME IInv, NEW r \in Rank, buffer[r] # Nothing
      PROVE  /\ buffer[r].chunk = recv_chunk(r) /\ buffer[r].phase = phase[r]
             /\ buffer[r].call = call[r] /\ buffer[r].size <= segment_size(0)
  <2>1. pc[r] = "wait" /\ ~posted[r] /\ phase[r] \in Phases /\ i[r] \in Index
    BY <1>1 DEF IInv, Holding, Typed
  <2>2. /\ buffer[r] = Message(recv_from(r), call[r], phase[r], i[r])
        /\ recv_chunk(r) = Segment(recv_from(r), phase[r], i[r])
    BY <1>1, <2>1, HeldMessage DEF IInv
  <2>3. Segment(recv_from(r), phase[r], i[r]) \in Chunk
    BY <2>1, Segments
  <2>4. QED
    BY <2>2, <2>3, Sizes DEF Message
<1>2. IInv => ExpectedSegment
  BY <1>1 DEF ExpectedSegment
<1>3. QED
  BY <1>2, Invariant, PTL

-----------------------------------------------------------------------------
(* The refinement of Allreduce.  Calls a rank has entered.                 *)
Entered(r) == call[r] + (IF Begun(r) THEN 1 ELSE 0)

(* When a rank is through its last iteration, every other has at least     *)
(* begun the same call: the news has gone around the ring.                 *)
LEMMA AllEntered ==
  ASSUME IInv, NEW r \in Rank, Receive(r), ~More(r), phase[r] = "gather", NEW s \in Rank
  PROVE  Entered(s) >= call[r] + 1
<1> USE DEF IInv
<1>1. /\ pc[r] = "wait" /\ i[r] = NRanks - 2 /\ i[r] \in Index /\ call[r] \in Nat
      /\ NRanks \in Nat /\ NRanks > 1
  BY RingAssumption DEF Receive, Typed, More, Index
<1>2. CASE s = r
  BY <1>1, <1>2 DEF Entered, Begun
<1>3. CASE s # r
  <2>1. /\ call[s] \in Nat /\ phase[s] \in Phases /\ i[s] \in Index
        /\ At(s) \in Nat /\ Sent(s) \in Nat /\ Sent(s) <= At(s) + 1
    BY Counts DEF Typed
  <2>2. Taken(r) = (call[r] + 1) * Turns
    <3>1. Taken(r) = At(r) + 1 /\ At(r) = Number(call[r], "gather", NRanks - 2)
      BY <1>1, ReceiveCounts DEF At, Returned
    <3>2. QED
      BY <1>1, <3>1, Numbers DEF Phases
  <2> DEFINE k == call[r] * Turns
             l == call[s] * Turns
             t == Turns
  <2>3. /\ k \in Nat /\ l \in Nat /\ t = 2 * (NRanks - 1) /\ Taken(r) = k + t
        /\ call[s] < call[r] => k >= l + t
    BY <1>1, <2>1, <2>2, TurnsOfCalls
  <2>4. /\ ~Returned(s) => At(s) < l + t
        /\ Returned(s) => At(s) = l
        /\ ~Returned(s) /\ phase[s] = "reduce" /\ i[s] = 0 => At(s) = l
    BY <2>1, Numbers DEF At
  <2> HIDE DEF k, l, t
  <2>5. At(s) > k
    <3>1. Sent(s) + Dist(r, s) >= Taken(r) + 1 /\ Dist(r, s) \in 0 .. NRanks - 1
      BY <1>3, Distances DEF Following
    <3>2. QED
      BY <1>1, <2>1, <2>3, <3>1
  <2>6. ~(call[s] < call[r])
    BY <1>1, <2>1, <2>3, <2>4, <2>5
  <2>7. CASE call[s] = call[r]
    <3>1. k = l
      BY <2>7 DEF k, l
    <3>2. ~Returned(s) /\ ~(phase[s] = "reduce" /\ i[s] = 0)
      BY <2>3, <2>4, <2>5, <3>1
    <3>3. Begun(s)
      BY <2>1, <3>2, RingAssumption DEF Begun, Returned, Typed, Phases, Index
    <3>4. QED
      BY <1>1, <2>7, <3>3 DEF Entered
  <2>8. CASE call[s] > call[r]
    BY <1>1, <2>1, <2>8 DEF Entered
  <2>9. QED
    BY <1>1, <2>1, <2>6, <2>7, <2>8
<1>4. QED
  BY <1>2, <1>3

(* The first send of a call enters it, the end of its last iteration       *)
(* returns; every other step leaves both counts alone.                     *)
LEMMA StepCollective == IInv /\ [Next]_vars => [Collective!Next]_(Collective!vars)
<1> SUFFICES ASSUME IInv, [Next]_vars PROVE [Collective!Next]_(Collective!vars)
  OBVIOUS
<1> DEFINE E == [r \in Rank |-> Entered(r)]
<1> USE DEF IInv
<1>1. SUFFICES \/ E' = E /\ call' = call
               \/ \E r \in Rank :
                    \/ /\ E[r] = call[r] /\ E[r] < Calls
                       /\ E' = [E EXCEPT ![r] = @ + 1] /\ call' = call
                    \/ /\ call[r] < E[r] /\ \A s \in Rank : E[s] >= E[r]
                       /\ call' = [call EXCEPT ![r] = @ + 1] /\ E' = E
  BY DEF Collective!Next, Collective!vars, Collective!Enter, Collective!Return,
         Collective!Rank, Rank, Entered
<1>2. CASE UNCHANGED vars
  BY <1>2 DEF vars, Entered, Begun
<1>3. ASSUME NEW r \in Rank, Step(r)
      PROVE  \/ E' = E /\ call' = call
             \/ /\ E[r] = call[r] /\ E[r] < Calls
                /\ E' = [E EXCEPT ![r] = @ + 1] /\ call' = call
             \/ /\ call[r] < E[r] /\ \A s \in Rank : E[s] >= E[r]
                /\ call' = [call EXCEPT ![r] = @ + 1] /\ E' = E
  <2>1. \A s \in Rank \ {r} : Entered(s)' = Entered(s)
    BY <1>3, Others DEF Entered, Begun
  <2>2. call[r] \in Nat /\ phase[r] \in Phases /\ i[r] \in Index
    BY DEF Typed
  <2>3. ASSUME Entered(r)' = Entered(r) PROVE E' = E
    BY <2>1, <2>3
  <2>4. CASE Send(r)
    <3>1. /\ pc[r] = "iterate" /\ pc'[r] = "wait" /\ call' = call
          /\ call[r] < Calls
      BY <2>4 DEF Send, Typed, Orderly, Returned
    <3>2. Entered(r)' = call[r] + 1
      BY <3>1 DEF Entered, Begun
    <3>3. CASE Begun(r)
      BY <2>3, <3>1, <3>2, <3>3 DEF Entered
    <3>4. CASE ~Begun(r)
      <4>1. Entered(r) = call[r]
        BY <2>2, <3>4 DEF Entered
      <4>2. E' = [E EXCEPT ![r] = @ + 1]
        BY <2>1, <3>2, <4>1
      <4>3. QED
        BY <3>1, <4>1, <4>2
    <3>5. QED
      BY <3>3, <3>4
  <2>5. CASE Deliver(r)
    <3>1. call' = call /\ Entered(r)' = Entered(r)
      BY <2>5 DEF Deliver, Entered, Begun
    <3>2. QED
      BY <2>3, <3>1
  <2>6. CASE Receive(r)
    <3>1. pc[r] = "wait" /\ Entered(r) = call[r] + 1
      BY <2>6 DEF Receive, Entered, Begun
    <3>2. CASE More(r) \/ phase[r] = "reduce"
      <4>1. /\ pc'[r] = "iterate" /\ call' = call
            /\ i'[r] > 0 \/ phase'[r] = "gather"
        <5>1. CASE More(r)
          BY <2>2, <2>6, <5>1, RingAssumption DEF Receive, Typed, Index
        <5>2. CASE ~More(r)
          BY <2>6, <3>2, <5>2 DEF Receive, Typed
        <5>3. QED
          BY <5>1, <5>2
      <4>2. Entered(r)' = call[r] + 1
        BY <4>1 DEF Entered, Begun
      <4>3. QED
        BY <2>3, <3>1, <4>1, <4>2
    <3>3. CASE ~(More(r) \/ phase[r] = "reduce")
      <4>1. ~More(r) /\ phase[r] = "gather"
        BY <2>2, <3>3 DEF Phases
      <4>2. pc'[r] = "call" /\ call' = [call EXCEPT ![r] = @ + 1]
        BY <2>6, <4>1 DEF Receive, Typed
      <4>3. Entered(r)' = call[r] + 1
        BY <2>2, <4>2 DEF Entered, Begun, Typed
      <4>4. \A s \in Rank : E[s] >= E[r]
        BY <2>6, <3>1, <4>1, AllEntered
      <4>5. QED
        BY <2>2, <2>3, <3>1, <4>2, <4>3, <4>4
    <3>4. QED
      BY <3>2, <3>3
  <2>7. CASE NextCall(r)
    <3>1. /\ pc[r] = "call" /\ call' = call
          /\ \/ pc'[r] = "done"
             \/ pc'[r] = "iterate" /\ phase'[r] = "reduce" /\ i'[r] = 0
      BY <2>7 DEF NextCall, Typed, Orderly, Returned
    <3>2. Entered(r)' = Entered(r)
      BY <3>1 DEF Entered, Begun
    <3>3. QED
      BY <2>3, <3>1, <3>2
  <2>8. QED
    BY <1>3, <2>4, <2>5, <2>6, <2>7 DEF Step
<1>4. QED
  BY <1>2, <1>3 DEF Next, Done

(* The ring is as good a meeting point as MPI_Allreduce: for every number  *)
(* of ranks, no rank returns from a call before every rank is in it.       *)
THEOREM RingIsCollective == Spec => IsCollective
<1>1. Init => Collective!Init
  BY DEF Init, Collective!Init, Collective!Rank, Rank, Begun
<1>2. QED
  BY <1>1, StepCollective, Invariant, PTL DEF Spec, IsCollective, Collective!Spec
=============================================================================
