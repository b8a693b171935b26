--------------------------- MODULE Startup_proofs ---------------------------
(***************************************************************************)
(* Proofs about the start of a job, for any number of ranks, whatever job  *)
(* is started, however ranks share servers, and with anything that an      *)
(* earlier job may have left on them:                                      *)
(*                                                                         *)
(*   - the network's grid serves a lattice of any side with any number of  *)
(*     elements, and the ranks' random numbers stay apart;                 *)
(*   - the backends implement Predictor (invariant IInv);                  *)
(*   - all ranks start with the configuration, the counts and the shares   *)
(*     that rank 0 made (invariant SInv: rank 0's list conserves the       *)
(*     shares through drawing and shuffling, and each broadcast is on its  *)
(*     way or there);                                                      *)
(*   - a job ends before its start for known reasons only (Endings).       *)
(*                                                                         *)
(* The model's loops are recursive functions: what such a function         *)
(* computes is proved by induction over a set of good arguments (UpTo,     *)
(* TraceExists), which needs no operator as a parameter.                   *)
(***************************************************************************)
EXTENDS Startup, TLAPS, FiniteSetTheorems, FunctionTheorems, SequenceTheorems

(***************************************************************************)
(* The grid of VaeInput.                                                   *)
(***************************************************************************)
(* The padding is not negative: the grid is a multiple of 16 or one less,  *)
(* and at least as wide as the tilted lattice.                             *)
LEMMA GridHoldsLattice ==
  ASSUME NEW N \in Nat \ {0}
  PROVE  /\ PAD(N) \in Nat
         /\ Side(N) = 3 * N - 2
         /\ VAE_D(N) = 3 * N - 2 + 2 * PAD(N)
<1>1. Side(N) \in Nat /\ Side(N) = 3 * N - 2
  BY DEF Side, SHIFT
<1>2. PAD(N) \in Nat
  BY <1>1 DEF PAD
<1>3. QED
  BY <1>1, <1>2 DEF VAE_D

(* Every site has its voxel inside the grid. *)
LEMMA VoxelOnGrid ==
  ASSUME NEW N \in Nat \ {0}, NEW s \in Cell(N)
  PROVE  \A x \in 1 .. 3 : Voxel(N, s)[x] \in Coordinate(N)
<1>1. s[1] \in 0 .. N - 1 /\ s[2] \in 0 .. N - 1 /\ s[3] \in 0 .. N - 1
  BY DEF Cell
<1>2. PAD(N) \in Nat /\ VAE_D(N) = 3 * N - 2 + 2 * PAD(N)
  BY GridHoldsLattice
<1>3. /\ Voxel(N, s)[1] \in 0 .. VAE_D(N) - 1
      /\ Voxel(N, s)[2] \in 0 .. VAE_D(N) - 1
      /\ Voxel(N, s)[3] \in 0 .. VAE_D(N) - 1
  BY <1>1, <1>2 DEF Voxel, SHIFT
<1>4. QED
  BY <1>3 DEF Coordinate

(* A term common to two sums.                                              *)
LEMMA Cancel ==
  ASSUME NEW a \in Int, NEW b \in Int, NEW p \in Int, NEW q \in Int,
         a + p + q = b + p + q
  PROVE  a = b
OBVIOUS

(* No two sites have the same voxel: the sums of two coordinates give the  *)
(* site back.                                                              *)
LEMMA VoxelsDistinct ==
  ASSUME NEW N \in Nat \ {0}, NEW s \in Cell(N), NEW u \in Cell(N),
         Voxel(N, s) = Voxel(N, u)
  PROVE  s = u
<1>1. /\ s[1] \in Int /\ s[2] \in Int /\ s[3] \in Int /\ s = <<s[1], s[2], s[3]>>
      /\ u[1] \in Int /\ u[2] \in Int /\ u[3] \in Int /\ u = <<u[1], u[2], u[3]>>
  BY DEF Cell
<1>2. PAD(N) \in Nat /\ SHIFT(N) \in Int
  BY GridHoldsLattice DEF SHIFT
<1>3. /\ s[2] - s[1] + s[3] = u[2] - u[1] + u[3]
      /\ s[3] - s[2] + s[1] = u[3] - u[2] + u[1]
      /\ s[2] + s[1] - s[3] = u[2] + u[1] - u[3]
  <2>1. \A c : Voxel(N, c) = <<c[2] - c[1] + c[3] + SHIFT(N) + PAD(N),
                              c[3] - c[2] + c[1] + SHIFT(N) + PAD(N),
                              c[2] + c[1] - c[3] + SHIFT(N) + PAD(N)>>
    BY DEF Voxel
  <2>2. PICK a1 \in Int, a2 \in Int, a3 \in Int :
          a1 = s[2] - s[1] + s[3] /\ a2 = s[3] - s[2] + s[1] /\ a3 = s[2] + s[1] - s[3]
    BY <1>1
  <2>3. PICK b1 \in Int, b2 \in Int, b3 \in Int :
          b1 = u[2] - u[1] + u[3] /\ b2 = u[3] - u[2] + u[1] /\ b3 = u[2] + u[1] - u[3]
    BY <1>1
  <2>4. PICK p \in Int, q \in Int : p = SHIFT(N) /\ q = PAD(N)
    BY <1>2
  <2>5. <<a1 + p + q, a2 + p + q, a3 + p + q>> = <<b1 + p + q, b2 + p + q, b3 + p + q>>
    <3>1. Voxel(N, s) = <<a1 + p + q, a2 + p + q, a3 + p + q>>
      BY <2>1, <2>2, <2>4
    <3>2. Voxel(N, u) = <<b1 + p + q, b2 + p + q, b3 + p + q>>
      BY <2>1, <2>3, <2>4
    <3>3. QED
      BY <3>1, <3>2
  <2>6. a1 + p + q = b1 + p + q /\ a2 + p + q = b2 + p + q /\ a3 + p + q = b3 + p + q
    BY <2>5
  <2>7. a1 = b1 /\ a2 = b2 /\ a3 = b3
    BY <2>6, Cancel
  <2>8. QED
    BY <2>2, <2>3, <2>7
<1>4. s[1] = u[1] /\ s[2] = u[2] /\ s[3] = u[3]
  BY <1>1, <1>3
<1>5. QED
  BY <1>1, <1>4

(* For every side, number of elements and configuration: a network that    *)
(* gives back the input encode() made of a configuration gives decode()    *)
(* exactly that configuration, and no voxel is outside the grid.           *)
THEOREM NetworkSeesConfiguration ==
  ASSUME NEW N \in Nat \ {0}, NEW NE \in Nat \ {0},
         NEW A \in [Cell(N) -> 0 .. NE - 1], NEW s \in Cell(N)
  PROVE  /\ \A x \in 1 .. 3 : Voxel(N, s)[x] \in Coordinate(N)
         /\ Decoded(N, NE, inputConfig(N, A))[s] = {A[s]}
<1>1. \A t \in 0 .. NE - 1 :
        <<Voxel(N, s), t>> \in inputConfig(N, A) <=> t = A[s]
  <2> SUFFICES ASSUME NEW t \in 0 .. NE - 1
               PROVE  <<Voxel(N, s), t>> \in inputConfig(N, A) <=> t = A[s]
    OBVIOUS
  <2>1. ASSUME <<Voxel(N, s), t>> \in inputConfig(N, A) PROVE t = A[s]
    <3>1. PICK u \in Cell(N) : <<Voxel(N, s), t>> = <<Voxel(N, u), A[u]>>
      BY <2>1 DEF inputConfig
    <3>2. Voxel(N, s) = Voxel(N, u) /\ t = A[u]
      BY <3>1
    <3>3. QED
      BY <3>2, VoxelsDistinct
  <2>2. QED
    BY <2>1 DEF inputConfig
<1>2. A[s] \in 0 .. NE - 1
  OBVIOUS
<1>3. Decoded(N, NE, inputConfig(N, A))[s] = {A[s]}
  BY <1>1, <1>2 DEF Decoded
<1>4. QED
  BY <1>3, VoxelOnGrid

(***************************************************************************)
(* The generator of Rand: its shift registers lose nothing, so generators  *)
(* that start apart stay apart and none of them stops.                     *)
(***************************************************************************)
(* Two words with the same bits.                                           *)
LEMMA SameElements ==
  ASSUME NEW S, NEW a \in SUBSET S, NEW b \in SUBSET S,
         \A n \in S : n \in a <=> n \in b
  PROVE  a = b
BY Zenon

(* Either half of a step of j can be undone, position by position: the     *)
(* lowest 17 bits are not changed by the shift to the left, the highest 17 *)
(* not by the one to the right, and they decide the others.                *)
LEMMA LeftInjective ==
  ASSUME NEW a \in Word, NEW b \in Word, Xor(a, Shl(a, 17)) = Xor(b, Shl(b, 17))
  PROVE  a = b
<1>1. \A n \in Bit : (n \in Xor(a, Shl(a, 17))) <=> (n \in Xor(b, Shl(b, 17)))
  OBVIOUS
<1>2. \A n \in 0 .. 16 : n \in a <=> n \in b
  BY <1>1 DEF Xor, Shl, Bit, Word
<1>3. \A n \in 17 .. 31 : n \in a <=> n \in b
  BY <1>1, <1>2 DEF Xor, Shl, Bit, Word
<1>4. \A n \in Bit : n \in a <=> n \in b
  BY <1>2, <1>3 DEF Bit
<1>5. QED
  BY <1>4, SameElements DEF Word

(* A word is recovered from its exclusive or with itself shifted right:    *)
(* the upper bits are unchanged, and give the lower ones.                  *)
LEMMA RightInjective ==
  ASSUME NEW a \in Word, NEW b \in Word, Xor(a, Shr(a, 15)) = Xor(b, Shr(b, 15))
  PROVE  a = b
<1>1. \A n \in Bit : (n \in Xor(a, Shr(a, 15))) <=> (n \in Xor(b, Shr(b, 15)))
  OBVIOUS
<1>2. \A n \in 17 .. 31 : n \in a <=> n \in b
  BY <1>1 DEF Xor, Shr, Bit, Word
<1>3. \A n \in 2 .. 16 : n \in a <=> n \in b
  BY <1>1, <1>2 DEF Xor, Shr, Bit, Word
<1>4. \A n \in 0 .. 1 : n \in a <=> n \in b
  BY <1>1, <1>3 DEF Xor, Shr, Bit, Word
<1>5. \A n \in Bit : n \in a <=> n \in b
  BY <1>2, <1>3, <1>4 DEF Bit
<1>6. QED
  BY <1>5, SameElements DEF Word

(* So the whole step of j loses nothing.                                   *)
LEMMA NextJInjective ==
  ASSUME NEW a \in Word, NEW b \in Word, NextJ(a) = NextJ(b)
  PROVE  a = b
<1> DEFINE left(w) == Xor(w, Shl(w, 17))
<1>1. left(a) \in Word /\ left(b) \in Word
  BY DEF Xor, Shl, Word
<1>2. left(a) = left(b)
  <2>1. Xor(left(a), Shr(left(a), 15)) = Xor(left(b), Shr(left(b), 15))
    BY DEF NextJ
  <2> HIDE DEF left
  <2>2. QED
    BY <1>1, <2>1, RightInjective
<1>3. QED
  BY <1>2, LeftInjective

(* The same for k, which is kept to 31 bits. *)
Word31 == SUBSET (0 .. 30)

(* Shifted left, the lower bits are unchanged.                             *)
LEMMA Left31Injective ==
  ASSUME NEW a \in Word31, NEW b \in Word31,
         Xor(a, Shl(a, 18)) \ {31} = Xor(b, Shl(b, 18)) \ {31}
  PROVE  a = b
<1>1. \A n \in 0 .. 30 : (n \in Xor(a, Shl(a, 18))) <=> (n \in Xor(b, Shl(b, 18)))
  OBVIOUS
<1>2. \A n \in 0 .. 17 : n \in a <=> n \in b
  BY <1>1 DEF Xor, Shl, Bit, Word31
<1>3. \A n \in 18 .. 30 : n \in a <=> n \in b
  BY <1>1, <1>2 DEF Xor, Shl, Bit, Word31
<1>4. \A n \in 0 .. 30 : n \in a <=> n \in b
  BY <1>2, <1>3
<1>5. QED
  BY <1>4, SameElements DEF Word31

(* Shifted right, the upper ones.                                          *)
LEMMA Right31Injective ==
  ASSUME NEW a \in Word31, NEW b \in Word31, Xor(a, Shr(a, 13)) = Xor(b, Shr(b, 13))
  PROVE  a = b
<1>1. \A n \in 0 .. 30 : (n \in Xor(a, Shr(a, 13))) <=> (n \in Xor(b, Shr(b, 13)))
  OBVIOUS
<1>2. \A n \in 18 .. 30 : n \in a <=> n \in b
  BY <1>1 DEF Xor, Shr, Bit, Word31
<1>3. \A n \in 5 .. 17 : n \in a <=> n \in b
  BY <1>1, <1>2 DEF Xor, Shr, Bit, Word31
<1>4. \A n \in 0 .. 4 : n \in a <=> n \in b
  BY <1>1, <1>3 DEF Xor, Shr, Bit, Word31
<1>5. \A n \in 0 .. 30 : n \in a <=> n \in b
  BY <1>2, <1>3, <1>4
<1>6. QED
  BY <1>5, SameElements DEF Word31

(* So the whole step of k loses nothing.                                   *)
LEMMA NextKInjective ==
  ASSUME NEW a \in Word31, NEW b \in Word31
  PROVE  /\ NextK(a) \in Word31
         /\ NextK(a) = NextK(b) => a = b
<1> DEFINE left(w) == Xor(w, Shl(w, 18)) \ {31}
<1>1. left(a) \in Word31 /\ left(b) \in Word31
  <2>1. ASSUME NEW w \in Word31 PROVE left(w) \in Word31
    <3>1. ASSUME NEW n \in left(w) PROVE n \in 0 .. 30
      <4>1. n \in w \/ n \in 0 .. 31
        BY <3>1 DEF Xor, Shl, Bit
      <4>2. n # 31
        BY <3>1
      <4>3. n \in w => n \in 0 .. 30
        BY DEF Word31
      <4> HIDE DEF left
      <4>4. n \in 0 .. 31 => n \in 0 .. 30
        BY <4>2
      <4>5. QED
        BY <4>1, <4>3, <4>4
    <3> HIDE DEF left
    <3>2. QED
      BY <3>1 DEF Word31
  <2>2. QED
    BY <2>1
<1>2. /\ NextK(a) = Xor(left(a), Shr(left(a), 13))
      /\ NextK(b) = Xor(left(b), Shr(left(b), 13))
  BY DEF NextK
<1>3. left(a) = left(b) => a = b
  BY Left31Injective
<1> HIDE DEF left
<1>4. NextK(a) \in Word31
  BY <1>1, <1>2 DEF Xor, Shr, Word31, Bit
<1>5. QED
  BY <1>1, <1>2, <1>3, <1>4, Right31Injective

(* Ranks are seeded with i and j alike and k of their own (kisset()).      *)
(* Whatever words the seeds are: a call of kiss() keeps k to 31 bits,      *)
(* keeps two different k different and two equal j equal, and never turns  *)
(* a j that is not 0 into 0.  So ranks that have drawn equally many        *)
(* numbers never share a state, and j never gets stuck at 0.               *)
THEOREM StreamsStayApart ==
  ASSUME NEW s \in seed_type, NEW u \in seed_type,
         s.k \in Word31, u.k \in Word31
  PROVE  /\ kiss(s).k \in Word31
         /\ s.k # u.k => kiss(s).k # kiss(u).k
         /\ s.j = u.j <=> kiss(s).j = kiss(u).j
         /\ s.j # {} => kiss(s).j # {}
<1>1. s.j \in Word /\ u.j \in Word /\ {} \in Word
  BY DEF seed_type, Word
<1>2. kiss(s).k = NextK(s.k) /\ kiss(u).k = NextK(u.k)
  BY DEF kiss
<1>3. kiss(s).j = NextJ(s.j) /\ kiss(u).j = NextJ(u.j)
  BY DEF kiss
<1>4. NextJ({}) = {}
  BY DEF NextJ, Xor, Shl, Shr
<1>5. s.j = u.j <=> kiss(s).j = kiss(u).j
  BY <1>1, <1>3, NextJInjective
<1>6. s.j # {} => kiss(s).j # {}
  BY <1>1, <1>3, <1>4, NextJInjective
<1>7. QED
  BY <1>2, <1>5, <1>6, NextKInjective

(***************************************************************************)
(* The backends.                                                           *)
(***************************************************************************)
Networks == [base \in Base |-> File(base)]
Under(name, r) == store[Server(r)][Key(name, r)]
Early == {"args", "read", "load"}

Shape ==
  /\ job \in Jobs
  /\ nets \in [Rank -> {None, Networks}]
  /\ asked \in [Rank -> {None} \cup [base : Base, question : Rank \X Nat]]
  /\ reply = [r \in Rank |-> reply[r]]
  /\ call \in [Rank -> {"idle", "run", "take"}]
  /\ store = [s \in Servers |-> [k \in Names \X Rank |-> store[s][k]]]
  /\ pc = [r \in Rank |-> pc[r]]
  /\ posed \in [Rank -> 0 .. Questions]

(* Networks are loaded once and before the first question ...              *)
LoadedInTime ==
  \A r \in Rank : /\ pc[r] \in Early => nets[r] = None
                  /\ pc[r] \notin Early => nets[r] = Networks
                  /\ nets[r] = None => asked[r] = None /\ call[r] = "idle"

(* ... and stay under their keys while all ranks write under theirs.       *)
ModelsKept == \A r \in Rank : nets[r] # None =>
                \A base \in Base : Under(base, r) = File(base)

QuestionsNumbered == \A r \in Rank : asked[r] # None =>
                       asked[r].question = <<r, posed[r] - 1>>

(* The tensors of a call are the caller's from the question to the answer. *)
TensorsKept == \A r \in Rank :
  /\ call[r] = "idle" /\ asked[r] # None => reply[r] # None
  /\ call[r] # "idle" => asked[r] # None /\ reply[r] = None
  /\ call[r] = "run" => Under(Input(asked[r].base), r) = asked[r]
  /\ call[r] = "take" => Under(Output(asked[r].base), r) =
                           [by |-> File(asked[r].base), to |-> asked[r]]

IInv == Shape /\ LoadedInTime /\ ModelsKept /\ QuestionsNumbered /\ TensorsKept

(* A loaded network is not the absence of one.                             *)
LEMMA NetworksNotNone == ASSUME job \in Jobs PROVE Networks # None
BY NoneAssumption DEF Networks, File

(* Nor is a question, or the answer to it.                                 *)
LEMMA QuestionNotNone ==
  ASSUME job \in Jobs, NEW b \in Base, NEW r \in Rank, NEW q \in 0 .. Questions - 1
  PROVE  /\ [base |-> b, question |-> <<r, q>>] # None
         /\ [by |-> File(b), to |-> [base |-> b, question |-> <<r, q>>]] # None
BY NoneAssumption DEF File

(* Tensors that one rank puts under its keys leave those of the others.    *)
LEMMA Write ==
  ASSUME Shape, NEW r \in Rank, NEW name \in Names, NEW value, job' = job,
         store' = [store EXCEPT ![Server(r)][Key(name, r)] = value]
  PROVE  /\ (store = [s \in Servers |-> [k \in Names \X Rank |-> store[s][k]]])'
         /\ Under(name, r)' = value
         /\ \A q \in Rank, n \in Names :
              <<n, q>> # <<name, r>> => Under(n, q)' = Under(n, q)
<1>1. Server(r) \in Servers /\ Servers' = Servers
  BY DEF Servers, Server
<1>2. \A q \in Rank : Server(q)' = Server(q) /\ Server(q) \in Servers
  BY DEF Servers, Server
<1>3. Key(name, r) \in Names \X Rank /\ \A q \in Rank, n \in Names : Key(n, q) \in Names \X Rank
  BY DEF Key
<1>4. store = [s \in Servers |-> [k \in Names \X Rank |-> store[s][k]]]
  BY DEF Shape
<1>5. store' = [s \in Servers |-> [k \in Names \X Rank |->
                  IF s = Server(r) /\ k = Key(name, r) THEN value ELSE store[s][k]]]
  BY <1>1, <1>3, <1>4
<1>6. \A s \in Servers, k \in Names \X Rank :
        store'[s][k] = IF s = Server(r) /\ k = Key(name, r) THEN value ELSE store[s][k]
  BY <1>5
<1>7. (store = [s \in Servers |-> [k \in Names \X Rank |-> store[s][k]]])'
  BY <1>1, <1>5, <1>6
<1>8. Under(name, r)' = value
  BY <1>1, <1>2, <1>3, <1>6 DEF Under, Key
<1>9. \A q \in Rank, n \in Names : <<n, q>> # <<name, r>> => Under(n, q)' = Under(n, q)
  BY <1>2, <1>3, <1>6 DEF Under, Key
<1>10. QED
  BY <1>7, <1>8, <1>9

(* The keys of inputs, outputs and networks do not collide.                *)
LEMMA KeysApart == /\ Base \subseteq Names
                /\ \A b \in Base : /\ Input(b) \in Names /\ Output(b) \in Names
                                   /\ Input(b) \notin Base /\ Output(b) \notin Base
BY DEF Base, Names, Input, Output

(* A step that touches neither networks nor calls.                         *)
Aside == /\ UNCHANGED <<job, calls, posed>>
         /\ pc' = [r \in Rank |-> pc'[r]]
         /\ \A q \in Rank : pc'[q] \in Early <=> pc[q] \in Early

(* All other steps of the start leave the backend alone.                   *)
LEMMA MostStepsAside ==
  ASSUME IInv, NEW r \in Rank, Step(r),
         ~LoadModels(r), ~Pose(r), ~RunModel(r), ~Answered(r)
  PROVE  Aside
<1> USE DEF Aside, At, Goto, End, IInv, Shape, Early
<1>1. CASE Usage(r) \/ ReadFails(r) \/ LoadOverruns(r) \/ LoadFails(r) \/ ini_TDies(r)
           \/ ini_sysThrows(r) \/ ini_sysDies(r) \/ ini_sysOverruns(r)
           \/ FillFails(r) \/ PlaceOverruns(r) \/ ini_aposOverruns(r)
           \/ Uncaught(r) \/ OutputOverrun(r)
  BY <1>1 DEF Usage, ReadFails, LoadOverruns, LoadFails, ini_TDies, ini_sysThrows,
              ini_sysDies, ini_sysOverruns, CouplingRead, FillFails, PlaceOverruns,
              ini_aposOverruns, Uncaught, OutputOverrun
<1>2. CASE Seeding(r)
  BY <1>2 DEF Seeding
<1>3. CASE Read(r)
  BY <1>3 DEF Read
<1>4. CASE ini_T(r)
  BY <1>4 DEF ini_T
<1>5. CASE ini_sys(r)
  BY <1>5 DEF ini_sys, CouplingRead
<1>6. CASE Fill(r)
  BY <1>6 DEF Fill
<1>7. CASE Draw(r)
  BY <1>7 DEF Draw, Drawing
<1>8. CASE Place(r)
  BY <1>8 DEF Place
<1>9. CASE Broadcast(r)
  BY <1>9 DEF Broadcast, AfterBroadcast
<1>10. CASE ReceiveAtom(r)
  BY <1>10 DEF ReceiveAtom, Received, AfterBroadcast
<1>11. CASE ReceiveNT(r)
  BY <1>11 DEF ReceiveNT, Received, AfterBroadcast
<1>12. CASE ini_apos(r)
  BY <1>12 DEF ini_apos
<1>13. QED
  BY <1>1, <1>2, <1>3, <1>4, <1>5, <1>6, <1>7, <1>8, <1>9, <1>10, <1>11, <1>12
  DEF Step, ini_alloy

(* Such steps keep the invariant.                                          *)
LEMMA SameBackend ==
  ASSUME IInv, Aside
  PROVE  IInv'
<1> USE DEF Aside
<1>1. /\ UNCHANGED <<job, nets, asked, reply, call, store, posed>>
      /\ Networks' = Networks /\ Servers' = Servers
      /\ \A r \in Rank : Server(r)' = Server(r)
      /\ \A b \in Base : File(b)' = File(b)
  BY DEF calls, Networks, File, Servers, Server
<1>2. \A n \in Names, r \in Rank : Under(n, r)' = Under(n, r)
  BY <1>1 DEF Under, Key
<1>3. Shape'
  BY <1>1 DEF IInv, Shape
<1>4. LoadedInTime'
  BY <1>1 DEF IInv, LoadedInTime
<1>5. ModelsKept'
  BY <1>1, <1>2, KeysApart DEF IInv, ModelsKept
<1>6. QuestionsNumbered'
  BY <1>1 DEF IInv, QuestionsNumbered
<1>7. TensorsKept'
  <2>1. \A r \in Rank : asked[r] # None => asked[r].base \in Base
    BY DEF IInv, Shape
  <2>2. QED
    BY <1>1, <1>2, <2>1, KeysApart DEF IInv, TensorsKept
<1>8. QED
  BY <1>3, <1>4, <1>5, <1>6, <1>7 DEF IInv

(***************************************************************************)
(* The four steps that Predictor sees or that lead up to one it sees.      *)
(***************************************************************************)
(* Loading the networks is one step of Predictor.                          *)
LEMMA LoadStep ==
  ASSUME IInv, NEW r \in Rank, LoadModels(r)
  PROVE  IInv' /\ P!load(r)
<1>1. /\ pc[r] = "load" /\ pc' = [pc EXCEPT ![r] = "ini_T"]
      /\ nets' = [nets EXCEPT ![r] = Networks]
      /\ store' = [store EXCEPT ![Server(r)] =
                     [k \in DOMAIN @ |-> IF k \in {Key(base, r) : base \in Base}
                                         THEN File(k[1]) ELSE @[k]]]
      /\ UNCHANGED <<job, asked, reply, call, posed>>
  BY DEF LoadModels, load, Networks, At, Goto
<1>2. nets[r] = None /\ asked[r] = None /\ call[r] = "idle"
  BY <1>1 DEF IInv, LoadedInTime, Early
<1>3. Networks # None /\ Networks' = Networks /\ \A b \in Base : File(b)' = File(b)
  BY <1>1, NetworksNotNone DEF IInv, Shape, Networks, File
<1>4. /\ Servers' = Servers
      /\ \A q \in Rank : Server(q)' = Server(q) /\ Server(q) \in Servers
  BY <1>1 DEF Servers, Server
<1>5. store = [s \in Servers |-> [k \in Names \X Rank |-> store[s][k]]]
  BY DEF IInv, Shape
<1>6. store' = [s \in Servers |-> [k \in Names \X Rank |->
                  IF s = Server(r) /\ k \in {Key(base, r) : base \in Base}
                  THEN File(k[1]) ELSE store[s][k]]]
  BY <1>1, <1>4, <1>5
<1>7. \A s \in Servers, k \in Names \X Rank :
        store'[s][k] = IF s = Server(r) /\ k \in {Key(base, r) : base \in Base}
                       THEN File(k[1]) ELSE store[s][k]
  BY <1>6
<1>8. \A b \in Base : Under(b, r)' = File(b)
  BY <1>4, <1>7, KeysApart DEF Under, Key
<1>9. \A q \in Rank, n \in Names : q # r => Under(n, q)' = Under(n, q)
  BY <1>4, <1>7 DEF Under, Key
<1>10. Shape'
  <2>1. (store = [s \in Servers |-> [k \in Names \X Rank |-> store[s][k]]])'
    BY <1>4, <1>6, <1>7
  <2>2. QED
    BY <1>1, <1>3, <2>1 DEF IInv, Shape
<1>11. LoadedInTime'
  BY <1>1, <1>2, <1>3 DEF IInv, Shape, LoadedInTime, Early
<1>12. ModelsKept'
  BY <1>1, <1>3, <1>8, <1>9, KeysApart DEF IInv, Shape, ModelsKept
<1>13. QuestionsNumbered'
  BY <1>1 DEF IInv, QuestionsNumbered
<1>14. TensorsKept'
  <2>1. \A q \in Rank : asked[q] # None => asked[q].base \in Base
    BY DEF IInv, Shape
  <2>2. QED
    BY <1>1, <1>2, <1>3, <1>9, <2>1, KeysApart DEF IInv, TensorsKept
<1>15. P!load(r)
  BY <1>1, <1>2, <1>3 DEF P!load, IInv, Shape
<1>16. QED
  BY <1>10, <1>11, <1>12, <1>13, <1>14, <1>15 DEF IInv

(* So is handing the backend a question.                                   *)
LEMMA AskStep ==
  ASSUME IInv, NEW r \in Rank, Pose(r)
  PROVE  IInv' /\ P!Ask(r)
<1>1. PICK b \in Base : Put(r, b, <<r, posed[r]>>)
  BY DEF Pose, Base
<1> DEFINE question == [base |-> b, question |-> <<r, posed[r]>>]
<1>2. /\ pc[r] = "ready" /\ call[r] = "idle" /\ posed[r] \in 0 .. Questions - 1
      /\ call' = [call EXCEPT ![r] = "run"]
      /\ asked' = [asked EXCEPT ![r] = question]
      /\ reply' = [reply EXCEPT ![r] = None]
      /\ posed' = [posed EXCEPT ![r] = @ + 1]
      /\ UNCHANGED <<job, nets, pc>>
  <2>1. /\ At(r, "ready") /\ posed[r] < Questions
        /\ posed' = [posed EXCEPT ![r] = @ + 1]
        /\ UNCHANGED <<job, pc>>
    BY DEF Pose
  <2>2. posed[r] \in 0 .. Questions /\ Questions \in Nat
    BY NoneAssumption DEF IInv, Shape
  <2>3. posed[r] \in 0 .. Questions - 1
    BY <2>1, <2>2
  <2>4. QED
    BY <1>1, <2>1, <2>3 DEF Put, At
<1>3. asked'[r] = question
  BY <1>2 DEF IInv, Shape
<1>4. store' = [store EXCEPT ![Server(r)][Key(Input(b), r)] = question]
  BY <1>1, <1>3 DEF Put
<1>5. question # None
  BY <1>2, QuestionNotNone DEF IInv, Shape
<1>6. nets[r] = Networks /\ nets[r] # None
  BY <1>2, NetworksNotNone DEF IInv, Shape, LoadedInTime, Early
<1>7. /\ Input(b) \in Names /\ Input(b) \notin Base
      /\ Shape /\ job' = job
  BY <1>2, KeysApart DEF IInv
<1> HIDE DEF question
<1>8. /\ (store = [s \in Servers |-> [k \in Names \X Rank |-> store[s][k]]])'
      /\ Under(Input(b), r)' = question
      /\ \A q \in Rank, n \in Names :
           <<n, q>> # <<Input(b), r>> => Under(n, q)' = Under(n, q)
  BY <1>4, <1>7, Write
<1>9. Networks' = Networks /\ \A base \in Base : File(base)' = File(base)
  BY <1>2 DEF Networks, File
<1>10. question.base = b /\ question.question = <<r, posed[r]>>
       /\ question \in [base : Base, question : Rank \X Nat]
  BY <1>2 DEF question
<1>11. Shape'
  <2>1. posed' \in [Rank -> 0 .. Questions]
    <3>1. posed[r] + 1 \in 0 .. Questions
      BY <1>2, NoneAssumption
    <3>2. QED
      BY <1>2, <3>1 DEF IInv, Shape
  <2>2. asked' \in [Rank -> {None} \cup [base : Base, question : Rank \X Nat]]
    BY <1>2, <1>10 DEF IInv, Shape
  <2>3. QED
    BY <1>2, <1>8, <1>9, <2>1, <2>2 DEF IInv, Shape
<1>12. LoadedInTime'
  BY <1>2, <1>6, <1>9 DEF IInv, Shape, LoadedInTime
<1>13. ModelsKept'
  BY <1>2, <1>7, <1>8, <1>9, KeysApart DEF IInv, ModelsKept
<1>14. QuestionsNumbered'
  BY <1>2, <1>3, <1>10 DEF IInv, Shape, QuestionsNumbered
<1>15. TensorsKept'
  <2>1. \A q \in Rank : asked[q] # None => asked[q].base \in Base
    BY DEF IInv, Shape
  <2>2. \A q \in Rank : q # r =>
          /\ asked'[q] = asked[q] /\ reply'[q] = reply[q] /\ call'[q] = call[q]
          /\ \A n \in Names : Under(n, q)' = Under(n, q)
    BY <1>2, <1>8 DEF IInv, Shape
  <2>3. call'[r] = "run" /\ reply'[r] = None
    BY <1>2 DEF IInv, Shape
  <2>4. Under(Input(asked[r].base), r)' = asked'[r]
    BY <1>3, <1>8, <1>10 DEF Input
  <2>5. QED
    BY <1>3, <1>5, <1>9, <2>1, <2>2, <2>3, <2>4, KeysApart, ZenonT(60) DEF IInv, TensorsKept
<1>16. P!Ask(r)
  <2>1. asked[r] # None => reply[r] # None
    BY <1>2 DEF IInv, TensorsKept
  <2>2. asked'[r] # asked[r]
    <3>1. CASE asked[r] = None
      BY <1>3, <1>5, <3>1
    <3>2. CASE asked[r] # None
      BY <1>2, <1>3, <1>10, <3>2 DEF IInv, QuestionsNumbered
    <3>3. QED
      BY <3>1, <3>2
  <2>3. QED
    BY <1>2, <1>3, <1>6, <2>1, <2>2 DEF P!Ask
<1>17. QED
  BY <1>11, <1>12, <1>13, <1>14, <1>15, <1>16 DEF IInv

(* Running the network changes nothing that Predictor sees.                *)
LEMMA RunStep ==
  ASSUME IInv, NEW r \in Rank, RunModel(r)
  PROVE  IInv' /\ UNCHANGED <<nets, asked, reply>>
<1> DEFINE base == asked[r].base
           answer == [by |-> File(base), to |-> asked[r]]
<1>1. /\ call[r] = "run" /\ call' = [call EXCEPT ![r] = "take"]
      /\ UNCHANGED <<job, nets, asked, reply, posed, pc>>
  BY DEF RunModel, Run
<1>2. /\ asked[r] # None /\ reply[r] = None /\ nets[r] # None
      /\ Under(Input(base), r) = asked[r]
  BY <1>1 DEF IInv, TensorsKept, LoadedInTime
<1>3. base \in Base /\ \A q \in Rank : asked[q] # None => asked[q].base \in Base
  BY <1>2 DEF IInv, Shape
<1>4. Under(base, r) = File(base)
  BY <1>2, <1>3 DEF IInv, ModelsKept
<1>5. store' = [store EXCEPT ![Server(r)][Key(Output(base), r)] = answer]
  BY <1>2, <1>4 DEF RunModel, Run, Under
<1>6. /\ Output(base) \in Names /\ Output(base) \notin Base
      /\ Shape /\ job' = job
  BY <1>1, <1>3, KeysApart DEF IInv
<1> HIDE DEF answer
<1>7. /\ (store = [s \in Servers |-> [k \in Names \X Rank |-> store[s][k]]])'
      /\ Under(Output(base), r)' = answer
      /\ \A q \in Rank, n \in Names :
           <<n, q>> # <<Output(base), r>> => Under(n, q)' = Under(n, q)
  BY <1>1, <1>5, <1>6, Write
<1>8. Networks' = Networks /\ \A b \in Base : File(b)' = File(b)
  BY <1>1 DEF Networks, File
<1>9. Shape'
  BY <1>1, <1>7, <1>8 DEF IInv, Shape
<1>10. LoadedInTime'
  BY <1>1, <1>2, <1>8 DEF IInv, Shape, LoadedInTime
<1>11. ModelsKept'
  BY <1>1, <1>6, <1>7, <1>8, KeysApart DEF IInv, ModelsKept
<1>12. QuestionsNumbered'
  BY <1>1 DEF IInv, QuestionsNumbered
<1>13. TensorsKept'
  <2>1. \A q \in Rank : q # r => /\ call'[q] = call[q]
                                /\ \A n \in Names : Under(n, q)' = Under(n, q)
    BY <1>1, <1>7 DEF IInv, Shape
  <2>2. call'[r] = "take"
    BY <1>1 DEF IInv, Shape
  <2>3. Under(Output(asked[r].base), r)' = [by |-> File(asked[r].base), to |-> asked[r]]'
    BY <1>1, <1>3, <1>7, <1>8 DEF answer, Output
  <2>4. QED
    BY <1>1, <1>2, <1>3, <1>8, <2>1, <2>2, <2>3, KeysApart DEF IInv, TensorsKept
<1>14. QED
  BY <1>1, <1>9, <1>10, <1>11, <1>12, <1>13 DEF IInv

(* The answer that is read is that to the question asked.                  *)
LEMMA ReplyStep ==
  ASSUME IInv, NEW r \in Rank, Answered(r)
  PROVE  IInv' /\ P!Reply(r)
<1> DEFINE base == asked[r].base
           answer == [by |-> File(base), to |-> asked[r]]
<1>1. /\ call[r] = "take" /\ call' = [call EXCEPT ![r] = "idle"]
      /\ reply' = [reply EXCEPT ![r] = IF Out(r).by.size = "fits" THEN Out(r) ELSE Misread]
      /\ UNCHANGED <<job, nets, asked, store, posed, pc>>
  BY DEF Answered, Take
<1>2. /\ asked[r] # None /\ reply[r] = None /\ nets[r] # None
      /\ Out(r) = answer
  BY <1>1 DEF IInv, TensorsKept, LoadedInTime, Out, Under
<1>3. base \in Base /\ \A q \in Rank : asked[q] # None => asked[q].base \in Base
  BY <1>2 DEF IInv, Shape
<1>4. reply'[r] = IF File(base).size = "fits" THEN answer ELSE Misread
  BY <1>1, <1>2 DEF IInv, Shape
<1>5. answer # None
  <2>1. /\ asked[r].question = <<r, posed[r] - 1>> /\ posed[r] \in 0 .. Questions
        /\ asked[r] \in [base : Base, question : Rank \X Nat] /\ Questions \in Nat
    BY <1>2, NoneAssumption DEF IInv, Shape, QuestionsNumbered
  <2>2. posed[r] - 1 \in 0 .. Questions - 1
    BY <2>1
  <2>3. asked[r] = [base |-> base, question |-> <<r, posed[r] - 1>>]
    BY <2>1
  <2>4. QED
    BY <1>3, <2>2, <2>3, QuestionNotNone DEF IInv, Shape
<1>6. reply'[r] # None
  BY <1>4, <1>5, NoneAssumption
<1>7. /\ Networks' = Networks /\ Servers' = Servers
      /\ \A b \in Base : File(b)' = File(b)
      /\ \A q \in Rank, n \in Names : Under(n, q)' = Under(n, q)
  BY <1>1 DEF Networks, File, Servers, Server, Under, Key
<1>8. Shape'
  BY <1>1, <1>7 DEF IInv, Shape
<1>9. LoadedInTime'
  BY <1>1, <1>2, <1>7 DEF IInv, Shape, LoadedInTime
<1>10. ModelsKept'
  BY <1>1, <1>7, KeysApart DEF IInv, ModelsKept
<1>11. QuestionsNumbered'
  BY <1>1 DEF IInv, QuestionsNumbered
<1>12. TensorsKept'
  <2>1. \A q \in Rank : q # r => call'[q] = call[q] /\ reply'[q] = reply[q]
    BY <1>1 DEF IInv, Shape
  <2>2. call'[r] = "idle"
    BY <1>1 DEF IInv, Shape
  <2>3. QED
    BY <1>1, <1>3, <1>6, <1>7, <2>1, <2>2, KeysApart, ZenonT(60) DEF IInv, TensorsKept
<1>13. P!Reply(r)
  <2>1. nets[r][base] = File(base)
    BY <1>2, <1>3 DEF IInv, Shape, Networks
  <2>2. reply'[r] \in P!Answer(r)
    BY <1>4, <2>1 DEF P!Answer
  <2>3. reply' = [reply EXCEPT ![r] = reply'[r]]
    BY <1>1 DEF IInv, Shape
  <2>4. QED
    BY <1>1, <1>2, <2>2, <2>3 DEF P!Reply
<1>14. QED
  BY <1>8, <1>9, <1>10, <1>11, <1>12, <1>13 DEF IInv

(* The start of the job is one of Predictor ...                            *)
LEMMA BackendInit == ASSUME Init PROVE IInv /\ P!Init
<1>1. Shape
  <2>1. store = [s \in Servers |-> [k \in Names \X Rank |-> job.leftover]]
    BY DEF Init, InitBackend
  <2>2. store = [s \in Servers |-> [k \in Names \X Rank |-> store[s][k]]]
    BY <2>1
  <2>3. QED
    BY <2>2, NoneAssumption DEF Init, InitBackend, Shape
<1>2. QED
  BY <1>1 DEF Init, InitBackend, IInv, LoadedInTime, ModelsKept,
                    QuestionsNumbered, TensorsKept, Early, P!Init

(* ... and so is every step, or none.                                      *)
LEMMA BackendNext ==
  ASSUME IInv, [Next]_vars
  PROVE  IInv' /\ [P!Next]_<<nets, asked, reply>>
<1>1. CASE UNCHANGED vars
  <2>1. Aside
    BY <1>1 DEF Aside, vars, IInv, Shape
  <2>2. QED
    BY <2>1, SameBackend DEF Aside, calls
<1>2. ASSUME NEW r \in Rank, Step(r)
      PROVE  IInv' /\ [P!Next]_<<nets, asked, reply>>
  <2>1. CASE LoadModels(r)
    BY <2>1, LoadStep DEF P!Next
  <2>2. CASE Pose(r)
    BY <2>2, AskStep DEF P!Next
  <2>3. CASE RunModel(r)
    BY <2>3, RunStep
  <2>4. CASE Answered(r)
    BY <2>4, ReplyStep DEF P!Next
  <2>5. CASE ~LoadModels(r) /\ ~Pose(r) /\ ~RunModel(r) /\ ~Answered(r)
    <3>1. Aside
      BY <1>2, <2>5, MostStepsAside
    <3>2. QED
      BY <3>1, SameBackend DEF Aside, calls
  <2>6. QED
    BY <2>1, <2>2, <2>3, <2>4, <2>5
<1>3. QED
  BY <1>1, <1>2 DEF Next

(***************************************************************************)
(* Every question is answered by the asker's own network and from its own  *)
(* input (src/src/backend/torch_backend.cc, tf_backend.cc and              *)
(* smartredis_backend.cc behind inference_backend.hpp): the steps of the   *)
(* program are steps of Predictor, or none.                                *)
(***************************************************************************)
THEOREM BackendsImplementPredictor == Spec => AnswersOwnQuestions
<1>1. Init => IInv /\ P!Init
  BY BackendInit
<1>2. IInv /\ [Next]_vars => IInv' /\ [P!Next]_<<nets, asked, reply>>
  BY BackendNext
<1>3. QED
  BY <1>1, <1>2, PTL DEF Spec, AnswersOwnQuestions, P!Spec

(* The tensors of a call are the caller's, at any time.                    *)
LEMMA BackendConsistent == Spec => []IInv
<1>1. Init => IInv
  BY BackendInit
<1>2. IInv /\ [Next]_vars => IInv'
  BY BackendNext
<1>3. QED
  BY <1>1, <1>2, PTL DEF Spec
(***************************************************************************)
(* Recursion: what the functions that are defined by it compute.           *)
(***************************************************************************)
(* Induction up to a bound, with a set in place of a predicate.            *)
LEMMA UpTo ==
  ASSUME NEW n \in Nat, NEW Good, 0 \in Good,
         \A i \in 1 .. n : i - 1 \in Good => i \in Good
  PROVE  0 .. n \subseteq Good
<1> DEFINE Bad == {i \in 0 .. n : i \notin Good}
<1>1. SUFFICES ASSUME Bad # {} PROVE FALSE
  OBVIOUS
<1>2. Bad \in SUBSET Nat
  OBVIOUS
<1>3. PICK i \in Bad : \A j \in Bad : <<j, i>> \notin OpToRel(<, Nat)
  <2> HIDE DEF Bad
  <2>1. QED
    BY <1>1, <1>2, WFMin, NatLessThanWellFounded, Zenon
<1>4. \A j \in Bad : ~(j < i)
  BY <1>2, <1>3, Zenon DEF OpToRel
<1>5. i \in 1 .. n
  <2>1. i \in 0 .. n /\ i # 0
    BY <1>3
  <2>2. QED
    BY <2>1
<1>6. i - 1 \in Good
  BY <1>4, <1>5
<1>7. QED
  BY <1>3, <1>5, <1>6

(* A function on 0 .. n can be defined by its first value and by each      *)
(* value from the one before.                                              *)
IsTrace(g, a, step, m) == g[0] = a /\ \A i \in 1 .. m : g[i] = step[<<g[i - 1], i>>]

(* So there is such a function for every first value and every step.       *)
LEMMA TraceExists ==
  ASSUME NEW S, NEW a \in S, NEW n \in Nat, NEW step \in [S \X (1 .. n) -> S]
  PROVE  \E g \in [0 .. n -> S] : IsTrace(g, a, step, n)
<1> DEFINE Good == {m \in 0 .. n : \E g \in [0 .. m -> S] : IsTrace(g, a, step, m)}
<1>1. 0 \in Good
  <2> DEFINE g == [i \in 0 .. 0 |-> a]
  <2>1. g \in [0 .. 0 -> S] /\ IsTrace(g, a, step, 0)
    BY DEF IsTrace
  <2>2. QED
    BY <2>1
<1>2. ASSUME NEW m \in 1 .. n, m - 1 \in Good PROVE m \in Good
  <2>1. PICK g \in [0 .. m - 1 -> S] : IsTrace(g, a, step, m - 1)
    BY <1>2
  <2> DEFINE h == [i \in 0 .. m |-> IF i = m THEN step[<<g[m - 1], m>>] ELSE g[i]]
  <2>2. g[m - 1] \in S /\ <<g[m - 1], m>> \in S \X (1 .. n)
    BY <2>1
  <2>3. step[<<g[m - 1], m>>] \in S
    BY <2>2
  <2>4. h \in [0 .. m -> S]
    BY <2>1, <2>3
  <2>5. h[0] = a
    BY <2>1 DEF IsTrace
  <2>6. ASSUME NEW i \in 1 .. m PROVE h[i] = step[<<h[i - 1], i>>]
    <3>1. h[i - 1] = g[i - 1]
      <4>1. i - 1 \in 0 .. m /\ i - 1 # m
        OBVIOUS
      <4>2. QED
        BY <4>1
    <3>2. CASE i = m
      <4>1. i \in 0 .. m
        OBVIOUS
      <4>2. h[i] = step[<<g[m - 1], m>>]
        BY <3>2, <4>1
      <4>3. QED
        BY <3>1, <3>2, <4>2
    <3>3. CASE i # m
      <4>1. i \in 1 .. m - 1 /\ i \in 0 .. m
        BY <3>3
      <4>2. g[i] = step[<<g[i - 1], i>>]
        BY <2>1, <4>1 DEF IsTrace
      <4>3. h[i] = g[i]
        BY <3>3, <4>1
      <4>4. QED
        BY <3>1, <4>2, <4>3
    <3>4. QED
      BY <3>2, <3>3
  <2> HIDE DEF h
  <2>7. IsTrace(h, a, step, m)
    BY <2>5, <2>6 DEF IsTrace
  <2>8. QED
    BY <2>4, <2>7
<1> HIDE DEF Good
<1>3. 0 .. n \subseteq Good
  BY <1>1, <1>2, UpTo
<1>4. n \in Good
  BY <1>3
<1>5. QED
  BY <1>4 DEF Good

(***************************************************************************)
(* Counting.                                                               *)
(***************************************************************************)
Count(a, S, v) == Cardinality({x \in S : a[x] = v})

(* A list read in another order holds each value as often.                 *)
LEMMA CountAlong ==
  ASSUME NEW S, NEW T, IsFiniteSet(S), NEW f \in Bijection(S, T),
         NEW a, NEW b, \A x \in S : b[x] = a[f[x]], NEW v
  PROVE  Count(b, S, v) = Count(a, T, v)
<1> DEFINE Left == {x \in S : b[x] = v}
           Right == {y \in T : a[y] = v}
           h == [x \in Left |-> f[x]]
<1>1. /\ f \in [S -> T] /\ (\A x, y \in S : f[x] = f[y] => x = y)
      /\ \A t \in T : \E s \in S : f[s] = t
  BY Fun_BijectionProperties
<1>2. h \in [Left -> Right]
  BY <1>1
<1>3. \A x, y \in Left : h[x] = h[y] => x = y
  BY <1>1
<1>4. \A t \in Right : \E s \in Left : h[s] = t
  <2> SUFFICES ASSUME NEW t \in Right PROVE \E s \in Left : h[s] = t
    OBVIOUS
  <2>1. PICK s \in S : f[s] = t
    BY <1>1
  <2>2. s \in Left /\ h[s] = t
    BY <2>1
  <2>3. QED
    BY <2>2
<1>5. IsFiniteSet(Left)
  BY FS_Subset
<1> HIDE DEF Left, Right, h
<1>6. h \in Bijection(Left, Right)
  BY <1>2, <1>3, <1>4, Fun_IsBij
<1>7. ExistsBijection(Left, Right)
  BY <1>6 DEF ExistsBijection
<1>8. Cardinality(Right) = Cardinality(Left)
  BY <1>5, <1>7, FS_Bijection
<1>9. QED
  BY <1>8 DEF Left, Right, Count

(***************************************************************************)
(* The list of atoms of ini_alloy().                                       *)
(***************************************************************************)
Copies(a, n, v) == Count(a, 1 .. n, v)

(* After an exchange there is an element in every place.                   *)
LEMMA ExchangeTyped ==
  ASSUME NEW E, NEW n \in Nat, NEW a \in [1 .. n -> E],
         NEW i \in 0 .. n - 1, NEW j \in 0 .. n - 1
  PROVE  Exchange(a, i, j) \in [1 .. n -> E]
BY DEF Exchange

(* Two atoms change places: no element gains or loses one.                 *)
LEMMA ExchangeConserves ==
  ASSUME NEW E, NEW n \in Nat, NEW a \in [1 .. n -> E],
         NEW i \in 0 .. n - 1, NEW j \in 0 .. n - 1, NEW v
  PROVE  Copies(Exchange(a, i, j), n, v) = Copies(a, n, v)
<1> DEFINE D == 1 .. n
           f == [x \in D |-> IF x = i + 1 THEN j + 1 ELSE IF x = j + 1 THEN i + 1 ELSE x]
           b == Exchange(a, i, j)
<1>1. i + 1 \in D /\ j + 1 \in D
  OBVIOUS
<1>2. f \in [D -> D]
  BY <1>1
<1>3. \A x \in D : f[f[x]] = x
  BY <1>1
<1>4. \A x, y \in D : f[x] = f[y] => x = y
  BY <1>3
<1>5. \A y \in D : \E x \in D : f[x] = y
  BY <1>2, <1>3
<1>6. b \in [D -> E] /\ \A x \in D : b[x] = a[f[x]]
  BY <1>1 DEF Exchange
<1>7. IsFiniteSet(D)
  BY FS_Interval
<1> HIDE DEF D, f, b
<1>8. f \in Bijection(D, D)
  BY <1>2, <1>4, <1>5, Fun_IsBij
<1>9. Copies(b, n, v) = Copies(a, n, v)
  <2>1. Count(b, D, v) = Count(a, D, v)
    BY <1>6, <1>7, <1>8, CountAlong
  <2>2. QED
    BY <2>1 DEF D, Copies
<1>10. QED
  BY <1>9 DEF b

(* However it is shuffled, the list keeps its elements.                    *)
Turn(g, a, J, i) == IF i = Len(a) THEN a ELSE Exchange(g[i + 1], i, J[i] % (i + 1))

(* By induction over the exchanges, from the last place on.                *)
LEMMA ShuffleConserves ==
  ASSUME NEW E, NEW a \in Seq(E), a # <<>>, NEW J \in Seq(Nat), Len(a) <= Len(J) + 1
  PROVE  /\ shuffle(a, J) \in [1 .. Len(a) -> E]
         /\ \A v : Copies(shuffle(a, J), Len(a), v) = Copies(a, Len(a), v)
<1> DEFINE n == Len(a)
           S == [1 .. n -> E]
           step == [z \in S \X (1 .. n - 1) |-> Exchange(z[1], n - z[2], J[n - z[2]] % (n - z[2] + 1))]
           after == CHOOSE g : g = [i \in 1 .. n |-> Turn(g, a, J, i)]
<1>1. n \in Nat /\ n - 1 \in Nat /\ n > 0 /\ a \in S
  OBVIOUS
<1>2. \A i \in 1 .. n - 1 : i \in 0 .. n - 1 /\ J[i] % (i + 1) \in 0 .. n - 1
  <2> TAKE i \in 1 .. n - 1
  <2>1. i \in 1 .. Len(J) /\ i + 1 \in Nat \ {0}
    BY <1>1
  <2>2. J[i] \in Nat
    BY <2>1
  <2>3. J[i] % (i + 1) \in 0 .. i
    BY <2>1, <2>2
  <2>4. QED
    BY <1>1, <2>3
<1> HIDE DEF n
<1>3. step \in [S \X (1 .. n - 1) -> S]
  <2> SUFFICES ASSUME NEW z \in S, NEW k \in 1 .. n - 1
               PROVE  Exchange(z, n - k, J[n - k] % (n - k + 1)) \in S
    OBVIOUS
  <2>1. n - k \in 1 .. n - 1
    BY <1>1
  <2>2. n - k \in 0 .. n - 1 /\ J[n - k] % (n - k + 1) \in 0 .. n - 1
    BY <1>2, <2>1
  <2>3. QED
    BY <1>1, <2>2, ExchangeTyped
<1>4. \E g : g = [i \in 1 .. n |-> Turn(g, a, J, i)]
  <2> HIDE DEF step, S
  <2>1. PICK t \in [0 .. n - 1 -> S] : IsTrace(t, a, step, n - 1)
    BY <1>1, <1>3, TraceExists
  <2> DEFINE g == [i \in 1 .. n |-> t[n - i]]
  <2>2. ASSUME NEW i \in 1 .. n PROVE g[i] = Turn(g, a, J, i)
    <3>1. CASE i = n
      <4>1. g[i] = t[0]
        BY <1>1, <3>1
      <4>2. QED
        BY <2>1, <3>1, <4>1 DEF IsTrace, Turn, n
    <3>2. CASE i # n
      <4>1. n - i \in 1 .. n - 1 /\ (n - i) - 1 = n - (i + 1) /\ i + 1 \in 1 .. n
            /\ (n - i) - 1 \in 0 .. n - 1 /\ n - (n - i) = i
        BY <1>1, <3>2
      <4>2. t[n - i] = step[<<t[(n - i) - 1], n - i>>]
        BY <2>1, <4>1 DEF IsTrace
      <4>3. g[i] = t[n - i] /\ g[i + 1] = t[(n - i) - 1] /\ t[(n - i) - 1] \in S
        BY <2>1, <4>1
      <4>4. <<g[i + 1], n - i>> \in S \X (1 .. n - 1)
        BY <4>1, <4>3
      <4> HIDE DEF g
      <4>5. step[<<g[i + 1], n - i>>] = Exchange(g[i + 1], i, J[i] % (i + 1))
        BY <4>1, <4>4 DEF step
      <4>6. QED
        BY <3>2, <4>2, <4>3, <4>5 DEF Turn, n
    <3>3. QED
      BY <3>1, <3>2
  <2>3. g = [i \in 1 .. n |-> Turn(g, a, J, i)]
    <3>1. \A i \in 1 .. n : g[i] = Turn(g, a, J, i)
      BY <2>2
    <3> DEFINE h == [i \in 1 .. n |-> Turn(g, a, J, i)]
    <3>2. g = [i \in 1 .. n |-> g[i]]
      OBVIOUS
    <3> HIDE DEF g
    <3>3. QED
      BY <3>1, <3>2
  <2> HIDE DEF g
  <2>4. QED
    BY <2>3
<1>5. after = [i \in 1 .. n |-> Turn(after, a, J, i)]
  BY <1>4
<1>6. shuffle(a, J) = after[1]
  BY DEF shuffle, Turn, n
<1> HIDE DEF after, step
<1> DEFINE Kept(i) == after[i] \in S /\ \A v : Copies(after[i], n, v) = Copies(a, n, v)
           Good == {m \in 0 .. n - 1 : Kept(n - m)}
<1>7. 0 \in Good
  <2>1. n \in 1 .. n
    BY <1>1
  <2>2. after[n] = a
    BY <1>5, <2>1 DEF Turn, n
  <2>3. QED
    BY <1>1, <2>2
<1>8. ASSUME NEW m \in 1 .. n - 1, m - 1 \in Good PROVE m \in Good
  <2>1. n - m \in 1 .. n - 1 /\ n - m \in 1 .. n /\ n - m # n /\ n - (m - 1) = n - m + 1
    BY <1>1
  <2>2. Kept(n - m + 1)
    BY <1>8, <2>1
  <2>3. after[n - m] = Exchange(after[n - m + 1], n - m, J[n - m] % (n - m + 1))
    BY <1>5, <2>1 DEF Turn, n
  <2>4. n - m \in 0 .. n - 1 /\ J[n - m] % (n - m + 1) \in 0 .. n - 1
    BY <1>2, <2>1
  <2>5. Kept(n - m)
    <3>1. PICK before \in S : before = after[n - m + 1]
      BY <2>2
    <3>2. PICK i \in 0 .. n - 1 : i = n - m
      BY <2>4
    <3>3. PICK j \in 0 .. n - 1 : j = J[n - m] % (n - m + 1)
      BY <2>4
    <3>4. \A v : Copies(before, n, v) = Copies(a, n, v)
      BY <2>2, <3>1
    <3>5. /\ Exchange(before, i, j) \in S
          /\ \A v : Copies(Exchange(before, i, j), n, v) = Copies(before, n, v)
      <4>1. n \in Nat /\ before \in [1 .. n -> E]
        BY <1>1
      <4>2. Exchange(before, i, j) \in [1 .. n -> E]
        BY <4>1, ExchangeTyped
      <4>3. ASSUME NEW v PROVE Copies(Exchange(before, i, j), n, v) = Copies(before, n, v)
        BY <4>1, ExchangeConserves, ZenonT(60)
      <4>4. QED
        BY <4>2, <4>3
    <3>6. after[n - m] = Exchange(before, i, j)
      BY <2>3, <3>1, <3>2, <3>3
    <3>7. QED
      BY <3>4, <3>5, <3>6
  <2>6. m \in 0 .. n - 1
    OBVIOUS
  <2>7. QED
    BY <2>5, <2>6
<1>9. n - 1 \in Good
  <2> HIDE DEF Good
  <2>1. 0 .. n - 1 \subseteq Good
    BY <1>1, <1>7, <1>8, UpTo
  <2>2. QED
    BY <1>1, <2>1
<1>10. Kept(1)
  <2>1. n - (n - 1) = 1
    BY <1>1
  <2>2. QED
    BY <1>9, <2>1
<1>11. QED
  BY <1>6, <1>10 DEF n

(* A number of places in a row with the same element.                      *)
HasRun(a, k, v) == \E o \in Nat : \A x \in 1 .. k : o + x \in 1 .. Len(a) /\ a[o + x] = v
Row(k, v) == [x \in 1 .. k |-> v]

(* A row of one element, also of a negative length.                        *)
LEMMA RowTyped ==
  ASSUME NEW E, NEW v \in E, NEW k \in Int
  PROVE  Row(k, v) \in Seq(E) /\ 1 .. Len(Row(k, v)) = 1 .. k
<1>1. CASE k >= 0
  BY <1>1 DEF Row
<1>2. CASE k < 0
  <2>1. 1 .. k = 1 .. 0
    BY <1>2
  <2>2. Row(k, v) = [x \in 1 .. 0 |-> v]
    BY <2>1 DEF Row
  <2>3. [x \in 1 .. 0 |-> v] \in Seq(E) /\ Len([x \in 1 .. 0 |-> v]) = 0
    OBVIOUS
  <2>4. QED
    BY <2>1, <2>2, <2>3
<1>3. QED
  BY <1>1, <1>2

(* What is put behind a list does not take a run from it.                  *)
LEMMA RunKept ==
  ASSUME NEW E, NEW a \in Seq(E), NEW b \in Seq(E), NEW k, NEW v, HasRun(a, k, v)
  PROVE  HasRun(a \o b, k, v)
<1>1. PICK o \in Nat : \A x \in 1 .. k : o + x \in 1 .. Len(a) /\ a[o + x] = v
  BY DEF HasRun
<1>2. \A y \in 1 .. Len(a) : y \in 1 .. Len(a \o b) /\ (a \o b)[y] = a[y]
  OBVIOUS
<1>3. QED
  BY <1>1, <1>2 DEF HasRun

(* A row at the end of a list is a run in it.                              *)
LEMMA RunAdded ==
  ASSUME NEW E, NEW a \in Seq(E), NEW v \in E, NEW k \in Int
  PROVE  HasRun(a \o Row(k, v), k, v)
<1>1. Row(k, v) \in Seq(E) /\ 1 .. Len(Row(k, v)) = 1 .. k
  BY RowTyped
<1>2. \A x \in 1 .. k : Row(k, v)[x] = v
  BY DEF Row
<1>3. PICK r \in Seq(E) : r = Row(k, v)
  BY <1>1
<1>4. ASSUME NEW x \in 1 .. Len(r)
      PROVE  Len(a) + x \in 1 .. Len(a \o r) /\ (a \o r)[Len(a) + x] = r[x]
  OBVIOUS
<1>5. Len(a) \in Nat
  OBVIOUS
<1>6. \A x \in 1 .. k : Len(a) + x \in 1 .. Len(a \o r) /\ (a \o r)[Len(a) + x] = v
  BY <1>1, <1>2, <1>3, <1>4
<1>7. QED
  BY <1>3, <1>5, <1>6 DEF HasRun

(* A run is so many copies at least.                                       *)
LEMMA RunCounted ==
  ASSUME NEW a, Len(a) \in Nat, NEW k \in Int, NEW v, HasRun(a, k, v)
  PROVE  Copies(a, Len(a), v) >= k /\ Copies(a, Len(a), v) \in Nat
<1>1. PICK o \in Nat : \A x \in 1 .. k : o + x \in 1 .. Len(a) /\ a[o + x] = v
  BY DEF HasRun
<1> DEFINE All == {x \in 1 .. Len(a) : a[x] = v}
<1>2. IsFiniteSet(All)
  <2>1. IsFiniteSet(1 .. Len(a))
    BY FS_Interval
  <2>2. QED
    BY <2>1, FS_Subset
<1>3. Copies(a, Len(a), v) = Cardinality(All) /\ Cardinality(All) \in Nat
  BY <1>2, FS_CardinalityType DEF Copies, Count
<1>4. CASE k <= 0
  BY <1>3, <1>4
<1>5. CASE k > 0
  <2>1. o + 1 .. o + k \subseteq All
    <3> SUFFICES ASSUME NEW y \in o + 1 .. o + k PROVE y \in All
      OBVIOUS
    <3>1. y - o \in 1 .. k /\ o + (y - o) = y
      OBVIOUS
    <3>2. QED
      BY <1>1, <3>1
  <2>2. Cardinality(o + 1 .. o + k) = k
    <3>1. o + 1 \in Int /\ o + k \in Int
      OBVIOUS
    <3>2. Cardinality(o + 1 .. o + k) = IF o + 1 > o + k THEN 0 ELSE o + k - (o + 1) + 1
      BY <3>1, FS_Interval
    <3>3. QED
      BY <1>5, <3>2
  <2> HIDE DEF All
  <2>3. Cardinality(o + 1 .. o + k) <= Cardinality(All)
    BY <1>2, <2>1, FS_Subset
  <2>4. QED
    BY <1>3, <2>2, <2>3
<1>6. QED
  BY <1>4, <1>5

(* Lists put one behind the other.                                         *)
Joined(g, seqs, i) == IF i = 1 THEN seqs[i] ELSE g[i - 1] \o seqs[i]

(* FlattenSeq puts them one behind the other.                              *)
LEMMA FlattenedLists ==
  ASSUME NEW E, NEW seqs \in Seq(Seq(E)), seqs # <<>>
  PROVE  \E g \in [1 .. Len(seqs) -> Seq(E)] :
           /\ FlattenSeq(seqs) = g[Len(seqs)]
           /\ \A i \in 1 .. Len(seqs) : g[i] = Joined(g, seqs, i)
<1> DEFINE n == Len(seqs)
           step == [z \in Seq(E) \X (1 .. n) |-> z[1] \o seqs[z[2]]]
           flatten == CHOOSE g : g = [i \in 1 .. n |-> Joined(g, seqs, i)]
<1>1. n \in Nat /\ n > 0 /\ \A i \in 1 .. n : seqs[i] \in Seq(E)
  OBVIOUS
<1> HIDE DEF n
<1>2. step \in [Seq(E) \X (1 .. n) -> Seq(E)]
  BY <1>1
<1>3. PICK t \in [0 .. n -> Seq(E)] : IsTrace(t, <<>>, step, n)
  <2> HIDE DEF step
  <2>1. <<>> \in Seq(E)
    OBVIOUS
  <2>2. QED
    BY <1>1, <1>2, <2>1, TraceExists
<1> DEFINE h == [i \in 1 .. n |-> t[i]]
<1>4. h \in [1 .. n -> Seq(E)] /\ \A i \in 1 .. n : h[i] = Joined(h, seqs, i)
  <2>1. ASSUME NEW i \in 1 .. n PROVE h[i] = Joined(h, seqs, i)
    <3>1. t[i] = step[<<t[i - 1], i>>] /\ t[0] = <<>>
      BY <1>3 DEF IsTrace
    <3>2. i - 1 \in 0 .. n /\ t[i - 1] \in Seq(E) /\ seqs[i] \in Seq(E)
      BY <1>1
    <3>3. h[i] = t[i - 1] \o seqs[i]
      BY <3>1, <3>2
    <3>4. CASE i = 1
      <4>1. <<>> \o seqs[i] = seqs[i]
        BY <3>2
      <4>2. t[i - 1] = <<>>
        BY <3>1, <3>4
      <4>3. QED
        BY <3>3, <3>4, <4>1, <4>2 DEF Joined
    <3>5. CASE i # 1
      <4>0. i \in Int
        OBVIOUS
      <4>1. i - 1 \in 1 .. n
        BY <1>1, <3>5, <4>0
      <4>2. h[i - 1] = t[i - 1]
        BY <4>1
      <4>3. QED
        BY <3>3, <3>5, <4>2 DEF Joined
    <3>6. QED
      BY <3>4, <3>5
  <2>2. QED
    BY <2>1
<1>5. \E g : g = [i \in 1 .. n |-> Joined(g, seqs, i)]
  <2>1. h = [i \in 1 .. n |-> h[i]]
    OBVIOUS
  <2> HIDE DEF h
  <2>2. h = [i \in 1 .. n |-> Joined(h, seqs, i)]
    BY <1>4, <2>1
  <2>3. QED
    BY <2>2
<1>6. flatten = [i \in 1 .. n |-> Joined(flatten, seqs, i)]
  BY <1>5
<1>7. FlattenSeq(seqs) = flatten[n]
  BY <1>1 DEF FlattenSeq, Joined, n
<1> HIDE DEF flatten, h
<1>8. \A i \in 1 .. n : flatten[i] = Joined(flatten, seqs, i)
  BY <1>6
<1>9. \A i \in 1 .. n : flatten[i] \in Seq(E)
  <2> DEFINE Flat(m) == m > 0 => flatten[m] \in Seq(E)
             Good == {m \in 0 .. n : Flat(m)}
  <2>1. 0 \in Good
    BY <1>1
  <2>2. ASSUME NEW i \in 1 .. n, i - 1 \in Good PROVE i \in Good
    <3>1. i \in 0 .. n
      BY <1>1
    <3>2. flatten[i] \in Seq(E)
      <4>1. CASE i = 1
        BY <1>1, <1>8, <4>1 DEF Joined
      <4>2. CASE i # 1
        <5>1. flatten[i - 1] \in Seq(E) /\ seqs[i] \in Seq(E)
          BY <1>1, <2>2, <4>2
        <5>2. flatten[i] = flatten[i - 1] \o seqs[i]
          BY <1>8, <4>2 DEF Joined
        <5>3. QED
          BY <5>1, <5>2
      <4>3. QED
        BY <4>1, <4>2
    <3>3. Flat(i)
      BY <3>2
    <3> HIDE DEF Flat
    <3>4. QED
      BY <3>1, <3>3
  <2> HIDE DEF Good
  <2>3. 0 .. n \subseteq Good
    BY <1>1, <2>1, <2>2, UpTo
  <2>4. QED
    BY <2>3 DEF Good
<1>10. flatten \in [1 .. n -> Seq(E)]
  BY <1>6, <1>9
<1>11. QED
  BY <1>7, <1>8, <1>10 DEF n

(* Each of them is found in the whole.                                     *)
LEMMA FlattenedRuns ==
  ASSUME NEW E, NEW n \in Nat, n > 0, NEW k \in [1 .. n -> Int], NEW e \in [1 .. n -> E]
  PROVE  LET F == FlattenSeq([t \in 1 .. n |-> Row(k[t], e[t])])
         IN  F \in Seq(E) /\ \A t \in 1 .. n : HasRun(F, k[t], e[t])
<1> DEFINE seqs == [t \in 1 .. n |-> Row(k[t], e[t])]
<1>1. \A t \in 1 .. n : Row(k[t], e[t]) \in Seq(E)
  BY RowTyped
<1>2. seqs \in Seq(Seq(E)) /\ Len(seqs) = n /\ seqs # <<>> /\ \A t \in 1 .. n : seqs[t] = Row(k[t], e[t])
  <2>1. \A t \in 1 .. n : seqs[t] = Row(k[t], e[t])
    OBVIOUS
  <2>2. seqs \in [1 .. n -> Seq(E)]
    BY <1>1
  <2> HIDE DEF seqs
  <2>3. seqs \in Seq(Seq(E))
    BY <2>2
  <2>4. Len(seqs) = n
    BY <2>2
  <2>5. QED
    BY <2>1, <2>3, <2>4
<1> HIDE DEF seqs
<1>3. PICK g \in [1 .. n -> Seq(E)] : FlattenSeq(seqs) = g[n] /\ \A i \in 1 .. n : g[i] = Joined(g, seqs, i)
  <2>1. seqs \in Seq(Seq(E)) /\ seqs # <<>> /\ Len(seqs) = n
    BY <1>2
  <2>2. \E g \in [1 .. Len(seqs) -> Seq(E)] :
          /\ FlattenSeq(seqs) = g[Len(seqs)]
          /\ \A i \in 1 .. Len(seqs) : g[i] = Joined(g, seqs, i)
    BY ONLY <2>1, FlattenedLists, Zenon
  <2>3. QED
    BY ONLY <2>1, <2>2, Zenon
<1> DEFINE Good == {m \in 0 .. n : m > 0 => \A t \in 1 .. m : HasRun(g[m], k[t], e[t])}
<1>4. 0 \in Good
  OBVIOUS
<1>5. ASSUME NEW i \in 1 .. n, i - 1 \in Good PROVE i \in Good
  <2>0. i \in 0 .. n
    OBVIOUS
  <2> SUFFICES ASSUME NEW t \in 1 .. i PROVE HasRun(g[i], k[t], e[t])
    BY <2>0, Zenon
  <2>1. CASE i = 1
    <3>1. g[i] = Row(k[i], e[i]) /\ t = i
      BY <1>2, <1>3, <2>1 DEF Joined
    <3>2. <<>> \in Seq(E) /\ Row(k[i], e[i]) \in Seq(E) /\ k[i] \in Int /\ e[i] \in E
      BY <1>1
    <3>3. <<>> \o Row(k[i], e[i]) = Row(k[i], e[i])
      BY <3>2
    <3>4. HasRun(<<>> \o Row(k[i], e[i]), k[i], e[i])
      BY <3>2, RunAdded
    <3>5. QED
      BY <3>1, <3>3, <3>4
  <2>2. CASE i # 1
    <3>1. g[i] = g[i - 1] \o Row(k[i], e[i])
      BY <1>2, <1>3, <2>2 DEF Joined
    <3>0. i \in Int
      OBVIOUS
    <3>2. i - 1 \in 1 .. n /\ g[i - 1] \in Seq(E) /\ Row(k[i], e[i]) \in Seq(E) /\ k[i] \in Int /\ e[i] \in E
      BY <1>1, <2>2, <3>0
    <3>3. CASE t = i
      BY <3>1, <3>2, <3>3, RunAdded
    <3>4. CASE t # i
      <4>1. t \in 1 .. i - 1
        BY <3>4
      <4>2. HasRun(g[i - 1], k[t], e[t])
        BY <1>5, <3>2, <4>1
      <4>3. QED
        BY <3>1, <3>2, <4>2, RunKept
    <3>5. QED
      BY <3>3, <3>4
  <2>3. QED
    BY <2>1, <2>2
<1> HIDE DEF Good
<1>6. 0 .. n \subseteq Good
  BY <1>4, <1>5, UpTo
<1>7. g[n] \in Seq(E) /\ \A t \in 1 .. n : HasRun(g[n], k[t], e[t])
  BY <1>6 DEF Good
<1>8. QED
  BY <1>3, <1>7 DEF seqs


(***************************************************************************)
(* Where the atoms of the list go.                                         *)
(***************************************************************************)
(* A number is written in one way with a base.                             *)
LEMMA Digits ==
  ASSUME NEW N \in Nat \ {0}, NEW v \in Nat
  PROVE  v \div N \in Nat /\ v % N \in 0 .. N - 1 /\ v = (v \div N) * N + (v % N)
OBVIOUS

(* No other quotient and remainder give the same number.                   *)
LEMMA DigitsOnce ==
  ASSUME NEW N \in Nat \ {0}, NEW p \in Nat, NEW q \in Nat, NEW a \in 0 .. N - 1,
         NEW b \in 0 .. N - 1, p * N + a = q * N + b
  PROVE  p = q /\ a = b
<1>1. ASSUME NEW x \in Nat, NEW y \in Nat, x < y PROVE x * N + N <= y * N
  <2>1. x + 1 <= y /\ (x + 1) * N = x * N + N
    BY <1>1
  <2>2. PICK d \in Nat : y = x + 1 + d
    <3>1. y - (x + 1) \in Nat /\ y = x + 1 + (y - (x + 1))
      BY <2>1
    <3>2. QED
      BY <3>1
  <2>3. y * N = (x + 1) * N + d * N /\ d * N \in Nat
    BY <2>2
  <2>4. QED
    BY <2>1, <2>3
<1>2. ~(p < q)
  <2>1. ASSUME p < q PROVE FALSE
    <3>1. p * N + N <= q * N
      BY <1>1, <2>1
    <3>2. p * N \in Nat /\ q * N \in Nat
      OBVIOUS
    <3>3. QED
      BY <3>1, <3>2
  <2>2. QED
    BY <2>1
<1>3. ~(q < p)
  <2>1. ASSUME q < p PROVE FALSE
    <3>1. q * N + N <= p * N
      BY <1>1, <2>1
    <3>2. p * N \in Nat /\ q * N \in Nat
      OBVIOUS
    <3>3. QED
      BY <3>1, <3>2
  <2>2. QED
    BY <2>1
<1>4. p = q
  BY <1>2, <1>3
<1>5. a = b
  <2>1. p * N \in Nat /\ p * N = q * N
    BY <1>4
  <2>2. QED
    BY <2>1
<1>6. QED
  BY <1>4, <1>5

(* The sites of the lattice are numbered from 1 to their number.           *)
LEMMA SiteNumbered ==
  ASSUME NEW N \in Nat \ {0}, NEW s \in Cell(N)
  PROVE  Site(N, s) + 1 \in 1 .. N * N * N
<1>1. PICK a \in 0 .. N - 1, b \in 0 .. N - 1, c \in 0 .. N - 1 :
        a = s[1] /\ b = s[2] /\ c = s[3]
  BY DEF Cell
<1>2. Site(N, s) = (a * N + b) * N + c
  <2>1. a * N * N + b * N + c = (a * N + b) * N + c
    OBVIOUS
  <2>2. QED
    BY <1>1, <2>1 DEF Site
<1>3. a * N + b \in 0 .. N * N - 1
  <2>1. a * N \in Nat /\ a * N <= (N - 1) * N
    OBVIOUS
  <2>2. (N - 1) * N = N * N - N /\ N * N \in Nat
    OBVIOUS
  <2>3. QED
    BY <2>1, <2>2
<1>4. ASSUME NEW m \in Nat, NEW d \in 0 .. m - 1 PROVE d * N + c \in 0 .. m * N - 1
  <2>1. d * N \in Nat /\ d * N <= (m - 1) * N
    OBVIOUS
  <2>2. (m - 1) * N = m * N - N /\ m * N \in Nat
    OBVIOUS
  <2>3. QED
    BY <2>1, <2>2
<1>5. N * N \in Nat
  OBVIOUS
<1>6. (a * N + b) * N + c \in 0 .. N * N * N - 1
  BY <1>3, <1>4, <1>5
<1>7. N * N * N \in Nat
  OBVIOUS
<1>8. QED
  BY <1>2, <1>6, <1>7

(* Two sites have two numbers ...                                          *)
LEMMA SitesApart ==
  ASSUME NEW N \in Nat \ {0}, NEW s \in Cell(N), NEW u \in Cell(N),
         Site(N, s) = Site(N, u)
  PROVE  s = u
<1>1. PICK a \in 0 .. N - 1, b \in 0 .. N - 1, c \in 0 .. N - 1 : s = <<a, b, c>>
  BY DEF Cell
<1>2. PICK d \in 0 .. N - 1, e \in 0 .. N - 1, f \in 0 .. N - 1 : u = <<d, e, f>>
  BY DEF Cell
<1>3. Site(N, s) = (a * N + b) * N + c /\ Site(N, u) = (d * N + e) * N + f
  <2>1. /\ a * N * N + b * N + c = (a * N + b) * N + c
        /\ d * N * N + e * N + f = (d * N + e) * N + f
    OBVIOUS
  <2>2. QED
    BY <1>1, <1>2, <2>1 DEF Site
<1>4. a * N + b \in Nat /\ d * N + e \in Nat
  OBVIOUS
<1>5. a * N + b = d * N + e /\ c = f
  <2>1. PICK p \in Nat, q \in Nat : p = a * N + b /\ q = d * N + e
    BY <1>4
  <2>2. p * N + c = q * N + f
    BY <1>3, <2>1
  <2>3. QED
    BY <2>1, <2>2, DigitsOnce
<1>6. a = d /\ b = e
  BY <1>5, DigitsOnce
<1>7. QED
  BY <1>1, <1>2, <1>5, <1>6

(* ... every number is that of a site ...                                  *)
LEMMA SiteOfNumber ==
  ASSUME NEW N \in Nat \ {0}, NEW y \in 1 .. N * N * N
  PROVE  \E s \in Cell(N) : Site(N, s) + 1 = y
<1>1. N * N \in Nat /\ N * N * N \in Nat
  OBVIOUS
<1>2. PICK v \in Nat : y = v + 1 /\ v < N * N * N
  <2>1. y - 1 \in Nat /\ y = (y - 1) + 1 /\ y - 1 < N * N * N
    BY <1>1
  <2>2. QED
    BY <2>1
<1>3. PICK w \in Nat, c \in 0 .. N - 1 : v = w * N + c
  BY Digits
<1>4. PICK a \in Nat, b \in 0 .. N - 1 : w = a * N + b
  BY Digits
<1>5. \A x \in Nat, m \in Nat, d \in 0 .. N - 1 : x * N + d < m * N => x < m
  <2> TAKE x \in Nat, m \in Nat, d \in 0 .. N - 1
  <2> SUFFICES ASSUME x >= m PROVE x * N + d >= m * N
    <3>1. x * N + d \in Int /\ m * N \in Int
      OBVIOUS
    <3>2. QED
      BY <3>1
  <2>1. PICK k \in Nat : x = m + k
    <3>1. x - m \in Nat /\ x = m + (x - m)
      OBVIOUS
    <3>2. QED
      BY <3>1
  <2>2. x * N = m * N + k * N /\ k * N \in Nat /\ m * N \in Nat
    BY <2>1
  <2>3. QED
    BY <2>2
<1>6. w < N * N
  BY <1>1, <1>2, <1>3, <1>5
<1>7. a < N
  BY <1>4, <1>5, <1>6
<1>8. <<a, b, c>> \in Cell(N)
  BY <1>7 DEF Cell
<1>9. Site(N, <<a, b, c>>) + 1 = y
  <2>1. a * N * N + b * N + c = (a * N + b) * N + c
    OBVIOUS
  <2>2. QED
    BY <1>2, <1>3, <1>4, <2>1 DEF Site
<1>10. QED
  BY <1>8, <1>9

(* ... so sites and places of the list correspond.                         *)
LEMMA SitesAreNumbered ==
  ASSUME NEW N \in Nat \ {0}
  PROVE  [s \in Cell(N) |-> Site(N, s) + 1] \in Bijection(Cell(N), 1 .. N * N * N)
<1> DEFINE f == [s \in Cell(N) |-> Site(N, s) + 1]
           T == 1 .. N * N * N
<1>1. f \in [Cell(N) -> T]
  BY SiteNumbered
<1>2. \A s, u \in Cell(N) : f[s] = f[u] => s = u
  <2>1. ASSUME NEW s \in Cell(N), NEW u \in Cell(N), f[s] = f[u] PROVE s = u
    <3>1. Site(N, s) \in Int /\ Site(N, u) \in Int
      <4>1. \A x \in Cell(N) : x[1] \in Int /\ x[2] \in Int /\ x[3] \in Int
        BY DEF Cell
      <4>2. QED
        BY <4>1 DEF Site
    <3>2. Site(N, s) = Site(N, u)
      BY <2>1, <3>1
    <3>3. QED
      BY <3>2, SitesApart
  <2>2. QED
    BY <2>1
<1>3. \A y \in T : \E s \in Cell(N) : f[s] = y
  BY SiteOfNumber
<1> HIDE DEF f, T
<1>4. f \in Bijection(Cell(N), T)
  BY <1>1, <1>2, <1>3, Fun_IsBij
<1>5. QED
  BY <1>4 DEF f, T

(* A lattice has finitely many sites.                                      *)
LEMMA CellsFinite ==
  ASSUME NEW N \in Nat \ {0}
  PROVE  IsFiniteSet(Cell(N))
<1>1. IsFiniteSet(1 .. N * N * N)
  <2>1. N * N * N \in Int /\ 1 \in Int
    OBVIOUS
  <2>2. QED
    BY <2>1, FS_Interval
<1>2. \E f : f \in Injection(Cell(N), 1 .. N * N * N)
  BY SitesAreNumbered DEF Bijection
<1>3. QED
  BY <1>1, <1>2, FS_Injection

(***************************************************************************)
(* What ReadInput() accepts.                                               *)
(***************************************************************************)
Params == Loaded(job.file)
Sites == Params.N * Params.N * Params.N
Fraction == Int \X (Nat \ {0})

(* Where the parameters come from.                                         *)
LEMMA ParamsLoaded ==
  /\ Params.N = job.file.N /\ Params.MTi = job.file.MTi /\ Params.MTf = job.file.MTf
  /\ Params.NE = optional(job.file, "NE")
  /\ Params.composition = Composition(job.file, Params.NE)
  /\ Params.element = Element(job.file)
  /\ Params.max_neighbors = optional(job.file, "max_neighbors")
<1>1. /\ {"N", "MTi", "MTf"} \subseteq Required /\ Required \subseteq Scalars
      /\ {"NE", "max_neighbors"} \subseteq Scalars \ Required
      /\ {"element", "composition"} \cap Scalars = {}
  BY DEF Scalars, Required, Fallback
<1> DEFINE keys == Scalars \cup {"element", "composition"}
           Value(key) == CASE key = "element" -> Element(job.file)
             [] key = "composition" -> Composition(job.file, optional(job.file, "NE"))
             [] key \in Required -> job.file[key]
             [] OTHER -> optional(job.file, key)
<1>2. Params = [key \in keys |-> Value(key)]
  BY DEF Params, Loaded
<1>3. /\ Value("N") = job.file.N /\ Value("MTi") = job.file.MTi
      /\ Value("MTf") = job.file.MTf /\ Value("element") = Element(job.file)
      /\ Value("NE") = optional(job.file, "NE")
      /\ Value("max_neighbors") = optional(job.file, "max_neighbors")
      /\ Value("composition") = Composition(job.file, optional(job.file, "NE"))
  BY <1>1
<1>4. {"N", "MTi", "MTf", "NE", "max_neighbors", "element", "composition"} \subseteq keys
  BY <1>1
<1> HIDE DEF keys, Value
<1>5. \A key \in keys : Params[key] = Value(key)
  BY <1>2
<1>6. QED
  BY <1>3, <1>4, <1>5

(* A lattice of some sites, some elements, and a fraction for each.        *)
Accepted == /\ Params.N \in Nat \ {0} /\ Params.NE \in Nat \ {0}
            /\ Sites \in Nat \ {0}
            /\ Params.composition \in Seq(Fraction)
            /\ Len(Params.composition) = Params.NE
            /\ Params.MTi \in Int /\ Params.MTf \in Int
            /\ Params.max_neighbors \in Int
            /\ job.coupling.offsets \in Seq(Int \X Int \X Int)
            /\ job.coupling.pairs \subseteq Int \X Int
            /\ \A J \in RandRuns : J \in Seq(Nat) /\ Sites <= Len(J) + 1

(* What ReadInput() tests makes them so.                                   *)
LEMMA InputAccepted ==
  ASSUME job \in Jobs, ReadInput(job.file)
  PROVE  Accepted
<1> DEFINE file == job.file
<1>1. /\ \A key \in Required : Given(file[key])
      /\ ~BadLattice(file, Params)
  BY DEF ReadInput, require, Params
<1>2. /\ \A key \in {"N", "NE", "MTi", "MTf", "max_neighbors"} : Given(file[key]) => file[key] \in Int
      /\ Given(file.composition) /\ ~HasWrongEntry(file.composition)
           => file.composition \in Seq(Fraction)
      /\ RandRuns \subseteq Seq(Nat)
      /\ \A J \in RandRuns : file.N * file.N * file.N <= Len(J) + 1
      /\ job.coupling.offsets \in Seq(Int \X Int \X Int)
      /\ job.coupling.pairs \subseteq Int \X Int
  BY JobAssumption DEF Fraction
<1>3. {"N", "MTi", "MTf"} \subseteq Required
  BY DEF Required
<1>4. file.N \in Int /\ file.MTi \in Int /\ file.MTf \in Int
  BY <1>1, <1>2, <1>3
<1>5. Params.NE \in Int /\ Params.max_neighbors \in Int
  <2>1. Fallback.NE = 4 /\ Fallback.max_neighbors = 300
    BY DEF Fallback
  <2>2. optional(file, "NE") \in Int
    BY <1>2, <2>1 DEF optional
  <2>3. optional(file, "max_neighbors") \in Int
    BY <1>2, <2>1 DEF optional
  <2>4. QED
    BY <2>2, <2>3, ParamsLoaded
<1>6. ~(Params.N < 1) /\ ~(Params.NE < 1) /\ ~HasWrongEntry(file.composition)
      /\ ~(Len(Params.composition) # Params.NE)
  BY <1>1 DEF BadLattice
<1>7. Params.N \in Nat \ {0} /\ Params.NE \in Nat \ {0}
  BY <1>4, <1>5, <1>6, ParamsLoaded
<1>8. Params.composition \in Seq(Fraction)
  <2>1. CASE Given(file.composition) /\ file.composition # <<>>
    BY <1>2, <1>6, <2>1, ParamsLoaded DEF Composition
  <2>2. CASE ~(Given(file.composition) /\ file.composition # <<>>)
    <3>1. Params.composition = [t \in 1 .. Params.NE |-> <<1, Params.NE>>]
      BY <2>2, ParamsLoaded DEF Composition, EqualShares
    <3>2. <<1, Params.NE>> \in Fraction
      BY <1>7 DEF Fraction
    <3>3. \A n \in Nat, x \in Fraction : [t \in 1 .. n |-> x] \in Seq(Fraction)
      OBVIOUS
    <3>4. QED
      BY <1>7, <3>1, <3>2, <3>3
  <2>3. QED
    BY <2>1, <2>2
<1>9. Sites \in Nat \ {0}
  <2>1. \A n \in Nat \ {0} : n * n * n \in Nat \ {0}
    OBVIOUS
  <2>2. QED
    BY <1>7, <2>1 DEF Sites
<1>10. \A J \in RandRuns : J \in Seq(Nat) /\ Sites <= Len(J) + 1
  BY <1>2, ParamsLoaded DEF Sites
<1>11. QED
  BY <1>2, <1>4, <1>5, <1>6, <1>7, <1>8, <1>9, <1>10, ParamsLoaded DEF Accepted

(***************************************************************************)
(* Accesses outside the tables of ini_sys() and ini_apos() come from what  *)
(* Unmatched() lists.                                                      *)
(***************************************************************************)
(* Two elements of NE have a place in the table of couplings.              *)
LEMMA PairInTable ==
  ASSUME NEW p, p.NE \in Nat \ {0},
         NEW a \in 0 .. p.NE - 1, NEW b \in 0 .. p.NE - 1
  PROVE  InPairTable(p, a, b)
<1> DEFINE n == p.NE
<1>1. n \in Nat \ {0} /\ a \in Nat /\ b \in Nat /\ a <= n - 1 /\ b <= n - 1
  OBVIOUS
<1>2. a * n <= (n - 1) * n /\ a * n \in Nat /\ n * n \in Nat
  <2>1. \A x, y, z \in Nat : x <= y => x * z <= y * z
    OBVIOUS
  <2>2. n - 1 \in Nat /\ n \in Nat
    BY <1>1
  <2>3. a * n <= (n - 1) * n
    BY <1>1, <2>1, <2>2
  <2>4. \A x, y \in Nat : x * y \in Nat
    OBVIOUS
  <2>5. QED
    BY <1>1, <2>2, <2>3, <2>4
<1>3. (n - 1) * n = n * n - n
  BY <1>1
<1> HIDE DEF n
<1>4. a * n + b \in 0 .. n * n - 1
  BY <1>1, <1>2, <1>3
<1>5. QED
  BY <1>4 DEF InPairTable, n

(* ... so a rank outside the table has one element, or one beyond NE.      *)
LEMMA PairOutsideUnmatched ==
  ASSUME Accepted, NEW r \in Rank, par[r] = Params, PairOutside(r)
  PROVE  Unmatched(Params)
<1>1. Params.NE \in Nat \ {0} /\ job.coupling.pairs \subseteq Int \X Int
  BY DEF Accepted
<1>2. CASE r = 0 /\ ~InPairTable(par[r], 0, 1)
  <2>1. ~(1 \in 0 .. Params.NE - 1)
    BY <1>1, <1>2, PairInTable
  <2>2. Params.NE = 1
    BY <1>1, <2>1
  <2>3. QED
    BY <2>2 DEF Unmatched
<1>3. CASE \E k \in job.coupling.pairs : \/ ~InPairTable(par[r], k[1] - 1, k[2] - 1)
                                        \/ ~InPairTable(par[r], k[2] - 1, k[1] - 1)
  <2>1. PICK k \in job.coupling.pairs : \/ ~InPairTable(Params, k[1] - 1, k[2] - 1)
                                        \/ ~InPairTable(Params, k[2] - 1, k[1] - 1)
    BY <1>3
  <2>2. k[1] \in Int /\ k[2] \in Int
    BY <1>1
  <2>3. ~(k[1] - 1 \in 0 .. Params.NE - 1) \/ ~(k[2] - 1 \in 0 .. Params.NE - 1)
    BY <1>1, <2>1, PairInTable
  <2>4. k[1] \notin 1 .. Params.NE \/ k[2] \notin 1 .. Params.NE
    BY <1>1, <2>2, <2>3
  <2>5. QED
    BY <2>4 DEF Unmatched
<1>4. QED
  BY <1>2, <1>3 DEF PairOutside

(* One wrap brings a site back onto the lattice when the offset is not     *)
(* longer than a side.                                                     *)
LEMMA Wrapped ==
  ASSUME NEW n \in Nat \ {0}, NEW s \in Cell(n), NEW off,
         \A x \in 1 .. 3 : off[x] \in -n .. n
  PROVE  NeighbourSite(n, s, off) \in 0 .. n * n * n - 1
<1> DEFINE w == [x \in 1 .. 3 |-> Wrap(n, s[x] + off[x])]
<1>1. s[1] \in 0 .. n - 1 /\ s[2] \in 0 .. n - 1 /\ s[3] \in 0 .. n - 1
  BY DEF Cell
<1>2. \A c \in 0 .. n - 1, d \in -n .. n : Wrap(n, c + d) \in 0 .. n - 1
  BY DEF Wrap
<1>3. w[1] \in 0 .. n - 1 /\ w[2] \in 0 .. n - 1 /\ w[3] \in 0 .. n - 1
  <2>1. /\ w[1] = Wrap(n, s[1] + off[1]) /\ w[2] = Wrap(n, s[2] + off[2])
        /\ w[3] = Wrap(n, s[3] + off[3])
    OBVIOUS
  <2>2. off[1] \in -n .. n /\ off[2] \in -n .. n /\ off[3] \in -n .. n
    OBVIOUS
  <2> HIDE DEF w
  <2>3. QED
    BY <1>1, <1>2, <2>1, <2>2
<1> HIDE DEF w
<1> DEFINE u == <<w[1], w[2], w[3]>>
<1>4. u \in Cell(n)
  BY <1>3 DEF Cell
<1>5. Site(n, u) + 1 \in 1 .. n * n * n
  BY <1>4, SiteNumbered
<1>6. Site(n, w) = Site(n, u) /\ Site(n, w) \in Int /\ n * n * n \in Int
  BY <1>3 DEF Site
<1>7. Site(n, w) \in 0 .. n * n * n - 1
  BY <1>5, <1>6
<1>8. QED
  BY <1>7 DEF NeighbourSite, w

(* ... so a neighbour outside the lattice has a longer one.                *)
LEMMA NeighbourOutsideUnmatched ==
  ASSUME Accepted, NeighbourOutside(Params)
  PROVE  Unmatched(Params)
<1>1. PICK s \in Cell(Params.N), n \in DOMAIN job.coupling.offsets :
        NeighbourSite(Params.N, s, job.coupling.offsets[n])
          \notin 0 .. Params.N * Params.N * Params.N - 1
  BY DEF NeighbourOutside
<1>2. ~(\A x \in 1 .. 3 : job.coupling.offsets[n][x] \in -Params.N .. Params.N)
  BY <1>1, Wrapped DEF Accepted
<1>3. QED
  BY <1>2 DEF Unmatched

(***************************************************************************)
(* The shares of the elements.                                             *)
(***************************************************************************)
ShareOf(t) == (Sites * Params.composition[t][1]) \div Params.composition[t][2]
Shares == FlattenSeq([t \in 1 .. Params.NE |-> Row(ShareOf(t), t - 1)])
Kinds == 0 .. Params.NE - 1

(* A fraction has a numerator and a denominator above 0.                   *)
LEMMA FractionOf ==
  ASSUME Accepted, NEW t \in 1 .. Params.NE
  PROVE  Params.composition[t][1] \in Int /\ Params.composition[t][2] \in Nat \ {0}
<1>1. Params.composition[t] \in Fraction
  BY DEF Accepted
<1>2. QED
  BY <1>1 DEF Fraction

(* A share is a whole number.                                              *)
LEMMA ShareTyped ==
  ASSUME Accepted, NEW t \in 1 .. Params.NE
  PROVE  ShareOf(t) \in Int
<1>1. \A a \in Int, b \in Nat \ {0} : a \div b \in Int
  OBVIOUS
<1>2. Sites * Params.composition[t][1] \in Int
  <2>1. \A a, b \in Int : a * b \in Int
    OBVIOUS
  <2>2. QED
    BY <2>1, FractionOf DEF Accepted
<1>3. QED
  BY <1>1, <1>2, FractionOf DEF ShareOf

(* Rank 0 fills the list with the shares of the job.                       *)
LEMMA FilledIsShares ==
  ASSUME par[0] = Params
  PROVE  Filled = Shares /\ Total = Sites /\ \A t : Share(par[0].composition[t]) = ShareOf(t)
BY DEF Filled, Shares, Total, Sites, Share, ShareOf, Row

(* In the list each element has a run of at least its share.               *)
HasShares(a) == \A t \in 1 .. Params.NE : HasRun(a, ShareOf(t), t - 1)

(* The shares one behind the other are such a list.                        *)
LEMMA SharesFilled ==
  ASSUME Accepted
  PROVE  Shares \in Seq(Kinds) /\ HasShares(Shares)
<1> DEFINE n == Params.NE
           k == [t \in 1 .. n |-> ShareOf(t)]
           e == [t \in 1 .. n |-> t - 1]
<1>1. n \in Nat /\ n > 0
  BY DEF Accepted
<1>2. k \in [1 .. n -> Int] /\ e \in [1 .. n -> Kinds]
  <2>1. \A t \in 1 .. n : ShareOf(t) \in Int
    BY ShareTyped
  <2>2. \A t \in 1 .. n : t - 1 \in Kinds
    BY <1>1 DEF Kinds
  <2>3. QED
    BY <2>1, <2>2
<1>3. [t \in 1 .. n |-> Row(k[t], e[t])] = [t \in 1 .. n |-> Row(ShareOf(t), t - 1)]
  OBVIOUS
<1>4. \A t \in 1 .. n : k[t] = ShareOf(t) /\ e[t] = t - 1
  OBVIOUS
<1> HIDE DEF n, k, e
<1>5. LET F == FlattenSeq([t \in 1 .. n |-> Row(k[t], e[t])])
      IN  F \in Seq(Kinds) /\ \A t \in 1 .. n : HasRun(F, k[t], e[t])
  BY <1>1, <1>2, FlattenedRuns
<1>6. QED
  BY <1>3, <1>4, <1>5 DEF n, Shares, HasShares

(* Fractions added up: numerator and denominator, up to each.              *)
Summed(upTo, c, n) ==
  IF n = 0 THEN <<0, 1>>
  ELSE IF c[n][1] <= 0 THEN upTo[n - 1]
  ELSE <<upTo[n - 1][1] * c[n][2] + c[n][1] * upTo[n - 1][2],
         upTo[n - 1][2] * c[n][2]>>

(* Fractions() goes through the composition like this.                     *)
LEMMA FractionsSummed ==
  ASSUME NEW p, NEW n \in Nat, p.composition \in Seq(Fraction), Len(p.composition) = n
  PROVE  \E f \in [0 .. n -> Nat \X (Nat \ {0})] :
           /\ Fractions(p) = f[n]
           /\ \A i \in 0 .. n : f[i] = Summed(f, p.composition, i)
<1> DEFINE c == p.composition
           S == Nat \X (Nat \ {0})
           step == [z \in S \X (1 .. n) |->
                      IF c[z[2]][1] <= 0 THEN z[1]
                      ELSE <<z[1][1] * c[z[2]][2] + c[z[2]][1] * z[1][2],
                             z[1][2] * c[z[2]][2]>>]
           upTo == CHOOSE f : f = [i \in 0 .. n |-> Summed(f, c, i)]
<1>1. \A i \in 1 .. n : c[i][1] \in Int /\ c[i][2] \in Nat \ {0}
  <2>1. \A i \in 1 .. n : c[i] \in Fraction
    OBVIOUS
  <2>2. QED
    BY <2>1 DEF Fraction
<1>2. step \in [S \X (1 .. n) -> S]
  <2> DEFINE Added(z, i) == <<z[1] * c[i][2] + c[i][1] * z[2], z[2] * c[i][2]>>
  <2>0. SUFFICES ASSUME NEW z \in S, NEW i \in 1 .. n, ~(c[i][1] <= 0)
                 PROVE  Added(z, i) \in S
    <3> HIDE DEF S, Added
    <3>1. \A w \in S \X (1 .. n) : (IF c[w[2]][1] <= 0 THEN w[1] ELSE Added(w[1], w[2])) \in S
      BY <2>0
    <3>2. step = [w \in S \X (1 .. n) |-> IF c[w[2]][1] <= 0 THEN w[1] ELSE Added(w[1], w[2])]
      BY DEF Added
    <3> HIDE DEF step
    <3>3. QED
      BY <3>1, <3>2
  <2>1. PICK a \in Nat, b \in Nat \ {0} : z[1] = a /\ z[2] = b
    OBVIOUS
  <2>2. PICK d \in Nat \ {0}, e \in Nat \ {0} : c[i][1] = d /\ c[i][2] = e
    BY <1>1, <2>0
  <2>3. a * e + d * b \in Nat /\ b * e \in Nat \ {0}
    OBVIOUS
  <2>4. QED
    BY <2>1, <2>2, <2>3
<1>3. PICK t \in [0 .. n -> S] : IsTrace(t, <<0, 1>>, step, n)
  <2> HIDE DEF step
  <2>1. <<0, 1>> \in S
    OBVIOUS
  <2> HIDE DEF S
  <2>2. QED
    BY <1>2, <2>1, TraceExists
<1>4. ASSUME NEW i \in 0 .. n PROVE t[i] = Summed(t, c, i)
  <2>1. CASE i = 0
    BY <1>3, <2>1 DEF IsTrace, Summed
  <2>2. CASE i # 0
    <3>1. i \in 1 .. n /\ i - 1 \in 0 .. n
      BY <2>2
    <3>2. t[i] = step[<<t[i - 1], i>>]
      BY <1>3, <3>1 DEF IsTrace
    <3>3. t[i - 1] \in S
      BY <3>1
    <3>4. <<t[i - 1], i>> \in S \X (1 .. n)
      BY <3>1, <3>3
    <3> HIDE DEF S
    <3>5. QED
      BY <2>2, <3>2, <3>4 DEF Summed
  <2>3. QED
    BY <2>1, <2>2
<1>5. \E f : f = [i \in 0 .. n |-> Summed(f, c, i)]
  <2>1. t = [i \in 0 .. n |-> t[i]]
    OBVIOUS
  <2>2. t = [i \in 0 .. n |-> Summed(t, c, i)]
    BY <1>4, <2>1
  <2>3. QED
    BY <2>2
<1>6. upTo = [i \in 0 .. n |-> Summed(upTo, c, i)]
  BY <1>5
<1>7. Fractions(p) = upTo[n]
  BY DEF Fractions, Summed
<1> HIDE DEF upTo
<1>8. \A i \in 0 .. n : upTo[i] = Summed(upTo, c, i)
  BY <1>6
<1>9. 0 .. n \subseteq {i \in 0 .. n : upTo[i] = t[i]}
  <2> DEFINE Same == {i \in 0 .. n : upTo[i] = t[i]}
  <2>1. 0 \in Same
    <3>1. 0 \in 0 .. n
      OBVIOUS
    <3>2. upTo[0] = <<0, 1>> /\ t[0] = <<0, 1>>
      BY <1>4, <1>8, <3>1 DEF Summed
    <3>3. QED
      BY <3>1, <3>2
  <2>2. ASSUME NEW i \in 1 .. n, i - 1 \in Same PROVE i \in Same
    <3>1. i \in 0 .. n /\ i # 0
      OBVIOUS
    <3>2. upTo[i - 1] = t[i - 1]
      BY <2>2
    <3>3. upTo[i] = Summed(upTo, c, i) /\ t[i] = Summed(t, c, i)
      BY <1>4, <1>8, <3>1
    <3>4. upTo[i] = t[i]
      BY <3>2, <3>3 DEF Summed
    <3>5. QED
      BY <3>1, <3>4
  <2> HIDE DEF Same
  <2>3. QED
    BY <2>1, <2>2, UpTo DEF Same
<1>10. upTo \in [0 .. n -> S]
  BY <1>6, <1>9
<1>11. QED
  BY <1>7, <1>8, <1>10

(* One more share, and one more fraction.                                  *)
LEMMA OneMoreShare ==
  ASSUME NEW L \in Nat, NEW T \in Nat, NEW a \in Nat, NEW b \in Nat \ {0},
         NEW d \in Nat \ {0}, NEW e \in Nat \ {0}, L * b <= T * a
  PROVE  (L + (T * d) \div e) * (b * e) <= T * (a * e + d * b)
<1>1. PICK s \in Nat : s = (T * d) \div e /\ s * e <= T * d
  <2>1. PICK u \in Nat : u = T * d
    OBVIOUS
  <2>2. PICK s \in Nat, r \in Nat : s = u \div e /\ u = s * e + r
    BY Digits
  <2>3. s * e \in Nat
    OBVIOUS
  <2>4. QED
    BY <2>1, <2>2, <2>3
<1>2. \A x, y \in Nat, z \in Nat : x <= y => x * z <= y * z
  <2> TAKE x, y \in Nat, z \in Nat
  <2> HAVE x <= y
  <2>1. PICK w \in Nat : y = x + w
    <3>1. y - x \in Nat /\ y = x + (y - x)
      OBVIOUS
    <3>2. QED
      BY <3>1
  <2>2. y * z = x * z + w * z /\ x * z \in Nat /\ w * z \in Nat
    BY <2>1
  <2>3. QED
    BY <2>2
<1>3. (L * b) * e <= (T * a) * e /\ (s * e) * b <= (T * d) * b
  <2>1. L * b \in Nat /\ T * a \in Nat /\ s * e \in Nat /\ T * d \in Nat
    OBVIOUS
  <2>2. QED
    BY <1>1, <1>2, <2>1
<1>4. /\ (L + s) * (b * e) = (L * b) * e + (s * e) * b
      /\ T * (a * e + d * b) = (T * a) * e + (T * d) * b
  OBVIOUS
<1>5. /\ (L * b) * e \in Nat /\ (T * a) * e \in Nat
      /\ (s * e) * b \in Nat /\ (T * d) * b \in Nat
  OBVIOUS
<1>6. (L * b) * e + (s * e) * b <= (T * a) * e + (T * d) * b
  BY <1>3, <1>5
<1>7. QED
  BY <1>1, <1>4, <1>6

(* A row of a negative length is empty.                                    *)
LEMMA RowLength ==
  ASSUME NEW k \in Int, NEW v
  PROVE  Len(Row(k, v)) = IF k > 0 THEN k ELSE 0
<1>1. CASE k > 0
  BY <1>1 DEF Row
<1>2. CASE ~(k > 0)
  <2>1. 1 .. k = 1 .. 0
    BY <1>2
  <2>2. Row(k, v) = [x \in 1 .. 0 |-> v]
    BY <2>1 DEF Row
  <2>3. QED
    BY <1>2, <2>2
<1>3. QED
  BY <1>1, <1>2

(* Fractions of at most 1 in all fill no more than the lattice.            *)
LEMMA FractionsSuffice ==
  ASSUME Accepted, ~ExceedOne(Params)
  PROVE  Len(Shares) <= Sites
<1> DEFINE n == Params.NE
           c == Params.composition
           seqs == [t \in 1 .. n |-> Row(ShareOf(t), t - 1)]
<1>1. n \in Nat /\ n > 0 /\ Sites \in Nat /\ c \in Seq(Fraction) /\ Len(c) = n
  BY DEF Accepted
<1>2. \A t \in 1 .. n : seqs[t] = Row(ShareOf(t), t - 1) /\ seqs[t] \in Seq(Int)
  <2>1. \A t \in 1 .. n : ShareOf(t) \in Int /\ t - 1 \in Int
    BY ShareTyped
  <2>2. QED
    BY <2>1, RowTyped
<1>3. seqs \in Seq(Seq(Int)) /\ Len(seqs) = n /\ seqs # <<>>
  <2>1. seqs \in [1 .. n -> Seq(Int)]
    BY <1>2
  <2> HIDE DEF seqs
  <2>2. seqs \in Seq(Seq(Int))
    BY <1>1, <2>1
  <2>3. Len(seqs) = n
    BY <1>1, <2>1
  <2>4. QED
    BY <1>1, <2>2, <2>3
<1>4. PICK g \in [1 .. n -> Seq(Int)] :
        Shares = g[n] /\ \A i \in 1 .. n : g[i] = Joined(g, seqs, i)
  <2>1. Shares = FlattenSeq(seqs)
    BY DEF Shares
  <2> HIDE DEF seqs, n
  <2>2. \E g \in [1 .. Len(seqs) -> Seq(Int)] :
          /\ FlattenSeq(seqs) = g[Len(seqs)]
          /\ \A i \in 1 .. Len(seqs) : g[i] = Joined(g, seqs, i)
    BY <1>3, FlattenedLists
  <2>3. QED
    BY <1>3, <2>1, <2>2
<1>5. PICK f \in [0 .. n -> Nat \X (Nat \ {0})] :
        Fractions(Params) = f[n] /\ \A i \in 0 .. n : f[i] = Summed(f, c, i)
  BY <1>1, FractionsSummed
<1>6. \A t \in 1 .. n : c[t][1] \in Int /\ c[t][2] \in Nat \ {0}
                        /\ ShareOf(t) = (Sites * c[t][1]) \div c[t][2]
  BY FractionOf DEF ShareOf
<1> HIDE DEF n, c, seqs
<1> DEFINE L(i) == IF i = 0 THEN 0 ELSE Len(g[i])
           Fits0(i) == L(i) * f[i][2] <= Sites * f[i][1]
           Good == {i \in 0 .. n : Fits0(i)}
<1>7. 0 \in Good
  <2>1. 0 \in 0 .. n
    BY <1>1
  <2>2. f[0] = <<0, 1>>
    BY <1>5, <2>1 DEF Summed
  <2>3. QED
    BY <1>1, <2>1, <2>2
<1>8. ASSUME NEW i \in 1 .. n, i - 1 \in Good PROVE i \in Good
  <2>1. i \in 0 .. n /\ i - 1 \in 0 .. n /\ i # 0 /\ i \in Int
    BY <1>1
  <2>2. PICK k \in Nat : k = L(i - 1)
    <3>1. CASE i = 1
      BY <3>1
    <3>2. CASE i # 1
      <4>1. i - 1 \in 1 .. n
        BY <2>1, <3>2
      <4>2. QED
        BY <2>1, <3>2, <4>1
    <3>3. QED
      BY <3>1, <3>2
  <2>3. PICK a \in Nat, b \in Nat \ {0} : f[i - 1] = <<a, b>>
    BY <2>1
  <2>4. k * b <= Sites * a
    BY <1>8, <2>2, <2>3
  <2>5. L(i) = k + Len(seqs[i])
    <3>1. CASE i = 1
      <4>1. g[i] = seqs[i]
        BY <1>4, <3>1 DEF Joined
      <4>2. k = 0
        BY <2>2, <3>1
      <4>3. Len(seqs[i]) \in Nat
        BY <1>2
      <4>4. QED
        BY <2>1, <4>1, <4>2, <4>3
    <3>2. CASE i # 1
      <4>1. i - 1 \in 1 .. n /\ i - 1 # 0
        BY <2>1, <3>2
      <4>2. g[i] = g[i - 1] \o seqs[i]
        BY <1>4, <3>2 DEF Joined
      <4>3. g[i - 1] \in Seq(Int) /\ seqs[i] \in Seq(Int)
        BY <1>2, <4>1
      <4>4. Len(g[i]) = Len(g[i - 1]) + Len(seqs[i])
        BY <4>2, <4>3
      <4>5. QED
        BY <2>1, <2>2, <4>1, <4>4
    <3>3. QED
      BY <3>1, <3>2
  <2>6. Len(seqs[i]) = IF ShareOf(i) > 0 THEN ShareOf(i) ELSE 0
    <3>1. ShareOf(i) \in Int
      BY ShareTyped DEF n
    <3>2. QED
      BY <1>2, <3>1, RowLength
  <2>7. f[i] = IF c[i][1] <= 0 THEN <<a, b>>
               ELSE <<a * c[i][2] + c[i][1] * b, b * c[i][2]>>
    BY <1>5, <2>1, <2>3 DEF Summed
  <2>8. Fits0(i)
    <3>1. CASE c[i][1] <= 0
      <4>1. ShareOf(i) <= 0
        <5>1. PICK x \in Int, d \in Nat \ {0} : x = Sites * c[i][1] /\ d = c[i][2] /\ x <= 0
          <6>1. \A y \in Int : y <= 0 => Sites * y \in Int /\ Sites * y <= 0
            BY <1>1
          <6>2. QED
            BY <1>6, <3>1, <6>1
        <5>2. x \div d <= 0
          <6>1. PICK q \in Int, r \in Nat : q = x \div d /\ x = q * d + r
            OBVIOUS
          <6>2. ASSUME q > 0 PROVE FALSE
            <7>1. q * d > 0 /\ q * d \in Int
              BY <6>2
            <7>2. QED
              BY <5>1, <6>1, <7>1
          <6>3. QED
            BY <6>1, <6>2
        <5>3. QED
          BY <1>6, <5>1, <5>2
      <4>2. L(i) = k
        <5>1. ShareOf(i) \in Int
          BY ShareTyped DEF n
        <5>2. Len(seqs[i]) = 0
          BY <2>6, <4>1, <5>1
        <5>3. QED
          BY <2>5, <5>2
      <4>3. f[i] = <<a, b>>
        BY <2>7, <3>1
      <4> HIDE DEF L
      <4>4. QED
        BY <2>4, <4>2, <4>3
    <3>2. CASE ~(c[i][1] <= 0)
      <4>1. PICK d \in Nat \ {0}, e \in Nat \ {0} : d = c[i][1] /\ e = c[i][2]
        BY <1>6, <3>2
      <4>2. PICK s \in Nat : s = ShareOf(i) /\ s = (Sites * d) \div e
        <5>1. PICK u \in Nat : u = Sites * d
          BY <1>1
        <5>2. u \div e \in Nat
          BY Digits
        <5>3. QED
          BY <1>6, <4>1, <5>1, <5>2
      <4>3. L(i) = k + s
        <5>1. Len(seqs[i]) = s
          BY <2>6, <4>2
        <5>2. QED
          BY <2>5, <5>1
      <4>4. f[i] = <<a * e + d * b, b * e>>
        BY <2>7, <3>2, <4>1
      <4>5. (k + s) * (b * e) <= Sites * (a * e + d * b)
        BY <1>1, <2>4, <4>2, OneMoreShare
      <4> HIDE DEF L
      <4>6. QED
        BY <4>3, <4>4, <4>5
    <3>3. QED
      BY <3>1, <3>2
  <2> HIDE DEF Fits0
  <2>9. QED
    BY <2>1, <2>8
<1>9. Fits0(n)
  <2> HIDE DEF Fits0
  <2>1. 0 .. n \subseteq Good
    <3> HIDE DEF Good
    <3>1. QED
      BY <1>1, <1>7, <1>8, UpTo
  <2>2. n \in 0 .. n
    BY <1>1
  <2>3. QED
    BY <2>1, <2>2
<1>10. PICK l \in Nat, a \in Nat, b \in Nat \ {0} :
         l = Len(Shares) /\ f[n] = <<a, b>> /\ l * b <= Sites * a
  <2>1. n # 0 /\ n \in 0 .. n /\ n \in 1 .. n
    BY <1>1
  <2>2. PICK a \in Nat, b \in Nat \ {0} : f[n] = <<a, b>>
    BY <2>1
  <2>3. Len(g[n]) \in Nat
    BY <2>1
  <2>4. L(n) = Len(Shares)
    BY <1>4, <2>1
  <2> HIDE DEF L
  <2>5. QED
    BY <1>4, <1>9, <2>2, <2>3, <2>4
<1>11. a <= b
  BY <1>5, <1>10 DEF ExceedOne
<1>12. ~(l > Sites)
  <2>1. ASSUME l > Sites PROVE FALSE
    <3>1. PICK x \in Nat : l = Sites + x + 1
      <4>1. l - Sites - 1 \in Nat /\ l = Sites + (l - Sites - 1) + 1
        BY <1>1, <2>1
      <4>2. QED
        BY <4>1
    <3>2. PICK y \in Nat : b = a + y
      <4>1. b - a \in Nat /\ b = a + (b - a)
        BY <1>11
      <4>2. QED
        BY <4>1
    <3>3. l * b = Sites * a + Sites * y + x * b + b
      BY <1>1, <3>1, <3>2
    <3>4. Sites * a \in Nat /\ Sites * y \in Nat /\ x * b \in Nat
      BY <1>1
    <3>5. QED
      BY <1>10, <3>3, <3>4
  <2>2. QED
    BY <2>1
<1>13. QED
  BY <1>1, <1>10, <1>12

(***************************************************************************)
(* The numbers drawn.                                                      *)
(***************************************************************************)
LEMMA WordsTyped ==
  ASSUME NEW a \in Word, NEW b \in Word, NEW n \in Nat
  PROVE  /\ Shl(a, n) \in Word /\ Shr(a, n) \in Word
         /\ Xor(a, b) \in Word /\ Plus(a, b) \in Word
<1>1. \A x, y \in Word : Xor(x, y) \in Word
  BY DEF Xor, Word
<1>2. Carries(a, b) \in Word
  BY DEF Carries, Word
<1>3. <<a, b>> \in Word \X Word
  OBVIOUS
<1>4. Plus(a, b) = Xor(Xor(a, b), Carries(a, b))
  BY <1>3 DEF Plus, sum
<1>5. QED
  BY <1>1, <1>2, <1>4 DEF Shl, Shr, Word

(* A call of kiss() leaves a generator and a word.                         *)
LEMMA KissTyped ==
  ASSUME NEW s \in seed_type
  PROVE  kiss(s) \in seed_type /\ Drawn(s) \in Word
<1>1. s.i \in Word /\ s.j \in Word /\ s.k \in Word
  BY DEF seed_type
<1>2. \A a, b \in Word : Plus(a, b) \in Word /\ Xor(a, b) \in Word
  BY WordsTyped
<1>3. \A a \in Word, n \in Nat : Shl(a, n) \in Word /\ Shr(a, n) \in Word
  BY WordsTyped
<1>4. Times69069(s.i) \in Word
  BY <1>1, <1>2, <1>3 DEF Times69069
<1>5. C23606797 \in Word
  BY DEF C23606797, Word, Bit
<1>6. NextI(s.i) \in Word
  BY <1>2, <1>4, <1>5 DEF NextI
<1>7. NextJ(s.j) \in Word
  BY <1>1, <1>2, <1>3 DEF NextJ
<1>8. NextK(s.k) \in Word
  <2>1. \A a \in Word : a \ {31} \in Word
    BY DEF Word
  <2>2. QED
    BY <1>1, <1>2, <1>3, <2>1 DEF NextK
<1>9. Drawn(s) \in Word
  BY <1>1, <1>2 DEF Drawn
<1>10. QED
  BY <1>6, <1>7, <1>8, <1>9 DEF kiss, seed_type

(* The seeding makes a generator.                                          *)
LEMMA SeedTyped ==
  ASSUME NEW k \in Word
  PROVE  shelltimeseed(k) \in seed_type
BY DEF shelltimeseed, kisset, seed_type, Word, Bit

(* The number of 16 bits, and when it is the largest.                      *)
Ones(bits, n) == IF n \in bits THEN 1 ELSE 0
Doubled(above, bits, n) == IF n = 16 THEN 0 ELSE 2 * above[n + 1] + Ones(bits, n)

(* It has 16 bits, and all of them when it is the largest.                 *)
LEMMA NumberBound ==
  ASSUME NEW bits
  PROVE  /\ Number(bits) \in Nat /\ Number(bits) <= 65535
         /\ (Number(bits) = 65535 => 0 .. 15 \subseteq bits)
<1> DEFINE step == [z \in Nat \X (1 .. 16) |-> 2 * z[1] + Ones(bits, 16 - z[2])]
           above == CHOOSE f : f = [n \in 0 .. 16 |-> Doubled(f, bits, n)]
<1>1. \A n : Ones(bits, n) \in 0 .. 1 /\ (Ones(bits, n) = 1 => n \in bits)
  BY DEF Ones
<1>2. step \in [Nat \X (1 .. 16) -> Nat]
  BY <1>1
<1>3. PICK t \in [0 .. 16 -> Nat] : IsTrace(t, 0, step, 16)
  <2> HIDE DEF step
  <2>1. 0 \in Nat /\ 16 \in Nat
    OBVIOUS
  <2>2. QED
    BY <1>2, <2>1, TraceExists
<1>4. \E f : f = [n \in 0 .. 16 |-> Doubled(f, bits, n)]
  <2> DEFINE h == [n \in 0 .. 16 |-> t[16 - n]]
  <2>1. ASSUME NEW n \in 0 .. 16 PROVE h[n] = Doubled(h, bits, n)
    <3>1. CASE n = 16
      BY <1>3, <3>1 DEF IsTrace, Doubled
    <3>2. CASE n # 16
      <4>1. 16 - n \in 1 .. 16 /\ (16 - n) - 1 = 16 - (n + 1) /\ n + 1 \in 0 .. 16
            /\ 16 - (16 - n) = n /\ 16 - (n + 1) \in 0 .. 16
        BY <3>2
      <4>2. t[16 - n] = step[<<t[16 - (n + 1)], 16 - n>>]
        BY <1>3, <4>1 DEF IsTrace
      <4>3. step[<<t[16 - (n + 1)], 16 - n>>] = 2 * t[16 - (n + 1)] + Ones(bits, n)
        BY <4>1
      <4>4. h[n] = t[16 - n] /\ h[n + 1] = t[16 - (n + 1)]
        BY <4>1
      <4> HIDE DEF h, step
      <4>5. QED
        BY <3>2, <4>2, <4>3, <4>4 DEF Doubled
    <3>3. QED
      BY <3>1, <3>2
  <2>2. h = [n \in 0 .. 16 |-> h[n]]
    OBVIOUS
  <2> HIDE DEF h
  <2>3. h = [n \in 0 .. 16 |-> Doubled(h, bits, n)]
    BY <2>1, <2>2
  <2>4. QED
    BY <2>3
<1>5. above = [n \in 0 .. 16 |-> Doubled(above, bits, n)]
  BY <1>4
<1>6. Number(bits) = above[0]
  BY DEF Number, Doubled, Ones
<1> HIDE DEF above
<1>7. \A n \in 0 .. 16 : above[n] = Doubled(above, bits, n)
  BY <1>5
<1> DEFINE Below(n, m) == /\ above[n] \in Nat /\ above[n] <= m
                          /\ above[n] = m => n .. 15 \subseteq bits
<1>8. Below(16, 0)
  <2>1. above[16] = 0
    BY <1>7 DEF Doubled
  <2>2. 16 .. 15 = {}
    OBVIOUS
  <2>3. QED
    BY <2>1, <2>2
<1>9. ASSUME NEW n \in 0 .. 15, NEW m \in Nat, Below(n + 1, m) PROVE Below(n, 2 * m + 1)
  <2>1. above[n] = 2 * above[n + 1] + Ones(bits, n)
    BY <1>7 DEF Doubled
  <2>2. PICK x \in Nat, o \in 0 .. 1 : x <= m /\ x = above[n + 1] /\ o = Ones(bits, n)
    BY <1>1, <1>9
  <2>3. above[n] \in Nat /\ above[n] <= 2 * m + 1
    BY <2>1, <2>2
  <2>4. ASSUME above[n] = 2 * m + 1 PROVE n .. 15 \subseteq bits
    <3>1. x = m /\ o = 1
      BY <2>1, <2>2, <2>4
    <3>2. n \in bits /\ n + 1 .. 15 \subseteq bits
      BY <1>1, <1>9, <2>2, <3>1
    <3>3. \A k \in n .. 15 : k = n \/ k \in n + 1 .. 15
      OBVIOUS
    <3>4. QED
      BY <3>2, <3>3
  <2>5. QED
    BY <2>3, <2>4
<1> HIDE DEF Below
<1>10. \A n \in 0 .. 15, m \in Nat : Below(n + 1, m) => Below(n, 2 * m + 1)
  BY <1>9
<1>11. Below(15, 1) /\ (Below(15, 1) => Below(14, 3))
  BY <1>8, <1>10
<1>12. Below(13, 7)
  BY <1>10, <1>11
<1>13. Below(12, 15)
  BY <1>10, <1>12
<1>14. Below(11, 31)
  BY <1>10, <1>13
<1>15. Below(10, 63)
  BY <1>10, <1>14
<1>16. Below(9, 127)
  BY <1>10, <1>15
<1>17. Below(8, 255)
  BY <1>10, <1>16
<1>18. Below(7, 511)
  BY <1>10, <1>17
<1>19. Below(6, 1023)
  BY <1>10, <1>18
<1>20. Below(5, 2047)
  BY <1>10, <1>19
<1>21. Below(4, 4095)
  BY <1>10, <1>20
<1>22. Below(3, 8191)
  BY <1>10, <1>21
<1>23. Below(2, 16383)
  BY <1>10, <1>22
<1>24. Below(1, 32767)
  BY <1>10, <1>23
<1>25. Below(0, 65535)
  BY <1>10, <1>24
<1>26. \A m : Below(0, m) => Number(bits) \in Nat /\ Number(bits) <= m /\ (Number(bits) = m => 0 .. 15 \subseteq bits)
  BY <1>6 DEF Below
<1>27. QED
  BY <1>25, <1>26, SMT

(* The products of the halves.                                             *)
LEMMA Scaled ==
  ASSUME NEW x \in Nat, NEW y \in Nat, x <= y, NEW n \in Nat
  PROVE  x * n <= y * n /\ x * n \in Nat
<1>1. PICK w \in Nat : y = x + w
  <2>1. y - x \in Nat /\ y = x + (y - x)
    OBVIOUS
  <2>2. QED
    BY <2>1
<1>2. y * n = x * n + w * n /\ x * n \in Nat /\ w * n \in Nat
  BY <1>1
<1>3. QED
  BY <1>2

(* A product of a word that is not all ones stays below n * UINT_MAX.      *)
LEMMA ProductBelow ==
  ASSUME NEW H \in Nat, NEW L \in Nat, H <= 65535, L <= 65535, H # 65535 \/ L # 65535,
         NEW n \in Nat \ {0}
  PROVE  /\ H * n \in Nat /\ L * n \in Nat
         /\ 65536 * (H * n) + L * n <= 4294967294 * n
<1>1. H * n <= 65535 * n /\ H * n \in Nat /\ L * n <= 65535 * n /\ L * n \in Nat
  BY Scaled, SMT
<1>2. H * n <= 65534 * n \/ L * n <= 65534 * n
  <2>1. CASE H <= 65534
    BY <2>1, Scaled, SMT
  <2>2. CASE L <= 65534
    BY <2>2, Scaled, SMT
  <2>3. QED
    BY <2>1, <2>2, SMT
<1>3. PICK u \in Nat, v \in Nat : u = H * n /\ v = L * n
  BY <1>1, SMT
<1>4. QED
  BY <1>1, <1>2, <1>3, SMT

(* A number drawn is turned into an element.                               *)
LEMMA IndexInRange ==
  ASSUME NEW out \in Word, ~Redraw(out), NEW n \in Nat \ {0}
  PROVE  Index(out, n) \in 0 .. n - 1
<1>1. PICK L \in Nat, H \in Nat : H <= 65535 /\ L <= 65535 /\ L = Number(out) /\ H = Number(Shr(out, 16))
  BY NumberBound, SMT
<1>2. H # 65535 \/ L # 65535
  <2>1. ASSUME H = 65535, L = 65535 PROVE FALSE
    <3>1. 0 .. 15 \subseteq out /\ 0 .. 15 \subseteq Shr(out, 16)
      <4>1. \A bits : Number(bits) = 65535 => 0 .. 15 \subseteq bits
        BY NumberBound, SMT
      <4>2. Number(out) = 65535 /\ Number(Shr(out, 16)) = 65535
        BY <1>1, <2>1, SMT
      <4>3. QED
        BY <4>1, <4>2, SMT
    <3>2. \A b \in 16 .. 31 : b \in out
      <4> TAKE b \in 16 .. 31
      <4>1. b - 16 \in 0 .. 15 /\ (b - 16) + 16 = b
        BY SMT
      <4>2. QED
        BY <3>1, <4>1, SMT DEF Shr
    <3>3. \A b \in Bit : b \in out
      <4>1. \A b \in Bit : b \in 0 .. 15 \/ b \in 16 .. 31
        BY DEF Bit, SMT
      <4>2. QED
        BY <3>1, <3>2, <4>1, SMT
    <3>4. QED
      BY <3>3, SMT DEF Redraw, Word
  <2>2. QED
    BY <2>1, SMT
<1>3. PICK u \in Nat, v \in Nat : u = H * n /\ v = L * n /\ 65536 * u + v <= 4294967294 * n
  <2>1. H * n \in Nat /\ L * n \in Nat
    BY SMT
  <2>2. 65536 * (H * n) + L * n <= 4294967294 * n
    BY <1>1, <1>2, ProductBelow, SMT
  <2>3. QED
    BY <2>1, <2>2, SMT
<1>4. PICK v1 \in Nat, v0 \in Nat : v0 <= 65535 /\
        v1 = v \div 65536 /\ v0 = v % 65536 /\ v = v1 * 65536 + v0
  BY Digits, SMT
<1>5. PICK hi \in Nat : hi = u + v1
  BY SMT
<1>6. PICK q \in Nat, h0 \in Nat : h0 <= 65535 /\
        q = hi \div 65536 /\ h0 = hi % 65536 /\ hi = q * 65536 + h0
  BY Digits, SMT
<1>7. Index(out, n) = IF h0 = 65535 /\ v0 + q >= 65535 THEN q + 1 ELSE q
  BY <1>1, <1>3, <1>4, <1>5, <1>6, SMT DEF Index
<1>8. 65536 * u + v = 4294967296 * q + 65536 * h0 + v0
  BY <1>4, <1>5, <1>6, SMT
<1>9. q <= n - 1
  BY <1>3, <1>8, SMT
<1>10. CASE h0 = 65535 /\ v0 + q >= 65535
  <2>1. q + 1 <= n - 1
    BY <1>3, <1>8, <1>9, <1>10, SMT
  <2>2. QED
    BY <1>7, <1>10, <2>1, SMT
<1>11. CASE ~(h0 = 65535 /\ v0 + q >= 65535)
  BY <1>7, <1>9, <1>11, SMT
<1>12. QED
  BY <1>10, <1>11, SMT

(***************************************************************************)
(* From the arguments to the first energy.                                 *)
(***************************************************************************)
Unread == {"args", "read"}
Bare == Unread \cup {"load", "ini_T", "ini_sys"}
Making == {"fill", "draw"}
Served == {"ini_apos", "ready"}
Passing == {"bcastAtom", "bcastNT"} \cup Served

Lattices == [Cell(Params.N) -> Kinds]
Counters == [Kinds -> 0 .. Sites]

(* Only rank 0 makes a configuration.                                      *)
Staged == /\ pc \in [Rank -> Bare \cup Making \cup Passing]
          /\ \A r \in Rank : pc[r] \in Making => r = 0

(* Who goes on after reading has accepted parameters, and a seed.          *)
Informed == /\ par \in [Rank -> {None, Params}]
            /\ \A r \in Rank : pc[r] \notin Unread => /\ par[r] = Params
                                                      /\ ReadInput(job.file)
Seeded == /\ seed \in [Rank -> {None} \cup seed_type]
          /\ \A r \in Rank : pc[r] # "args" => seed[r] \in seed_type

(* The arrays have the sizes of the parameters before anything is received.*)
Equipped == /\ Atom = [r \in Rank |-> Atom[r]] /\ NT = [r \in Rank |-> NT[r]]
            /\ \A r \in Rank :
                 IF pc[r] \in Bare THEN Atom[r] = <<>> /\ NT[r] = <<>>
                 ELSE Atom[r] \in Lattices /\ NT[r] \in Counters

(* The list holds the shares, and never more than the lattice.             *)
AtomList == list \in Seq(Kinds) /\ Len(list) <= Sites /\ HasShares(list)
Listed == IF pc[0] \in Bare \cup {"fill"} THEN list = <<>> ELSE AtomList

(* What rank 0 sends is a configuration with its counts ...                *)
Counted(A, n) == \A t \in Kinds : /\ n[t] = Count(A, Cell(Params.N), t)
                                  /\ n[t] >= ShareOf(t + 1)
Made == pc[0] \in Passing => Counted(Atom[0], NT[0])

(* ... and it is on its way to a rank, or there.                           *)
Waiting(r) == pc[r] \notin {"bcastNT"} \cup Served
OnItsWay(r) ==
  \/ pc[0] \notin {"bcastNT"} \cup Served /\ sent[r] = <<>> /\ Waiting(r)
  \/ pc[0] = "bcastNT" /\ sent[r] = <<Atom[0]>> /\ Waiting(r)
  \/ pc[0] = "bcastNT" /\ sent[r] = <<>> /\ pc[r] = "bcastNT" /\ Atom[r] = Atom[0]
  \/ pc[0] \in Served /\ sent[r] = <<Atom[0], NT[0]>> /\ Waiting(r)
  \/ pc[0] \in Served /\ sent[r] = <<NT[0]>> /\ pc[r] = "bcastNT" /\ Atom[r] = Atom[0]
  \/ /\ pc[0] \in Served /\ sent[r] = <<>> /\ pc[r] \in Served
     /\ Atom[r] = Atom[0] /\ NT[r] = NT[0]
Underway == /\ sent = [r \in Rank |-> sent[r]] /\ sent[0] = <<>>
            /\ \A r \in Rank \ {0} : OnItsWay(r)

SInv == /\ job \in Jobs
        /\ Staged /\ Informed /\ Seeded /\ Equipped /\ Listed /\ Made /\ Underway

(* There is a rank 0.                                                      *)
LEMMA RootIsRank == 0 \in Rank
BY NodeAssumption DEF Rank

(* The parameters are those of the job.                                    *)
LEMMA SameParams ==
  ASSUME job' = job
  PROVE  /\ Params' = Params /\ Sites' = Sites /\ Kinds' = Kinds
         /\ Lattices' = Lattices /\ Counters' = Counters
         /\ \A t : ShareOf(t)' = ShareOf(t)
BY DEF Params, Sites, Kinds, Lattices, Counters, ShareOf

(* The invariant is about these variables only.                            *)
LEMMA NoStep ==
  ASSUME SInv, UNCHANGED <<job, pc, par, seed, list, Atom, NT, sent>>
  PROVE  SInv'
<1>1. /\ Params' = Params /\ Sites' = Sites /\ Kinds' = Kinds
      /\ Lattices' = Lattices /\ Counters' = Counters
      /\ \A t : ShareOf(t)' = ShareOf(t)
  BY SameParams
<1>2. Staged' /\ Informed' /\ Seeded' /\ Equipped'
  BY <1>1 DEF SInv, Staged, Informed, Seeded, Equipped
<1>3. Listed'
  BY <1>1 DEF SInv, Listed, AtomList, HasShares
<1>4. Made'
  BY <1>1 DEF SInv, Made, Counted
<1>5. Underway'
  BY DEF SInv, Underway, OnItsWay, Waiting
<1>6. QED
  BY <1>2, <1>3, <1>4, <1>5 DEF SInv

(* A rank before its arrays.                                               *)
LEMMA BareStep ==
  ASSUME SInv, NEW r \in Rank, pc[r] \in Bare, NEW b \in Bare, Goto(r, b),
         UNCHANGED <<job, list, Atom, NT, sent>>
  PROVE  /\ Staged' /\ Equipped' /\ Listed' /\ Made' /\ Underway'
         /\ \A q \in Rank : q # r => pc'[q] = pc[q]
         /\ pc'[r] = b
<1>1. /\ Params' = Params /\ Sites' = Sites /\ Kinds' = Kinds
      /\ Lattices' = Lattices /\ Counters' = Counters
      /\ \A t : ShareOf(t)' = ShareOf(t)
  BY SameParams
<1>2. /\ \A q \in Rank : q # r => pc'[q] = pc[q]
      /\ pc'[r] = b
  BY DEF Goto, SInv, Staged
<1>3. b \notin Making \cup Passing /\ pc[r] \notin Making \cup Passing
      /\ b # "fill" /\ b \notin {"bcastNT"} \cup Served
      /\ pc[r] \notin {"bcastNT"} \cup Served
      /\ b # "bcastNT" /\ b \notin Served
  BY DEF Bare, Unread, Making, Passing, Served
<1>4. Staged'
  BY <1>2, <1>3 DEF SInv, Staged, Goto
<1>5. Equipped'
  BY <1>1, <1>2 DEF SInv, Equipped
<1>6. Listed'
  BY <1>1, <1>2, <1>3, RootIsRank DEF SInv, Listed, AtomList, HasShares
<1>7. Made'
  BY <1>1, <1>2, <1>3, RootIsRank DEF SInv, Made, Counted
<1>8. Underway'
  <2>1. ASSUME NEW q \in Rank \ {0} PROVE OnItsWay(q)'
    <3>1. OnItsWay(q)
      BY DEF SInv, Underway
    <3>2. CASE r = 0
      <4>1. sent[q] = <<>> /\ Waiting(q)
        BY <1>3, <3>1, <3>2 DEF OnItsWay
      <4>2. Waiting(q)'
        BY <1>2, <3>2, <4>1 DEF Waiting
      <4>3. QED
        BY <1>2, <1>3, <3>2, <4>1, <4>2 DEF OnItsWay
    <3>3. CASE r # 0 /\ q = r
      <4>1. Waiting(q)'
        BY <1>2, <1>3, <3>3 DEF Waiting
      <4>2. pc'[0] = pc[0]
        BY <1>2, <3>3, RootIsRank
      <4>3. QED
        BY <1>3, <3>1, <3>3, <4>1, <4>2 DEF OnItsWay
    <3>4. CASE r # 0 /\ q # r
      <4>1. pc'[0] = pc[0] /\ pc'[q] = pc[q]
        BY <1>2, <3>4, RootIsRank
      <4>2. QED
        BY <3>1, <4>1 DEF OnItsWay, Waiting
    <3>5. QED
      BY <3>2, <3>3, <3>4
  <2>2. QED
    BY <2>1 DEF SInv, Underway
<1>9. QED
  BY <1>2, <1>4, <1>5, <1>6, <1>7, <1>8

(* Seeding gives a rank its generator.                                     *)
LEMMA SeedingKeeps ==
  ASSUME SInv, NEW r \in Rank, Seeding(r)
  PROVE  SInv'
<1>1. /\ pc[r] = "args" /\ Goto(r, "read")
      /\ seed' = [seed EXCEPT ![r] = shelltimeseed(job.tseed[r])]
      /\ UNCHANGED <<job, par, list, Atom, NT, sent>>
  BY DEF Seeding, At, placed
<1>2. pc[r] \in Bare /\ "read" \in Bare /\ "read" \in Unread
  BY <1>1 DEF Bare, Unread
<1>3. /\ Staged' /\ Equipped' /\ Listed' /\ Made' /\ Underway'
      /\ \A q \in Rank : q # r => pc'[q] = pc[q]
      /\ pc'[r] = "read"
  BY <1>1, <1>2, BareStep
<1>4. Informed'
  BY <1>1, <1>2, <1>3, SameParams DEF SInv, Informed
<1>5. Seeded'
  <2>1. job.tseed[r] \in Word
    BY JobAssumption DEF SInv
  <2>2. shelltimeseed(job.tseed[r]) \in seed_type
    BY <2>1, SeedTyped
  <2>3. QED
    BY <1>1, <1>3, <2>2 DEF SInv, Seeded
<1>6. QED
  BY <1>1, <1>3, <1>4, <1>5 DEF SInv

(* Reading gives it the parameters of the job.                             *)
LEMMA ReadKeeps ==
  ASSUME SInv, NEW r \in Rank, Read(r)
  PROVE  SInv'
<1>1. /\ pc[r] = "read" /\ Goto(r, "load") /\ ReadInput(job.file)
      /\ par' = [par EXCEPT ![r] = Params]
      /\ UNCHANGED <<job, seed, list, Atom, NT, sent>>
  BY DEF Read, Readable, At, placed, Params
<1>2. pc[r] \in Bare /\ "load" \in Bare /\ pc[r] # "args"
  BY <1>1 DEF Bare, Unread
<1>3. /\ Staged' /\ Equipped' /\ Listed' /\ Made' /\ Underway'
      /\ \A q \in Rank : q # r => pc'[q] = pc[q]
      /\ pc'[r] = "load"
  BY <1>1, <1>2, BareStep
<1>4. Informed'
  BY <1>1, <1>3, SameParams DEF SInv, Informed
<1>5. Seeded'
  BY <1>1, <1>2, <1>3 DEF SInv, Seeded
<1>6. QED
  BY <1>1, <1>3, <1>4, <1>5 DEF SInv

(* Loading networks and testing temperatures change nothing of this.       *)
LEMMA OnwardKeeps ==
  ASSUME SInv, NEW r \in Rank, LoadModels(r) \/ ini_T(r)
  PROVE  SInv'
<1>1. /\ pc[r] \in {"load", "ini_T"}
      /\ UNCHANGED <<job, par, seed, list, Atom, NT, sent>>
  BY DEF LoadModels, ini_T, At, placed
<1>2. PICK b \in {"ini_T", "ini_sys"} : Goto(r, b)
  BY DEF LoadModels, ini_T
<1>3. /\ pc[r] \in Bare /\ b \in Bare /\ pc[r] # "args" /\ b # "args"
      /\ pc[r] \notin Unread /\ b \notin Unread
  BY <1>1 DEF Bare, Unread
<1>4. /\ Staged' /\ Equipped' /\ Listed' /\ Made' /\ Underway'
      /\ \A q \in Rank : q # r => pc'[q] = pc[q]
      /\ pc'[r] = b
  BY <1>1, <1>2, <1>3, BareStep
<1>5. Informed'
  BY <1>1, <1>3, <1>4, SameParams DEF SInv, Informed
<1>6. Seeded'
  BY <1>1, <1>3, <1>4 DEF SInv, Seeded
<1>7. QED
  BY <1>1, <1>4, <1>5, <1>6 DEF SInv

(* Nobody passes ReadInput() with parameters it does not accept.           *)
LEMMA AcceptedAfterReading ==
  ASSUME SInv, NEW r \in Rank, pc[r] \notin Unread
  PROVE  Accepted /\ par[r] = Params
BY InputAccepted DEF SInv, Informed

(* The arrays get their sizes.                                             *)
LEMMA ini_sysKeeps ==
  ASSUME SInv, NEW r \in Rank, ini_sys(r)
  PROVE  SInv'
<1> DEFINE next == IF r = 0 THEN "fill" ELSE "bcastAtom"
<1>1. /\ pc[r] = "ini_sys" /\ Goto(r, next)
      /\ Atom' = [Atom EXCEPT ![r] = [s \in Cell(par[r].N) |-> 0]]
      /\ NT' = [NT EXCEPT ![r] = [t \in 0 .. par[r].NE - 1 |-> 0]]
      /\ UNCHANGED <<job, par, seed, list, sent>>
  BY DEF ini_sys, CouplingRead, At, resize_pair_arrays
<1>2. /\ pc[r] \in Bare /\ pc[r] \notin Unread /\ pc[r] # "args"
      /\ next \notin Bare /\ next \notin Unread /\ next # "args"
      /\ next \in Making \cup Passing /\ next \notin {"bcastNT"} \cup Served
      /\ pc[r] \notin {"bcastNT"} \cup Served
      /\ (r = 0 => next = "fill") /\ (r # 0 => next \notin Making)
  BY <1>1 DEF Bare, Unread, Making, Passing, Served
<1>3. Accepted /\ par[r] = Params
  BY <1>2, AcceptedAfterReading
<1>4. /\ Params' = Params /\ Sites' = Sites /\ Kinds' = Kinds
      /\ Lattices' = Lattices /\ Counters' = Counters
      /\ \A t : ShareOf(t)' = ShareOf(t)
  BY <1>1, SameParams
<1> HIDE DEF next
<1>5. /\ \A q \in Rank : q # r => pc'[q] = pc[q] /\ Atom'[q] = Atom[q] /\ NT'[q] = NT[q]
      /\ pc'[r] = next
      /\ Atom'[r] = [s \in Cell(par[r].N) |-> 0]
      /\ NT'[r] = [t \in 0 .. par[r].NE - 1 |-> 0]
  BY <1>1 DEF Goto, SInv, Staged, Equipped
<1>6. Staged'
  BY <1>1, <1>2, <1>5 DEF SInv, Staged, Goto
<1>7. Informed' /\ Seeded'
  BY <1>1, <1>2, <1>4, <1>5 DEF SInv, Informed, Seeded
<1>8. Equipped'
  <2>1. 0 \in Kinds /\ 0 \in 0 .. Sites
    BY <1>3 DEF Accepted, Kinds
  <2>2. Atom'[r] \in Lattices
    BY <1>3, <1>5, <2>1 DEF Lattices
  <2>3. NT'[r] \in Counters
    BY <1>3, <1>5, <2>1 DEF Counters, Kinds
  <2>4. (Atom = [q \in Rank |-> Atom[q]] /\ NT = [q \in Rank |-> NT[q]])'
    BY <1>1 DEF SInv, Equipped
  <2>5. QED
    BY <1>2, <1>4, <1>5, <2>2, <2>3, <2>4 DEF SInv, Equipped
<1>9. Listed'
  <2>1. CASE r = 0
    BY <1>1, <1>2, <1>5, <2>1 DEF SInv, Listed
  <2>2. CASE r # 0
    BY <1>1, <1>4, <1>5, <2>2, RootIsRank DEF SInv, Listed, AtomList, HasShares
  <2>3. QED
    BY <2>1, <2>2
<1>10. Made'
  <2>1. CASE r = 0
    BY <1>2, <1>5, <2>1 DEF Made, Passing
  <2>2. CASE r # 0
    BY <1>4, <1>5, <2>2, RootIsRank DEF SInv, Made, Counted
  <2>3. QED
    BY <2>1, <2>2
<1>11. Underway'
  <2>1. ASSUME NEW q \in Rank \ {0} PROVE OnItsWay(q)'
    <3>1. OnItsWay(q)
      BY DEF SInv, Underway
    <3>2. CASE r = 0
      <4>1. sent[q] = <<>> /\ Waiting(q)
        BY <1>2, <3>1, <3>2 DEF OnItsWay
      <4>2. Waiting(q)'
        BY <1>5, <3>2, <4>1 DEF Waiting
      <4>3. QED
        BY <1>1, <1>2, <1>5, <3>2, <4>1, <4>2 DEF OnItsWay
    <3>3. CASE r # 0 /\ q = r
      <4>1. Waiting(q)'
        BY <1>2, <1>5, <3>3 DEF Waiting
      <4>2. pc'[0] = pc[0] /\ Atom'[0] = Atom[0] /\ NT'[0] = NT[0]
        BY <1>5, <3>3, RootIsRank
      <4>3. pc[q] # "bcastNT" /\ pc[q] \notin Served
        BY <1>2, <3>3
      <4>4. QED
        BY <1>1, <3>1, <4>1, <4>2, <4>3 DEF OnItsWay
    <3>4. CASE r # 0 /\ q # r
      <4>1. /\ pc'[0] = pc[0] /\ Atom'[0] = Atom[0] /\ NT'[0] = NT[0]
            /\ pc'[q] = pc[q] /\ Atom'[q] = Atom[q] /\ NT'[q] = NT[q]
        BY <1>5, <3>4, RootIsRank
      <4>2. QED
        BY <1>1, <3>1, <4>1 DEF OnItsWay, Waiting
    <3>5. QED
      BY <3>2, <3>3, <3>4
  <2>2. QED
    BY <1>1, <2>1 DEF SInv, Underway
<1>12. QED
  BY <1>1, <1>6, <1>7, <1>8, <1>9, <1>10, <1>11 DEF SInv

(* What rank 0 does before it has sent anything.                           *)
LEMMA MakingStep ==
  ASSUME SInv, pc[0] \in Making, NEW b \in Making \cup {"bcastAtom"}, Goto(0, b),
         \A q \in Rank \ {0} : Atom'[q] = Atom[q] /\ NT'[q] = NT[q],
         UNCHANGED <<job, par, sent>>
  PROVE  /\ Staged' /\ Informed' /\ Underway'
         /\ \A q \in Rank : q # 0 => pc'[q] = pc[q]
         /\ pc'[0] = b
<1>1. Params' = Params
  BY SameParams
<1>2. /\ \A q \in Rank : q # 0 => pc'[q] = pc[q]
      /\ pc'[0] = b
  BY RootIsRank DEF Goto, SInv, Staged
<1>3. /\ b \notin {"bcastNT"} \cup Served /\ pc[0] \notin {"bcastNT"} \cup Served
      /\ b \in Making \cup Passing /\ b \notin Unread /\ pc[0] \notin Unread
      /\ pc[0] # "bcastNT"
  BY DEF Making, Passing, Unread, Served
<1>4. Staged'
  BY <1>2, <1>3 DEF SInv, Staged, Goto
<1>5. Informed'
  BY <1>1, <1>2, <1>3, RootIsRank DEF SInv, Informed
<1>6. Underway'
  <2>1. ASSUME NEW q \in Rank \ {0} PROVE OnItsWay(q)'
    <3>1. sent[q] = <<>> /\ Waiting(q)
      BY <1>3 DEF SInv, Underway, OnItsWay
    <3>2. Waiting(q)'
      BY <1>2, <3>1 DEF Waiting
    <3>3. QED
      BY <1>2, <1>3, <3>1, <3>2 DEF OnItsWay
  <2>2. QED
    BY <2>1 DEF SInv, Underway
<1>7. QED
  BY <1>2, <1>4, <1>5, <1>6

(* The list gets the shares, if they are not too many.                     *)
LEMMA FillKeeps ==
  ASSUME SInv, NEW r \in Rank, Fill(r)
  PROVE  SInv'
<1>1. /\ pc[r] = "fill" /\ ~TooManyShares /\ Goto(r, "draw") /\ list' = Filled
      /\ UNCHANGED <<job, par, seed, Atom, NT, sent>>
  BY DEF Fill, At
<1>2. r = 0 /\ pc[0] = "fill"
  BY <1>1 DEF SInv, Staged, Making
<1>3. /\ pc[0] \in Making /\ "draw" \in Making /\ pc[0] \notin Unread /\ pc[0] # "args"
      /\ pc[0] \notin Bare /\ "draw" \notin Bare \cup {"fill"} /\ "draw" \notin Passing
  BY <1>2 DEF Making, Unread, Bare, Passing, Served
<1>4. Accepted /\ par[0] = Params
  BY <1>3, RootIsRank, AcceptedAfterReading
<1>5. /\ Staged' /\ Informed' /\ Underway'
      /\ \A q \in Rank : q # 0 => pc'[q] = pc[q]
      /\ pc'[0] = "draw"
  BY <1>1, <1>2, <1>3, MakingStep
<1>6. /\ Params' = Params /\ Sites' = Sites /\ Kinds' = Kinds
      /\ Lattices' = Lattices /\ Counters' = Counters
      /\ \A t : ShareOf(t)' = ShareOf(t)
  BY <1>1, SameParams
<1>7. Seeded'
  BY <1>1, <1>3, <1>5 DEF SInv, Seeded
<1>8. Equipped'
  BY <1>1, <1>3, <1>5, <1>6 DEF SInv, Equipped
<1>9. Listed'
  <2>1. Filled = Shares /\ Total = Sites
    BY <1>4, FilledIsShares
  <2>2. Shares \in Seq(Kinds) /\ HasShares(Shares)
    BY <1>4, SharesFilled
  <2>3. Len(Shares) <= Sites
    <3>1. Len(Shares) \in Nat /\ Sites \in Nat
      BY <1>4, <2>2 DEF Accepted
    <3>2. QED
      BY <1>1, <2>1, <3>1 DEF TooManyShares
  <2>4. AtomList'
    BY <1>1, <1>6, <2>1, <2>2, <2>3 DEF AtomList, HasShares
  <2>5. QED
    BY <1>3, <1>5, <2>4 DEF Listed
<1>10. Made'
  BY <1>3, <1>5 DEF Made
<1>11. QED
  BY <1>1, <1>5, <1>7, <1>8, <1>9, <1>10 DEF SInv

(* Every number drawn for one more atom is an element.                     *)
LEMMA DrawKeeps ==
  ASSUME SInv, NEW r \in Rank, Draw(r)
  PROVE  SInv'
<1>1. pc[r] = "draw" /\ Len(list) < Total /\ Drawing(r)
  BY DEF Draw, At
<1>2. r = 0 /\ pc[0] = "draw"
  BY <1>1 DEF SInv, Staged, Making
<1>3. PICK s, out :
        /\ s = kiss(seed[0]) /\ out = Drawn(s)
        /\ seed' = [seed EXCEPT ![0] = s]
        /\ list' = IF Redraw(out) THEN list ELSE Append(list, Index(out, par[0].NE))
        /\ UNCHANGED <<job, pc, par, Atom, NT, sent>>
  BY <1>1, <1>2 DEF Drawing
<1>4. /\ pc[0] \notin Unread /\ pc[0] # "args" /\ pc[0] \notin Bare \cup {"fill"}
  BY <1>2 DEF Unread, Bare
<1>5. Accepted /\ par[0] = Params
  BY <1>4, RootIsRank, AcceptedAfterReading
<1>6. /\ Params' = Params /\ Sites' = Sites /\ Kinds' = Kinds
      /\ Lattices' = Lattices /\ Counters' = Counters
      /\ \A t : ShareOf(t)' = ShareOf(t)
  BY <1>3, SameParams
<1>7. s \in seed_type /\ out \in Word
  BY <1>3, <1>4, RootIsRank, KissTyped DEF SInv, Seeded
<1>8. Seeded'
  BY <1>3, <1>7 DEF SInv, Seeded
<1>9. Staged' /\ Informed' /\ Equipped'
  BY <1>3, <1>6 DEF SInv, Staged, Informed, Equipped
<1>10. Listed'
  <2>1. AtomList
    BY <1>4 DEF SInv, Listed
  <2>2. CASE Redraw(out)
    BY <1>3, <1>4, <1>6, <2>1, <2>2 DEF Listed, AtomList, HasShares
  <2>3. CASE ~Redraw(out)
    <3>1. PICK k \in Kinds : k = Index(out, par[0].NE)
      BY <1>5, <1>7, <2>3, IndexInRange DEF Kinds, Accepted
    <3>2. list' = list \o <<k>> /\ <<k>> \in Seq(Kinds) /\ list \in Seq(Kinds)
      BY <1>3, <2>1, <2>3, <3>1 DEF AtomList
    <3>3. list' \in Seq(Kinds) /\ Len(list') = Len(list) + 1
      BY <3>2
    <3>4. Len(list') <= Sites
      <4>1. Total = Sites /\ Sites \in Nat /\ Len(list) \in Nat
        BY <1>5, <3>2, FilledIsShares DEF Accepted
      <4>2. QED
        BY <1>1, <3>3, <4>1
    <3>5. HasShares(list \o <<k>>)
      <4>1. ASSUME NEW t \in 1 .. Params.NE PROVE HasRun(list \o <<k>>, ShareOf(t), t - 1)
        <5>1. HasRun(list, ShareOf(t), t - 1)
          BY <2>1 DEF AtomList, HasShares
        <5>2. QED
          BY <3>2, <5>1, RunKept
      <4>2. QED
        BY <4>1 DEF HasShares
    <3>6. AtomList'
      BY <1>6, <3>2, <3>3, <3>4, <3>5 DEF AtomList, HasShares
    <3>7. QED
      BY <1>3, <1>4, <3>6 DEF Listed
  <2>4. QED
    BY <2>2, <2>3
<1>11. Made'
  BY <1>3, <1>6 DEF SInv, Made, Counted
<1>12. Underway'
  BY <1>3 DEF SInv, Underway, OnItsWay, Waiting
<1>13. QED
  BY <1>3, <1>8, <1>9, <1>10, <1>11, <1>12 DEF SInv

(* A configuration holds each element as often as the list it came from.   *)
LEMMA CountOnSites ==
  ASSUME NEW N \in Nat \ {0}, NEW order, NEW A,
         \A s \in Cell(N) : A[s] = order[Site(N, s) + 1], NEW t
  PROVE  Count(A, Cell(N), t) = Copies(order, N * N * N, t)
<1>1. PICK C, T : C = Cell(N) /\ T = 1 .. N * N * N
  OBVIOUS
<1>2. PICK g \in Bijection(C, T) : \A s \in C : g[s] = Site(N, s) + 1
  <2>1. \A s \in Cell(N) : [u \in Cell(N) |-> Site(N, u) + 1][s] = Site(N, s) + 1
    OBVIOUS
  <2>2. QED
    BY <1>1, <2>1, SitesAreNumbered
<1>3. IsFiniteSet(C)
  BY <1>1, CellsFinite
<1>4. \A s \in C : A[s] = order[g[s]]
  BY <1>1, <1>2
<1>5. Count(A, C, t) = Count(order, T, t)
  BY <1>3, <1>4, CountAlong
<1>6. QED
  BY <1>1, <1>5 DEF Copies

(* The list shuffled and put on the lattice is a configuration with the    *)
(* counts of the list.                                                     *)
LEMMA PlacedCounts ==
  ASSUME Accepted, NEW J \in RandRuns, NEW a \in Seq(Kinds), Len(a) = Sites, NEW A,
         A = [s \in Cell(Params.N) |-> shuffle(a, J)[Site(Params.N, s) + 1]]
  PROVE  /\ A \in Lattices
         /\ \A t : Count(A, Cell(Params.N), t) = Copies(a, Sites, t)
<1> DEFINE N == Params.N
           order == shuffle(a, J)
<1>1. N \in Nat \ {0} /\ Sites \in Nat \ {0} /\ Sites = N * N * N
      /\ J \in Seq(Nat) /\ Sites <= Len(J) + 1
  BY DEF Accepted, Sites
<1>2. a # <<>>
  BY <1>1
<1>3. /\ order \in [1 .. Sites -> Kinds]
      /\ \A v : Copies(order, Sites, v) = Copies(a, Sites, v)
  BY <1>1, <1>2, ShuffleConserves
<1>4. \A s \in Cell(N) : A[s] = order[Site(N, s) + 1] /\ Site(N, s) + 1 \in 1 .. Sites
  BY <1>1, SiteNumbered
<1> HIDE DEF N, order
<1>5. A \in Lattices
  BY <1>3, <1>4 DEF Lattices, N
<1>6. \A t : Count(A, Cell(N), t) = Copies(order, Sites, t)
  BY <1>1, <1>4, CountOnSites, ZenonT(60)
<1>7. QED
  BY <1>3, <1>5, <1>6 DEF N

(* Messages: the new one at the end, the oldest first.                     *)
LEMMA Posted ==
  ASSUME NEW x, NEW m
  PROVE  Append(<<>>, m) = <<m>> /\ Append(<<x>>, m) = <<x, m>>
<1> DEFINE S == {x, m}
<1>1. m \in S /\ x \in S
  OBVIOUS
<1> HIDE DEF S
<1>2. Append(<<>>, m) = <<m>>
  BY <1>1, AppendProperties, SeqEqual
<1>3. Append(<<x>>, m) = <<x, m>>
  <2>1. <<x>> \in Seq(S) /\ <<x, m>> \in Seq(S) /\ Len(<<x>>) = 1 /\ Len(<<x, m>>) = 2
    BY <1>1
  <2>2. /\ Append(<<x>>, m) \in Seq(S) /\ Len(Append(<<x>>, m)) = 2
        /\ \A i \in 1 .. 1 : Append(<<x>>, m)[i] = <<x>>[i]
        /\ Append(<<x>>, m)[2] = m
    BY <1>1, <2>1, AppendProperties
  <2>3. \A i \in 1 .. 2 : Append(<<x>>, m)[i] = <<x, m>>[i]
    BY <2>2
  <2>4. QED
    BY <2>1, <2>2, <2>3, SeqEqual
<1>4. QED
  BY <1>2, <1>3

(* The oldest message and those after it.                                  *)
LEMMA Fetched ==
  ASSUME NEW x, NEW m
  PROVE  /\ Head(<<x>>) = x /\ Tail(<<x>>) = <<>> /\ <<x>> # <<>>
         /\ Head(<<x, m>>) = x /\ Tail(<<x, m>>) = <<m>> /\ <<x, m>> # <<>>
OBVIOUS

(* Placing counts the list, and so the configuration.                      *)
LEMMA PlaceKeeps ==
  ASSUME SInv, NEW r \in Rank, Place(r)
  PROVE  SInv'
<1>1. pc[r] = "draw"
  BY DEF Place, At
<1>2. r = 0 /\ pc[0] = "draw"
  BY <1>1 DEF SInv, Staged, Making
<1>3. PICK J \in RandRuns :
        /\ Goto(0, "bcastAtom") /\ Len(list) = Total
        /\ Atom' = [Atom EXCEPT ![0] =
              [s \in DOMAIN Atom[0] |-> shuffle(list, J)[Site(par[0].N, s) + 1]]]
        /\ NT' = [NT EXCEPT ![0] =
              [t \in DOMAIN NT[0] |-> Cardinality({x \in DOMAIN list : list[x] = t})]]
        /\ UNCHANGED <<job, par, seed, list, sent>>
  BY <1>2 DEF Place
<1>4. /\ pc[0] \in Making /\ pc[0] \notin Unread /\ pc[0] # "args"
      /\ pc[0] \notin Bare \cup {"fill"} /\ "bcastAtom" \notin Bare \cup {"fill"}
  BY <1>2 DEF Unread, Bare, Making
<1>5. Accepted /\ par[0] = Params
  BY <1>4, RootIsRank, AcceptedAfterReading
<1>6. /\ Params' = Params /\ Sites' = Sites /\ Kinds' = Kinds
      /\ Lattices' = Lattices /\ Counters' = Counters
      /\ \A t : ShareOf(t)' = ShareOf(t)
  BY <1>3, SameParams
<1>7. /\ Atom[0] \in Lattices /\ NT[0] \in Counters /\ AtomList
      /\ Total = Sites /\ Sites \in Nat \ {0}
  BY <1>4, <1>5, RootIsRank, FilledIsShares DEF SInv, Equipped, Listed, Accepted
<1> DEFINE A == [s \in Cell(Params.N) |-> shuffle(list, J)[Site(Params.N, s) + 1]]
           n == [t \in Kinds |-> Cardinality({x \in DOMAIN list : list[x] = t})]
<1>8. /\ Atom' = [Atom EXCEPT ![0] = A] /\ NT' = [NT EXCEPT ![0] = n]
  <2>1. DOMAIN Atom[0] = Cell(Params.N) /\ DOMAIN NT[0] = Kinds
    BY <1>7 DEF Lattices, Counters
  <2>2. QED
    BY <1>3, <1>5, <2>1
<1>9. /\ A \in Lattices
      /\ \A t : Count(A, Cell(Params.N), t) = Copies(list, Sites, t)
  BY <1>3, <1>5, <1>7, PlacedCounts DEF AtomList
<1>10. ASSUME NEW t \in Kinds
       PROVE  /\ n[t] = Copies(list, Sites, t) /\ n[t] \in 0 .. Sites
              /\ n[t] >= ShareOf(t + 1)
  <2>1. list \in Seq(Kinds) /\ Len(list) = Sites
    BY <1>3, <1>7 DEF AtomList
  <2>2. n[t] = Copies(list, Sites, t)
    BY <2>1 DEF Copies, Count
  <2>3. t + 1 \in 1 .. Params.NE /\ (t + 1) - 1 = t
    BY <1>5 DEF Kinds, Accepted
  <2>4. HasRun(list, ShareOf(t + 1), t)
    BY <1>7, <2>3 DEF AtomList, HasShares
  <2>5. ShareOf(t + 1) \in Int
    BY <1>5, <2>3, ShareTyped
  <2>6. Copies(list, Sites, t) >= ShareOf(t + 1) /\ Copies(list, Sites, t) \in Nat
    BY <1>7, <2>1, <2>4, <2>5, RunCounted
  <2>7. Copies(list, Sites, t) <= Sites
    <3>1. IsFiniteSet(1 .. Sites) /\ Cardinality(1 .. Sites) = Sites
      <4>1. 1 \in Int /\ Sites \in Int /\ ~(1 > Sites)
        BY <1>7
      <4>2. QED
        BY <4>1, FS_Interval
    <3>2. {x \in 1 .. Sites : list[x] = t} \subseteq 1 .. Sites
      OBVIOUS
    <3>3. Cardinality({x \in 1 .. Sites : list[x] = t}) <= Cardinality(1 .. Sites)
      BY <3>1, <3>2, FS_Subset
    <3>4. QED
      BY <3>1, <3>3 DEF Copies, Count
  <2> HIDE DEF n
  <2>8. QED
    BY <1>7, <2>2, <2>6, <2>7
<1>11. n \in Counters
  BY <1>10 DEF Counters
<1> HIDE DEF A, n
<1>12. /\ Atom'[0] = A /\ NT'[0] = n
       /\ \A q \in Rank \ {0} : Atom'[q] = Atom[q] /\ NT'[q] = NT[q]
       /\ (Atom = [q \in Rank |-> Atom[q]] /\ NT = [q \in Rank |-> NT[q]])'
  BY <1>8, RootIsRank DEF SInv, Equipped
<1>13. /\ Staged' /\ Informed' /\ Underway'
       /\ \A q \in Rank : q # 0 => pc'[q] = pc[q]
       /\ pc'[0] = "bcastAtom"
  BY <1>3, <1>4, <1>12, MakingStep
<1>14. Seeded'
  BY <1>3, <1>4, <1>13 DEF SInv, Seeded
<1>15. Equipped'
  <2>1. ASSUME NEW q \in Rank
        PROVE  (IF pc[q] \in Bare THEN Atom[q] = <<>> /\ NT[q] = <<>>
                ELSE Atom[q] \in Lattices /\ NT[q] \in Counters)'
    <3>1. CASE q = 0
      BY <1>4, <1>6, <1>9, <1>11, <1>12, <1>13, <3>1
    <3>2. CASE q # 0
      BY <1>6, <1>12, <1>13, <3>2 DEF SInv, Equipped
    <3>3. QED
      BY <3>1, <3>2
  <2>2. QED
    BY <1>12, <2>1 DEF Equipped
<1>16. Listed'
  BY <1>3, <1>4, <1>6, <1>7, <1>13 DEF Listed, AtomList, HasShares
<1>17. Made'
  BY <1>6, <1>9, <1>10, <1>12 DEF Made, Counted
<1>18. QED
  BY <1>3, <1>13, <1>14, <1>15, <1>16, <1>17 DEF SInv

(* Both broadcasts start at rank 0.                                        *)
LEMMA BroadcastKeeps ==
  ASSUME SInv, NEW r \in Rank, Broadcast(r)
  PROVE  SInv'
<1> DEFINE next == AfterBroadcast(0)
           message == IF pc[0] = "bcastAtom" THEN Atom[0] ELSE NT[0]
<1>1. /\ r = 0 /\ pc[0] \in {"bcastAtom", "bcastNT"} /\ Goto(0, next)
      /\ Send(0, message)
      /\ UNCHANGED <<job, par, seed, list, Atom, NT>>
  BY DEF Broadcast
<1>2. /\ pc[0] = "bcastAtom" => next = "bcastNT"
      /\ pc[0] = "bcastNT" => next = "ini_apos"
  BY DEF AfterBroadcast
<1>3. /\ pc[0] \in Passing /\ next \in Passing /\ next \notin Making
      /\ next \notin Bare \cup {"fill"} /\ pc[0] \notin Bare \cup {"fill"}
      /\ next \notin Unread /\ pc[0] \notin Unread /\ next # "args" /\ pc[0] # "args"
  BY <1>1, <1>2 DEF Passing, Served, Making, Bare, Unread
<1>4. /\ Params' = Params /\ Sites' = Sites /\ Kinds' = Kinds
      /\ Lattices' = Lattices /\ Counters' = Counters
      /\ \A t : ShareOf(t)' = ShareOf(t)
  BY <1>1, SameParams
<1> HIDE DEF next
<1>5. /\ \A q \in Rank : q # 0 => pc'[q] = pc[q]
      /\ pc'[0] = next
  BY <1>1, RootIsRank DEF Goto, SInv, Staged
<1>6. Staged'
  BY <1>1, <1>3, <1>5 DEF SInv, Staged, Goto
<1>7. Informed' /\ Seeded' /\ Equipped'
  BY <1>1, <1>3, <1>4, <1>5, RootIsRank DEF SInv, Informed, Seeded, Equipped
<1>8. Listed'
  BY <1>1, <1>3, <1>4, <1>5 DEF SInv, Listed, AtomList, HasShares
<1>9. Made'
  BY <1>1, <1>3, <1>4, <1>5 DEF SInv, Made, Counted
<1>10. Underway'
  <2>1. sent' = [q \in Rank |-> IF q = 0 THEN sent[q] ELSE Append(sent[q], message)]
    BY <1>1 DEF Send
  <2> HIDE DEF message
  <2>2. sent'[0] = <<>> /\ \A q \in Rank \ {0} : sent'[q] = Append(sent[q], message)
    BY <2>1, RootIsRank DEF SInv, Underway
  <2>3. ASSUME NEW q \in Rank \ {0} PROVE OnItsWay(q)'
    <3>1. OnItsWay(q) /\ pc'[q] = pc[q]
      BY <1>5 DEF SInv, Underway
    <3>2. /\ Append(<<>>, message) = <<message>>
          /\ \A x : Append(<<x>>, message) = <<x, message>>
      BY Posted
    <3>3. CASE pc[0] = "bcastAtom"
      <4>1. sent[q] = <<>> /\ Waiting(q)
        BY <3>1, <3>3 DEF OnItsWay, Served
      <4>2. message = Atom[0]
        BY <3>3 DEF message
      <4>3. Waiting(q)' /\ sent'[q] = <<Atom'[0]>> /\ pc'[0] = "bcastNT"
        BY <1>1, <1>2, <1>5, <2>2, <3>1, <3>2, <3>3, <4>1, <4>2 DEF Waiting
      <4>4. QED
        BY <4>3 DEF OnItsWay
    <3>4. CASE pc[0] = "bcastNT"
      <4>1. message = NT[0] /\ pc'[0] \in Served
        BY <1>2, <1>5, <3>4 DEF message, Served
      <4>2. CASE sent[q] = <<Atom[0]>> /\ Waiting(q)
        <5>1. Waiting(q)' /\ sent'[q] = <<Atom'[0], NT'[0]>>
          BY <1>1, <2>2, <3>1, <3>2, <4>1, <4>2 DEF Waiting
        <5>2. QED
          BY <4>1, <5>1 DEF OnItsWay
      <4>3. CASE sent[q] = <<>> /\ pc[q] = "bcastNT" /\ Atom[q] = Atom[0]
        <5>1. sent'[q] = <<NT'[0]>> /\ pc'[q] = "bcastNT" /\ Atom'[q] = Atom'[0]
          BY <1>1, <2>2, <3>1, <3>2, <4>1, <4>3
        <5>2. QED
          BY <4>1, <5>1 DEF OnItsWay
      <4>4. QED
        BY <3>1, <3>4, <4>2, <4>3 DEF OnItsWay, Served
    <3>5. QED
      BY <1>1, <3>3, <3>4
  <2>4. (sent = [q \in Rank |-> sent[q]])'
    BY <2>1
  <2>5. QED
    BY <2>2, <2>3, <2>4 DEF Underway
<1>11. QED
  BY <1>1, <1>6, <1>7, <1>8, <1>9, <1>10 DEF SInv

(* A rank that receives.                                                   *)
LEMMA ReceivingStep ==
  ASSUME SInv, NEW r \in Rank \ {0}, NEW b \in {"bcastNT"} \cup Served,
         pc[r] \in {"bcastAtom", "bcastNT"}, Goto(r, b),
         Atom' = [Atom EXCEPT ![r] = Atom'[r]], NT' = [NT EXCEPT ![r] = NT'[r]],
         Atom'[r] \in Lattices, NT'[r] \in Counters,
         sent' = [sent EXCEPT ![r] = sent'[r]], OnItsWay(r)',
         UNCHANGED <<job, par, seed, list>>
  PROVE  SInv'
<1>1. /\ Params' = Params /\ Sites' = Sites /\ Kinds' = Kinds
      /\ Lattices' = Lattices /\ Counters' = Counters
      /\ \A t : ShareOf(t)' = ShareOf(t)
  BY SameParams
<1>2. /\ b \in Passing /\ b \notin Making /\ b \notin Bare /\ b \notin Unread
      /\ b # "args" /\ pc[r] \notin Bare /\ pc[r] \notin Unread /\ pc[r] # "args"
  BY DEF Passing, Served, Making, Bare, Unread
<1>3. pc'[r] = b /\ \A q \in Rank : q # r => pc'[q] = pc[q]
  BY DEF Goto, SInv, Staged
<1>4. /\ \A q \in Rank : q # r => /\ Atom'[q] = Atom[q] /\ NT'[q] = NT[q]
                                  /\ sent'[q] = sent[q]
      /\ (Atom = [q \in Rank |-> Atom[q]] /\ NT = [q \in Rank |-> NT[q]])'
      /\ (sent = [q \in Rank |-> sent[q]])'
  BY DEF SInv, Equipped, Underway
<1>5. pc'[0] = pc[0] /\ Atom'[0] = Atom[0] /\ NT'[0] = NT[0] /\ sent'[0] = sent[0]
  BY <1>3, <1>4, RootIsRank
<1>6. Staged'
  BY <1>2, <1>3 DEF SInv, Staged, Goto
<1>7. Informed' /\ Seeded'
  BY <1>1, <1>2, <1>3 DEF SInv, Informed, Seeded
<1>8. Equipped'
  <2>1. ASSUME NEW q \in Rank
        PROVE  (IF pc[q] \in Bare THEN Atom[q] = <<>> /\ NT[q] = <<>>
                ELSE Atom[q] \in Lattices /\ NT[q] \in Counters)'
    <3>1. CASE q = r
      BY <1>1, <1>2, <1>3, <3>1
    <3>2. CASE q # r
      BY <1>1, <1>3, <1>4, <3>2 DEF SInv, Equipped
    <3>3. QED
      BY <3>1, <3>2
  <2>2. QED
    BY <1>4, <2>1 DEF Equipped
<1>9. Listed'
  BY <1>1, <1>5 DEF SInv, Listed, AtomList, HasShares
<1>10. Made'
  BY <1>1, <1>5 DEF SInv, Made, Counted
<1>11. Underway'
  <2>1. ASSUME NEW q \in Rank \ {0} PROVE OnItsWay(q)'
    <3>1. CASE q = r
      BY <3>1
    <3>2. CASE q # r
      <4>1. OnItsWay(q)
        BY DEF SInv, Underway
      <4>2. /\ pc'[q] = pc[q] /\ Atom'[q] = Atom[q] /\ NT'[q] = NT[q]
            /\ sent'[q] = sent[q]
        BY <1>3, <1>4, <3>2
      <4>3. QED
        BY <1>5, <4>1, <4>2 DEF OnItsWay, Waiting
    <3>3. QED
      BY <3>1, <3>2
  <2>2. QED
    BY <1>4, <1>5, <2>1 DEF SInv, Underway
<1>12. QED
  BY <1>6, <1>7, <1>8, <1>9, <1>10, <1>11 DEF SInv

(* The oldest message of a rank that waits for Atom is Atom.               *)
LEMMA ReceiveAtomKeeps ==
  ASSUME SInv, NEW r \in Rank, ReceiveAtom(r)
  PROVE  SInv'
<1>1. /\ r \in Rank \ {0} /\ pc[r] = "bcastAtom" /\ Goto(r, "bcastNT") /\ sent[r] # <<>>
      /\ sent' = [sent EXCEPT ![r] = Tail(@)]
      /\ Atom' = [Atom EXCEPT ![r] = Head(sent[r])] /\ NT' = NT
      /\ UNCHANGED <<job, par, seed, list>>
  BY DEF ReceiveAtom, Received, At, AfterBroadcast
<1>2. /\ OnItsWay(r) /\ sent = [q \in Rank |-> sent[q]]
      /\ Atom = [q \in Rank |-> Atom[q]] /\ NT = [q \in Rank |-> NT[q]]
  BY <1>1 DEF SInv, Underway, Equipped
<1>3. \/ pc[0] = "bcastNT" /\ sent[r] = <<Atom[0]>>
      \/ pc[0] \in Served /\ sent[r] = <<Atom[0], NT[0]>>
  BY <1>1, <1>2 DEF OnItsWay, Served
<1>4. /\ Head(sent[r]) = Atom[0]
      /\ pc[0] = "bcastNT" => Tail(sent[r]) = <<>>
      /\ pc[0] \in Served => Tail(sent[r]) = <<NT[0]>>
  <2>1. /\ Head(<<Atom[0]>>) = Atom[0] /\ Tail(<<Atom[0]>>) = <<>>
        /\ Head(<<Atom[0], NT[0]>>) = Atom[0] /\ Tail(<<Atom[0], NT[0]>>) = <<NT[0]>>
    BY Fetched
  <2>2. "bcastNT" \notin Served
    BY DEF Served
  <2>3. QED
    BY <1>3, <2>1, <2>2
<1>5. /\ pc'[r] = "bcastNT" /\ pc'[0] = pc[0] /\ Atom'[r] = Atom[0] /\ Atom'[0] = Atom[0]
      /\ NT'[r] = NT[r] /\ NT'[0] = NT[0] /\ sent'[r] = Tail(sent[r])
  BY <1>1, <1>2, <1>4, RootIsRank DEF Goto, SInv, Staged
<1>6. OnItsWay(r)'
  BY <1>3, <1>4, <1>5 DEF OnItsWay
<1>7. Atom'[r] \in Lattices /\ NT'[r] \in Counters
  <2>1. pc[0] \notin Bare /\ pc[r] \notin Bare
    BY <1>1, <1>3 DEF Bare, Unread, Served
  <2>2. QED
    BY <1>5, <2>1, RootIsRank DEF SInv, Equipped
<1>8. /\ Atom' = [Atom EXCEPT ![r] = Atom'[r]] /\ NT' = [NT EXCEPT ![r] = NT'[r]]
      /\ sent' = [sent EXCEPT ![r] = sent'[r]]
  BY <1>1, <1>2, <1>5
<1>9. QED
  BY <1>1, <1>6, <1>7, <1>8, ReceivingStep

(* That of a rank that waits for NT is NT.                                 *)
LEMMA ReceiveNTKeeps ==
  ASSUME SInv, NEW r \in Rank, ReceiveNT(r)
  PROVE  SInv'
<1>1. /\ r \in Rank \ {0} /\ pc[r] = "bcastNT" /\ Goto(r, "ini_apos") /\ sent[r] # <<>>
      /\ sent' = [sent EXCEPT ![r] = Tail(@)]
      /\ NT' = [NT EXCEPT ![r] = Head(sent[r])] /\ Atom' = Atom
      /\ UNCHANGED <<job, par, seed, list>>
  BY DEF ReceiveNT, Received, At, AfterBroadcast
<1>2. /\ OnItsWay(r) /\ sent = [q \in Rank |-> sent[q]]
      /\ Atom = [q \in Rank |-> Atom[q]] /\ NT = [q \in Rank |-> NT[q]]
  BY <1>1 DEF SInv, Underway, Equipped
<1>3. pc[0] \in Served /\ sent[r] = <<NT[0]>> /\ Atom[r] = Atom[0]
  BY <1>1, <1>2 DEF OnItsWay, Waiting, Served
<1>4. Head(sent[r]) = NT[0] /\ Tail(sent[r]) = <<>>
  BY <1>3, Fetched
<1>5. /\ pc'[r] = "ini_apos" /\ "ini_apos" \in Served /\ pc'[0] = pc[0] /\ Atom'[r] = Atom[0] /\ Atom'[0] = Atom[0]
      /\ NT'[r] = NT[0] /\ NT'[0] = NT[0] /\ sent'[r] = Tail(sent[r])
  BY <1>1, <1>2, <1>3, <1>4, RootIsRank DEF Goto, SInv, Staged, Served
<1>6. OnItsWay(r)'
  BY <1>3, <1>4, <1>5 DEF OnItsWay
<1>7. Atom'[r] \in Lattices /\ NT'[r] \in Counters
  <2>1. pc[0] \notin Bare /\ pc[r] \notin Bare
    BY <1>1, <1>3 DEF Bare, Unread, Served
  <2>2. QED
    BY <1>5, <2>1, RootIsRank DEF SInv, Equipped
<1>8. /\ Atom' = [Atom EXCEPT ![r] = Atom'[r]] /\ NT' = [NT EXCEPT ![r] = NT'[r]]
      /\ sent' = [sent EXCEPT ![r] = sent'[r]]
  BY <1>1, <1>2, <1>5
<1>9. QED
  BY <1>1, <1>5, <1>6, <1>7, <1>8, ReceivingStep

(* The table of neighbours has nothing to do with what was received.       *)
LEMMA ini_aposKeeps ==
  ASSUME SInv, NEW r \in Rank, ini_apos(r)
  PROVE  SInv'
<1>1. /\ pc[r] = "ini_apos" /\ Goto(r, "ready")
      /\ UNCHANGED <<job, par, seed, list, Atom, NT, sent>>
  BY DEF ini_apos, At, placed
<1>2. /\ Params' = Params /\ Sites' = Sites /\ Kinds' = Kinds
      /\ Lattices' = Lattices /\ Counters' = Counters
      /\ \A t : ShareOf(t)' = ShareOf(t)
  BY <1>1, SameParams
<1>3. pc' = [pc EXCEPT ![r] = "ready"] /\ pc = [q \in Rank |-> pc[q]]
  BY <1>1 DEF Goto, SInv, Staged
<1>4. ASSUME NEW q \in Rank
      PROVE  /\ pc'[q] \in Bare <=> pc[q] \in Bare
             /\ pc'[q] \in Unread <=> pc[q] \in Unread
             /\ pc'[q] \in Making <=> pc[q] \in Making
             /\ pc'[q] \in Passing <=> pc[q] \in Passing
             /\ pc'[q] \in Served <=> pc[q] \in Served
             /\ pc'[q] = "bcastNT" <=> pc[q] = "bcastNT"
             /\ pc'[q] = "fill" <=> pc[q] = "fill"
             /\ pc'[q] = "args" <=> pc[q] = "args"
  BY <1>1, <1>3 DEF Bare, Unread, Making, Passing, Served
<1>5. Staged' /\ Informed' /\ Seeded' /\ Equipped'
  <2>1. Staged'
    BY <1>3, <1>4 DEF SInv, Staged
  <2>2. Informed' /\ Seeded' /\ Equipped'
    BY <1>1, <1>2, <1>4 DEF SInv, Informed, Seeded, Equipped
  <2>3. QED
    BY <2>1, <2>2
<1>6. Listed'
  BY <1>1, <1>2, <1>4, RootIsRank DEF SInv, Listed, AtomList, HasShares
<1>7. Made'
  BY <1>1, <1>2, <1>4, RootIsRank DEF SInv, Made, Counted
<1>8. Underway'
  BY <1>1, <1>4, RootIsRank DEF SInv, Underway, OnItsWay, Waiting
<1>9. QED
  BY <1>1, <1>5, <1>6, <1>7, <1>8 DEF SInv

(* At the beginning nothing has been read, made or sent.                   *)
LEMMA SInit == ASSUME Init PROVE SInv
<1>1. /\ job \in Jobs /\ pc = [r \in Rank |-> "args"] /\ par = [r \in Rank |-> None]
      /\ seed = [r \in Rank |-> None] /\ list = <<>>
      /\ Atom = [r \in Rank |-> <<>>] /\ NT = [r \in Rank |-> <<>>]
      /\ sent = [r \in Rank |-> <<>>]
  BY DEF Init
<1>2. /\ "args" \in Bare /\ "args" \in Unread /\ "args" \notin Making
      /\ "args" \notin Passing /\ "args" \in Bare \cup {"fill"}
  BY DEF Bare, Unread, Making, Passing, Served
<1>3. Staged /\ Informed /\ Seeded /\ Equipped /\ Listed /\ Made
  BY <1>1, <1>2, RootIsRank DEF Staged, Informed, Seeded, Equipped, Listed, Made
<1>4. Underway
  <2>1. \A q \in Rank : pc[q] = "args" /\ sent[q] = <<>>
    BY <1>1
  <2>2. \A q \in Rank : OnItsWay(q)
    BY <2>1, RootIsRank DEF OnItsWay, Waiting, Served
  <2>3. QED
    BY <1>1, <2>1, <2>2, RootIsRank DEF Underway
<1>5. QED
  BY <1>1, <1>3, <1>4 DEF SInv

(* Every step of the start keeps the invariant.                            *)
LEMMA SNext == ASSUME SInv, [Next]_vars PROVE SInv'
<1> DEFINE still == <<job, pc, par, seed, list, Atom, NT, sent>>
<1>1. CASE UNCHANGED vars
  <2>1. UNCHANGED still
    BY <1>1 DEF vars, placed
  <2>2. QED
    BY <2>1, NoStep
<1>2. ASSUME NEW r \in Rank, Step(r)
      PROVE  SInv'
  <2>1. CASE \/ Seeding(r) \/ Read(r) \/ LoadModels(r) \/ ini_T(r) \/ ini_sys(r)
    BY <2>1, SeedingKeeps, ReadKeeps, OnwardKeeps, ini_sysKeeps
  <2>2. CASE \/ Fill(r) \/ Draw(r) \/ Place(r)
    BY <2>2, FillKeeps, DrawKeeps, PlaceKeeps
  <2>3. CASE \/ Broadcast(r) \/ ReceiveAtom(r) \/ ReceiveNT(r) \/ ini_apos(r)
    BY <2>3, BroadcastKeeps, ReceiveAtomKeeps, ReceiveNTKeeps, ini_aposKeeps
  <2>4. CASE Pose(r) \/ RunModel(r) \/ Answered(r)
    <3>1. UNCHANGED still
      BY <2>4 DEF Pose, RunModel, Answered, placed
    <3>2. QED
      BY <3>1, NoStep
  <2>5. CASE \/ Usage(r) \/ ReadFails(r) \/ LoadOverruns(r) \/ LoadFails(r)
             \/ ini_TDies(r) \/ ini_sysThrows(r) \/ ini_sysDies(r)
             \/ ini_sysOverruns(r) \/ FillFails(r) \/ PlaceOverruns(r)
             \/ ini_aposOverruns(r) \/ Uncaught(r) \/ OutputOverrun(r)
    <3>1. PICK how, code : End(r, how, code)
      BY <2>5 DEF Usage, ReadFails, LoadOverruns, LoadFails, ini_TDies, ini_sysThrows,
                  ini_sysDies, ini_sysOverruns, FillFails, PlaceOverruns,
                  ini_aposOverruns, Uncaught, OutputOverrun
    <3>2. UNCHANGED still
      BY <3>1 DEF End, placed
    <3>3. QED
      BY <3>2, NoStep
  <2>6. QED
    BY <1>2, <2>1, <2>2, <2>3, <2>4, <2>5 DEF Step, ini_alloy
<1>3. QED
  BY <1>1, <1>2 DEF Next

(* From the arguments to the first energy, for every job.                  *)
LEMMA StartConsistent == Spec => []SInv
<1>1. Init => SInv
  BY SInit
<1>2. SInv /\ [Next]_vars => SInv'
  BY SNext
<1>3. QED
  BY <1>1, <1>2, PTL DEF Spec

(***************************************************************************)
(* How a job ends.                                                         *)
(***************************************************************************)
Overrun(r) == \/ Unmatched(par[r])
              \/ job.build = "tf" /\ \E base \in Base : ~Fits(base)

Endings == ended # None => /\ ended.how \in {"abort", "terminate", "undefined"}
                           /\ ~Sound
                           /\ ended.how = "undefined" => Overrun(ended.by)

(* Networks of the lattice's size are loaded and their answers accepted.   *)
LEMMA SoundNetworks ==
  ASSUME IInv, NEW r \in Rank, \A base \in Base : Fits(base)
  PROVE  Loadable /\ ~Refused(r) /\ ~Overread(r)
<1>1. Loadable
  BY DEF Fits, Loadable
<1>2. ASSUME call[r] = "take" PROVE Out(r).by.size = "fits"
  <2>1. /\ asked[r] # None
        /\ Out(r) = [by |-> File(asked[r].base), to |-> asked[r]]
    BY <1>2 DEF IInv, TensorsKept, Out, Under
  <2>2. asked[r].base \in Base
    BY <2>1 DEF IInv, Shape
  <2>3. QED
    BY <2>1, <2>2 DEF Fits
<1>3. QED
  BY <1>1, <1>2 DEF Refused, Overread

(* The atoms of the list are elements that are counted.                    *)
LEMMA ListPlaceable ==
  ASSUME SInv, pc[0] = "draw", ~Unnamed(0)
  PROVE  Placeable(0)
<1>1. pc[0] \notin Bare /\ pc[0] \notin Bare \cup {"fill"}
  BY DEF Bare, Unread
<1>2. NT[0] \in Counters /\ list \in Seq(Kinds)
  BY <1>1, RootIsRank DEF SInv, Equipped, Listed, AtomList
<1>3. DOMAIN NT[0] = Kinds /\ \A x \in DOMAIN list : list[x] \in Kinds
  BY <1>2 DEF Counters
<1>4. QED
  BY <1>3 DEF Placeable, Range

(* Fractions above 0 that add up to at most 1 fill no more than a lattice. *)
LEMMA SharesSuffice ==
  ASSUME SInv, NEW r \in Rank, pc[r] = "fill"
  PROVE  /\ r = 0 /\ ~WrongShares
         /\ TooManyShares => ExceedOne(par[0])
<1>1. r = 0
  BY DEF SInv, Staged, Making
<1>2. pc[0] \notin Unread
  BY <1>1 DEF Unread
<1>3. Accepted /\ par[0] = Params
  BY <1>2, RootIsRank, AcceptedAfterReading
<1>4. ~WrongShares
  BY <1>3 DEF WrongShares, Accepted
<1>5. ASSUME TooManyShares PROVE ExceedOne(Params)
  <2>1. Filled = Shares /\ Total = Sites
    BY <1>3, FilledIsShares
  <2>2. Len(Shares) > Sites
    BY <1>5, <2>1 DEF TooManyShares
  <2>3. Shares \in Seq(Kinds)
    BY <1>3, SharesFilled
  <2>4. Len(Shares) \in Nat /\ Sites \in Nat
    BY <1>3, <2>3 DEF Accepted
  <2>5. ~(Len(Shares) <= Sites)
    BY <2>2, <2>4
  <2>6. QED
    BY <1>3, <2>5, FractionsSuffice
<1>6. QED
  BY <1>1, <1>3, <1>4, <1>5

(* A sound job's parameters.                                               *)
LEMMA SoundParams ==
  ASSUME SInv, Sound, NEW r \in Rank, pc[r] \notin Unread
  PROVE  /\ ~InvalidRange(r) /\ ~(par[r].max_neighbors < 0)
         /\ ~Unmatched(par[r])
<1>1. Accepted /\ par[r] = Params
  BY AcceptedAfterReading
<1>2. ~Unmatched(Params) /\ Params.MTi > 0 /\ Params.MTf > 0
  BY ParamsLoaded DEF Sound, Params
<1>3. Params.MTi * Params.MTf # 0
  <2>1. \A a, b \in Int : a > 0 /\ b > 0 => a * b # 0
    OBVIOUS
  <2>2. QED
    BY <1>1, <1>2, <2>1 DEF Accepted
<1>4. ~(Params.max_neighbors < 0)
  <2>1. ~(Len(job.coupling.offsets) > Params.max_neighbors)
    BY <1>2 DEF Unmatched, ListTooLong
  <2>2. Params.max_neighbors \in Int /\ Len(job.coupling.offsets) \in Nat
    BY <1>1 DEF Accepted
  <2>3. QED
    BY <2>1, <2>2
<1>5. QED
  BY <1>1, <1>2, <1>3, <1>4 DEF InvalidRange

(* Every step that ends the job has one of the known reasons.              *)
LEMMA EndingStep ==
  ASSUME SInv, IInv, NEW r \in Rank, Step(r), ended' # ended
  PROVE  /\ UNCHANGED <<job, par>>
         /\ ended'.by = r /\ ended'.how \in {"abort", "terminate", "undefined"}
         /\ ~Sound
         /\ ended'.how = "undefined" => Overrun(r)
<1> DEFINE Ended(how) == /\ ended'.by = r /\ ended'.how = how
                         /\ UNCHANGED <<job, par>>
<1>1. CASE Usage(r) \/ ReadFails(r) \/ ini_sysDies(r)
  <2>1. ~Sound
    BY <1>1 DEF Sound, Usage, ReadFails, Readable, ini_sysDies, CouplingMissing
  <2>2. Ended("abort")
    BY <1>1 DEF Usage, ReadFails, ini_sysDies, End
  <2>3. QED
    BY <2>1, <2>2
<1>2. CASE LoadOverruns(r)
  <2>1. pc[r] = "load" /\ Unnamed(r) /\ Ended("undefined")
    BY <1>2 DEF LoadOverruns, NameOverruns, At, End
  <2>2. pc[r] \notin Unread
    BY <2>1 DEF Unread
  <2>3. ~Sound
    BY <2>1, <2>2, SoundParams DEF Unmatched, Unnamed
  <2>4. QED
    BY <2>1, <2>3 DEF Overrun, Unmatched, Unnamed
<1>3. CASE LoadFails(r)
  <2>1. ~Loadable /\ Ended("abort")
    BY <1>3 DEF LoadFails, End
  <2>2. ~Sound
    BY <2>1, SoundNetworks DEF Sound
  <2>3. QED
    BY <2>1, <2>2
<1>4. CASE ini_TDies(r)
  <2>1. pc[r] = "ini_T" /\ InvalidRange(r) /\ Ended("abort")
    BY <1>4 DEF ini_TDies, At, End
  <2>2. pc[r] \notin Unread
    BY <2>1 DEF Unread
  <2>3. ~Sound
    BY <2>1, <2>2, SoundParams
  <2>4. QED
    BY <2>1, <2>3
<1>5. CASE FillFails(r)
  <2>1. pc[r] = "fill" /\ (WrongShares \/ TooManyShares)
    BY <1>5 DEF FillFails, At
  <2>2. r = 0 /\ ~WrongShares /\ TooManyShares /\ ExceedOne(par[r])
    BY <2>1, SharesSuffice
  <2>3. Ended("undefined")
    BY <1>5, <2>2 DEF FillFails, End
  <2>4. pc[r] \notin Unread
    BY <2>1 DEF Unread
  <2>5. ~Sound
    BY <2>2, <2>4, SoundParams DEF Unmatched
  <2>6. QED
    BY <2>2, <2>3, <2>5 DEF Overrun, Unmatched
<1>6. CASE PlaceOverruns(r)
  <2>1. pc[r] = "draw" /\ ~Placeable(r) /\ Ended("undefined")
    BY <1>6 DEF PlaceOverruns, At, End
  <2>2. r = 0
    BY <2>1 DEF SInv, Staged, Making
  <2>3. Unnamed(r)
    BY <2>1, <2>2, ListPlaceable
  <2>4. pc[r] \notin Unread
    BY <2>1 DEF Unread
  <2>5. ~Sound
    BY <2>3, <2>4, SoundParams DEF Unmatched, Unnamed
  <2>6. QED
    BY <2>1, <2>3, <2>5 DEF Overrun, Unmatched, Unnamed
<1>7. CASE Uncaught(r)
  <2>1. Refused(r) /\ Ended("terminate")
    BY <1>7 DEF Uncaught, End
  <2>2. ~Sound
    BY <2>1, SoundNetworks DEF Sound
  <2>3. QED
    BY <2>1, <2>2
<1>8. CASE OutputOverrun(r)
  <2>1. Overread(r) /\ Ended("undefined")
    BY <1>8 DEF OutputOverrun, End
  <2>2. job.build = "tf" /\ \E base \in Base : ~Fits(base)
    BY <2>1, SoundNetworks DEF Overread
  <2>3. ~Sound
    BY <2>2 DEF Sound
  <2>4. QED
    BY <2>1, <2>2, <2>3 DEF Overrun
<1>9. CASE ini_sysThrows(r)
  <2>1. pc[r] = "ini_sys" /\ par[r].max_neighbors < 0 /\ Ended("terminate")
    BY <1>9 DEF ini_sysThrows, At, End
  <2>2. pc[r] \notin Unread
    BY <2>1 DEF Unread
  <2>3. ~Sound
    BY <2>1, <2>2, SoundParams
  <2>4. QED
    BY <2>1, <2>3
<1>10. CASE ini_sysOverruns(r)
  <2>1. pc[r] = "ini_sys" /\ PairOutside(r) /\ Ended("undefined")
    BY <1>10 DEF ini_sysOverruns, CouplingRead, At, End
  <2>2. pc[r] \notin Unread
    BY <2>1 DEF Unread
  <2>3. Accepted /\ par[r] = Params
    BY <2>2, AcceptedAfterReading
  <2>4. Unmatched(par[r])
    BY <2>1, <2>3, PairOutsideUnmatched
  <2>5. ~Sound
    BY <2>2, <2>4, SoundParams
  <2>6. QED
    BY <2>1, <2>4, <2>5 DEF Overrun
<1>11. CASE ini_aposOverruns(r)
  <2>1. /\ pc[r] = "ini_apos" /\ Ended("undefined")
        /\ ListTooLong(par[r]) \/ NeighbourOutside(par[r])
    BY <1>11 DEF ini_aposOverruns, At, End
  <2>2. pc[r] \notin Unread
    BY <2>1 DEF Unread
  <2>3. Accepted /\ par[r] = Params
    BY <2>2, AcceptedAfterReading
  <2>4. Unmatched(par[r])
    <3>1. CASE ListTooLong(par[r])
      BY <3>1 DEF Unmatched
    <3>2. CASE NeighbourOutside(par[r])
      BY <2>3, <3>2, NeighbourOutsideUnmatched
    <3>3. QED
      BY <2>1, <3>1, <3>2
  <2>5. ~Sound
    BY <2>2, <2>4, SoundParams
  <2>6. QED
    BY <2>1, <2>4, <2>5 DEF Overrun
<1>12. CASE \/ Seeding(r) \/ Read(r) \/ LoadModels(r) \/ ini_T(r) \/ ini_sys(r)
            \/ Fill(r) \/ Draw(r) \/ Place(r)
            \/ Broadcast(r) \/ ReceiveAtom(r) \/ ReceiveNT(r) \/ ini_apos(r)
            \/ Pose(r) \/ RunModel(r) \/ Answered(r)
  <2>1. ended' = ended
    BY <1>12 DEF Seeding, Read, LoadModels, ini_T, ini_sys, Fill, Draw, Drawing, Place,
      Broadcast, ReceiveAtom, ReceiveNT, Received, ini_apos, Pose, RunModel, Answered
  <2>2. QED
    BY <2>1
<1>13. QED
  BY <1>1, <1>2, <1>3, <1>4, <1>5, <1>6, <1>7, <1>8, <1>9, <1>10, <1>11, <1>12
  DEF Step, ini_alloy

(* After the end there are no steps.                                       *)
LEMMA NoStepAfterEnd ==
  ASSUME NEW r \in Rank, Step(r)
  PROVE  ended = None
BY DEF Step, ini_alloy, Usage, Seeding, Read, ReadFails, LoadModels, LoadOverruns,
  LoadFails, ini_T, ini_TDies, ini_sys, ini_sysThrows, ini_sysDies, ini_sysOverruns,
  CouplingRead, Fill, FillFails, Draw, Place, PlaceOverruns, Broadcast, ReceiveAtom,
  ReceiveNT, ini_apos, ini_aposOverruns, Pose, RunModel, Answered, Uncaught,
  OutputOverrun, At

(* Whether a job is sound is a matter of its input.                        *)
LEMMA SameReasons ==
  ASSUME UNCHANGED <<job, par>>
  PROVE  Sound' = Sound /\ \A r : Overrun(r)' = Overrun(r)
<1>1. \A p : Unmatched(p)' = Unmatched(p)
  BY DEF Unmatched, ListTooLong
<1>2. (\A base \in Base : Fits(base))' = (\A base \in Base : Fits(base))
  BY DEF Fits, File
<1>3. Sound' = Sound
  BY <1>1, <1>2 DEF Sound
<1>4. \A r : Overrun(r)' = Overrun(r)
  BY <1>1, <1>2 DEF Overrun
<1>5. QED
  BY <1>3, <1>4

(* So the ways to end stay the known ones.                                 *)
LEMMA EndingsNext ==
  ASSUME SInv, IInv, Endings, [Next]_vars
  PROVE  Endings'
<1>1. CASE UNCHANGED vars
  <2>1. UNCHANGED <<job, par, ended>>
    BY <1>1 DEF vars
  <2>2. QED
    BY <2>1, SameReasons DEF Endings
<1>2. ASSUME NEW r \in Rank, Step(r) PROVE Endings'
  <2>1. ended = None
    BY <1>2, NoStepAfterEnd
  <2>2. CASE ended' = ended
    BY <2>1, <2>2 DEF Endings
  <2>3. CASE ended' # ended
    <3>1. /\ UNCHANGED <<job, par>>
          /\ ended'.by = r /\ ended'.how \in {"abort", "terminate", "undefined"}
          /\ ~Sound
          /\ ended'.how = "undefined" => Overrun(r)
      BY <1>2, <2>3, EndingStep
    <3>2. Sound' = Sound /\ Overrun(r)' = Overrun(r)
      BY <3>1, SameReasons
    <3>3. QED
      BY <3>1, <3>2 DEF Endings
  <2>4. QED
    BY <2>2, <2>3
<1>3. QED
  BY <1>1, <1>2 DEF Next

(***************************************************************************)
(* What every run of the program keeps.                                    *)
(***************************************************************************)
Start == SInv /\ IInv /\ Endings

(* The three invariants together.                                          *)
LEMMA AlwaysStarting == Spec => []Start
<1>1. Init => Endings
  BY DEF Init, Endings
<1>2. SInv /\ IInv /\ Endings /\ [Next]_vars => Endings'
  BY EndingsNext
<1>3. Spec => []Endings
  BY <1>1, <1>2, StartConsistent, BackendConsistent, PTL DEF Spec
<1>4. QED
  BY <1>3, StartConsistent, BackendConsistent, PTL DEF Start

(* Every variable stays in its range.                                      *)
LEMMA StartTyped == ASSUME Start PROVE TypeOK
<1> USE DEF Start
<1>1. pc \in [Rank -> {"args", "read", "load", "ini_T", "ini_sys", "fill", "draw",
                       "bcastAtom", "bcastNT", "ini_apos", "ready"}]
  <2>1. Bare \cup Making \cup Passing =
          {"args", "read", "load", "ini_T", "ini_sys", "fill", "draw",
           "bcastAtom", "bcastNT", "ini_apos", "ready"}
    BY DEF Bare, Unread, Making, Passing, Served
  <2>2. pc \in [Rank -> Bare \cup Making \cup Passing]
    BY DEF SInv, Staged
  <2>3. QED
    BY <2>1, <2>2
<1>2. \A r \in Rank : seed[r] = None \/ seed[r] \in seed_type
  BY DEF SInv, Seeded
<1>3. list # <<>> => Len(list) <= Total
  <2>1. SUFFICES ASSUME list # <<>> PROVE Len(list) <= Total
    OBVIOUS
  <2>2. pc[0] \notin Bare \cup {"fill"} /\ Len(list) <= Sites
    BY <2>1 DEF SInv, Listed, AtomList
  <2>3. pc[0] \notin Unread
    BY <2>2 DEF Bare
  <2>4. par[0] = Params
    BY <2>3, RootIsRank, AcceptedAfterReading
  <2>5. QED
    BY <2>2, <2>4, FilledIsShares
<1>4. ASSUME NEW r \in Rank, Atom[r] # <<>>
      PROVE  /\ Atom[r] \in [Cell(par[r].N) -> 0 .. par[r].NE - 1]
             /\ NT[r] \in [0 .. par[r].NE - 1 -> 0 .. par[r].N * par[r].N * par[r].N]
  <2>1. pc[r] \notin Bare /\ Atom[r] \in Lattices /\ NT[r] \in Counters
    BY <1>4 DEF SInv, Equipped
  <2>2. pc[r] \notin Unread
    BY <2>1 DEF Bare
  <2>3. par[r] = Params
    BY <2>2, AcceptedAfterReading
  <2>4. QED
    BY <2>1, <2>3 DEF Lattices, Counters, Kinds, Sites
<1>5. ASSUME NEW r \in Rank PROVE Len(sent[r]) <= 2 /\ posed[r] \in 0 .. Questions
  <2>1. /\ Len(<<>>) = 0 /\ Len(<<Atom[0]>>) = 1 /\ Len(<<NT[0]>>) = 1
        /\ Len(<<Atom[0], NT[0]>>) = 2
    OBVIOUS
  <2>2. sent[r] \in {<<>>, <<Atom[0]>>, <<NT[0]>>, <<Atom[0], NT[0]>>}
    BY DEF SInv, Underway, OnItsWay
  <2>3. posed[r] \in 0 .. Questions
    BY DEF IInv, Shape
  <2>4. Len(sent[r]) \in {0, 1, 2}
    BY <2>1, <2>2, Zenon
  <2>5. Len(sent[r]) <= 2
    <3>1. \A n \in {0, 1, 2} : n <= 2
      OBVIOUS
    <3>2. QED
      BY <2>4, <3>1, Zenon
  <2>6. QED
    BY <2>3, <2>5
<1>6. ended # None => ended.how \in {"abort", "terminate", "undefined"}
  BY DEF Endings
<1>7. QED
  BY <1>1, <1>2, <1>3, <1>4, <1>5, <1>6 DEF TypeOK

(* A rank that is ready has what rank 0 has, and that is consistent.       *)
LEMMA ReadyAlike ==
  ASSUME SInv, NEW r \in Rank, pc[r] = "ready"
  PROVE  /\ Atom[r] = Atom[0] /\ NT[r] = NT[0]
         /\ Counted(Atom[r], NT[r])
         /\ Atom[r] \in Lattices /\ NT[r] \in Counters
         /\ Accepted /\ par[r] = Params /\ par[0] = Params
<1>1. pc[0] \in Served /\ Atom[r] = Atom[0] /\ NT[r] = NT[0]
  <2>1. CASE r = 0
    BY <2>1 DEF Served
  <2>2. CASE r # 0
    <3>1. OnItsWay(r)
      BY <2>2 DEF SInv, Underway
    <3>2. QED
      BY <3>1 DEF OnItsWay, Waiting, Served
  <2>3. QED
    BY <2>1, <2>2
<1>2. /\ pc[0] \in Passing /\ pc[r] \notin Bare /\ pc[r] \notin Unread
      /\ pc[0] \notin Unread
  BY <1>1 DEF Passing, Served, Bare, Unread
<1>3. Counted(Atom[0], NT[0])
  BY <1>2 DEF SInv, Made
<1>4. Atom[r] \in Lattices /\ NT[r] \in Counters
  BY <1>2 DEF SInv, Equipped
<1>5. Accepted /\ par[r] = Params /\ par[0] = Params
  BY <1>2, RootIsRank, AcceptedAfterReading
<1>6. QED
  BY <1>1, <1>3, <1>4, <1>5

(* Ready ranks have one configuration and its counts.                      *)
LEMMA StartSame == ASSUME Start PROVE SameStart
<1>1. SUFFICES ASSUME NEW r \in Rank, pc[r] = "ready"
      PROVE  /\ Atom[r] = Atom[0] /\ NT[r] = NT[0]
             /\ \A t \in DOMAIN NT[r] :
                  /\ NT[r][t] = Cardinality({s \in DOMAIN Atom[r] : Atom[r][s] = t})
                  /\ NT[r][t] >= Share(par[r].composition[t + 1])
  BY DEF SameStart
<1>2. /\ Atom[r] = Atom[0] /\ NT[r] = NT[0]
      /\ Counted(Atom[r], NT[r])
      /\ Atom[r] \in Lattices /\ NT[r] \in Counters
      /\ par[r] = Params /\ par[0] = Params
  BY <1>1, ReadyAlike DEF Start
<1>3. DOMAIN NT[r] = Kinds /\ DOMAIN Atom[r] = Cell(Params.N)
  BY <1>2 DEF Lattices, Counters
<1>4. \A t \in Kinds : /\ NT[r][t] = Count(Atom[r], Cell(Params.N), t)
                       /\ NT[r][t] >= ShareOf(t + 1)
  BY <1>2 DEF Counted
<1>5. \A t : Share(par[r].composition[t]) = ShareOf(t)
  BY <1>2, FilledIsShares
<1>6. QED
  BY <1>2, <1>3, <1>4, <1>5 DEF Count

(* Ready ranks have a configuration that the grid holds.                   *)
LEMMA StartOnGrid == ASSUME Start PROVE VoxelsRecoverAtoms
<1>1. SUFFICES ASSUME NEW r \in Rank, pc[r] = "ready", NEW s \in Cell(par[r].N)
      PROVE  /\ \A x \in 1 .. 3 : Voxel(par[r].N, s)[x] \in Coordinate(par[r].N)
             /\ Decoded(par[r].N, par[r].NE, inputConfig(par[r].N, Atom[r]))[s] =
                  {Atom[r][s]}
  BY DEF VoxelsRecoverAtoms
<1>2. /\ Atom[r] \in Lattices /\ par[r] = Params
      /\ Params.N \in Nat \ {0} /\ Params.NE \in Nat \ {0}
  BY <1>1, ReadyAlike DEF Start, Accepted
<1>3. Atom[r] \in [Cell(par[r].N) -> 0 .. par[r].NE - 1]
  BY <1>2 DEF Lattices, Kinds
<1>4. par[r].N \in Nat \ {0} /\ par[r].NE \in Nat \ {0}
  BY <1>2
<1>5. QED
  BY <1>1, <1>3, <1>4, NetworkSeesConfiguration

(* For any number of ranks and any job, parameters, arrays, list and       *)
(* messages are of the kinds that the program takes them for: the list of  *)
(* atoms never outgrows the lattice, and every atom and every number drawn *)
(* for one is an element (main() up to the first energy).                  *)
THEOREM StartTypeCorrect == Spec => []TypeOK
BY AlwaysStarting, StartTyped, PTL

(* Whatever the seeds and in whatever order the ranks go: all ranks that   *)
(* are ready have the configuration and the counts of rank 0, the counts   *)
(* are those of the configuration, also after the shuffling, and every     *)
(* element has its truncated share (ini_alloy() and the two broadcasts).   *)
THEOREM AllStartAlike == Spec => []SameStart
BY AlwaysStarting, StartSame, PTL

(* A network that gives back its input gives every rank its configuration  *)
(* back, and no voxel is outside the grid (voxel_index(), decode()).       *)
THEOREM VoxelsRecover == Spec => []VoxelsRecoverAtoms
BY AlwaysStarting, StartOnGrid, PTL

(* For every configuration file, coupling file and set of model files: an  *)
(* access outside an array comes from the input, from one of the six       *)
(* things the program does not compare (too few names, fractions above 1,  *)
(* one element alone, an element of the couplings beyond NE, more offsets  *)
(* than max_neighbors, an offset longer than the lattice) or a TensorFlow  *)
(* network of another size.                                                *)
THEOREM OverrunsAreKnown == Spec => []OnlyKnownOverruns
<1>1. Start => OnlyKnownOverruns
  BY DEF Start, Endings, Overrun, OnlyKnownOverruns
<1>2. QED
  BY <1>1, AlwaysStarting, PTL

(* A job whose input is sound is ended by no rank, whatever the seeds, the *)
(* numbers drawn and the order of the ranks.                               *)
THEOREM SoundJobsAreNotEnded == Spec => []SoundJobsStart
<1>1. Start => SoundJobsStart
  BY DEF Start, Endings, SoundJobsStart
<1>2. QED
  BY <1>1, AlwaysStarting, PTL
=============================================================================
