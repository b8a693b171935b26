------------------------------ MODULE Startup -------------------------------
(***************************************************************************)
(* From the start of the job to the first questions to the networks:       *)
(* main() up to the first energy (src/src/main.cc lines 32-76), with the   *)
(* seeding, ReadInput(), the backend, ini_T(), ini_sys(), initialize(),    *)
(* the filling and shuffling of ini_alloy(), the two broadcasts, and the   *)
(* ways in which a job ends before it has begun.                           *)
(*                                                                         *)
(* Every rank does all of this on its own and sees files and devices of    *)
(* its own node; only the configuration is made by rank 0 and sent to the  *)
(* others.  Of the coupling file a job has what the parser makes of it,    *)
(* the offsets it stores and the pairs of elements it meets; the parsing,  *)
(* its end, and the table of neighbours are the matter of Lattice.  Memory *)
(* suffices for every array, and what the program counts fits its types.   *)
(***************************************************************************)
EXTENDS Backend, Parameters, Rand, VaeInput

CONSTANTS Jobs,       \* what may be started
          RandRuns,   \* values of std::rand() in ini_alloy()
          Questions   \* bound of the model: questions of each rank

(* None is not a network, not a question and not an answer.                *)
ASSUME NoneAssumption ==
  /\ Questions \in Nat
  /\ Misread # None
  /\ \A j \in Jobs :
       /\ [base \in Base |-> FileOf(j, base)] # None
       /\ \A b \in Base, r \in Rank, q \in 0 .. Questions - 1 :
            LET question == [base |-> b, question |-> <<r, q>>]
            IN  question # None /\ [by |-> FileOf(j, b), to |-> question] # None

(* A parameter that converts is a number, a fraction has a positive        *)
(* denominator, and rand() is called often enough for every lattice.       *)
ASSUME JobAssumption ==
  /\ RandRuns \subseteq Seq(Nat)
  /\ \A j \in Jobs :
       LET file == j.file
       IN  /\ j.tseed \in [Rank -> Word]
           /\ \A key \in {"N", "NE", "MTi", "MTf", "max_neighbors"} :
                Given(file[key]) => file[key] \in Int
           /\ j.coupling.offsets \in Seq(Int \X Int \X Int)
           /\ j.coupling.pairs \subseteq Int \X Int
           /\ Given(file.composition) /\ ~HasWrongEntry(file.composition)
                => file.composition \in Seq(Int \X (Nat \ {0}))
           /\ ReadInput(file) => \A J \in RandRuns : file.N * file.N * file.N <= Len(J) + 1

VARIABLES pc,     \* what rank r does next
          par,    \* par[r]: the parameters rank r has read
          seed,   \* seed[r]: its generator
          list,   \* ini_alloy()'s list of the atoms to place, on rank 0
          Atom, NT,
          sent,   \* sent[r]: broadcasts rank r has not received yet
          posed,  \* questions rank r has put to its networks
          ended   \* None, or how the job was ended

placed == <<list, Atom, NT, sent>>
vars == <<job, calls, pc, par, seed, placed, posed, ended>>

Init == /\ job \in Jobs
        /\ InitBackend
        /\ pc = [r \in Rank |-> "args"]
        /\ par = [r \in Rank |-> None]
        /\ seed = [r \in Rank |-> None]
        /\ list = <<>>
        /\ Atom = [r \in Rank |-> <<>>]
        /\ NT = [r \in Rank |-> <<>>]
        /\ sent = [r \in Rank |-> <<>>]
        /\ posed = [r \in Rank |-> 0]
        /\ ended = None

At(r, a) == pc[r] = a /\ ended = None
Goto(r, a) == pc' = [pc EXCEPT ![r] = a]

(* The end of the job: MPI_Abort() takes all ranks with it, wherever they  *)
(* are; so does an exception that is not caught.  After an access outside  *)
(* an array the program has no meaning any more.                           *)
EndAlone(r, how, code) ==     \* faulty variant: exit() instead of MPI_Abort()
  /\ Goto(r, "gone")
  /\ UNCHANGED <<job, calls, par, seed, placed, posed, ended>>
End(r, how, code) ==
  /\ ended' = [how |-> how, code |-> code, by |-> r]
  /\ UNCHANGED <<job, calls, pc, par, seed, placed, posed>>

Usage(r) == At(r, "args") /\ ~job.args /\ End(r, "abort", 1)

(* The seed of the user and the rank decide tseed through srand(): any     *)
(* word may come out of it.                                                *)
Seeding(r) == /\ At(r, "args") /\ job.args /\ Goto(r, "read")
              /\ seed' = [seed EXCEPT ![r] = shelltimeseed(job.tseed[r])]
              /\ UNCHANGED <<job, calls, par, placed, posed, ended>>

Readable(r) == r \notin job.unreadable /\ ReadInput(job.file)

Read(r) == /\ At(r, "read") /\ Readable(r) /\ Goto(r, "load")
           /\ par' = [par EXCEPT ![r] = Loaded(job.file)]
           /\ UNCHANGED <<job, calls, seed, placed, posed, ended>>

ReadFails(r) == At(r, "read") /\ ~Readable(r) /\ End(r, "abort", 2)

(* The alloy's name is put together from element[1] to element[NE], except *)
(* in the TensorFlow build.                                                *)
Unnamed(r) == Len(par[r].element) <= par[r].NE
NameOverruns(r) == job.build # "tf" /\ Unnamed(r)

LoadModels(r) == /\ At(r, "load") /\ ~NameOverruns(r) /\ Goto(r, "ini_T")
                 /\ load(r)
                 /\ UNCHANGED <<job, par, seed, placed, posed, ended>>

LoadOverruns(r) == At(r, "load") /\ NameOverruns(r) /\ End(r, "undefined", 0)

LoadFails(r) == /\ At(r, "load") /\ ~NameOverruns(r) /\ ~Loadable
                /\ End(r, "abort", 3)

(* The product of the temperatures must exceed 1e-5; of the whole numbers  *)
(* that Parameters lets pass, 0 does not.  The ladder between them is      *)
(* arithmetic over doubles.                                                *)
InvalidRange(r) == par[r].MTi * par[r].MTf = 0

ini_T(r) == /\ At(r, "ini_T") /\ ~InvalidRange(r) /\ Goto(r, "ini_sys")
            /\ UNCHANGED <<job, calls, par, seed, placed, posed, ended>>

ini_TDies(r) == At(r, "ini_T") /\ InvalidRange(r) /\ End(r, "abort", 1)

CouplingMissing(r) == r \in job.noCoupling

(* The arrays get the sizes of the parameters and are filled with zeros.   *)
resize_pair_arrays(r) == NT' = [NT EXCEPT ![r] = [t \in 0 .. par[r].NE - 1 |-> 0]]

(* nlist.reserve() of a negative number is of a huge one. *)
ini_sysThrows(r) == /\ At(r, "ini_sys") /\ par[r].max_neighbors < 0
                    /\ End(r, "terminate", 0)

ini_sysDies(r) == /\ At(r, "ini_sys") /\ par[r].max_neighbors >= 0
                  /\ CouplingMissing(r)
                  /\ End(r, "abort", 1)

(* J_at(): the shell is less than SH, so the pair of elements, counted     *)
(* from 0, decides whether an entry is one of the NE * NE * SH.            *)
InPairTable(p, a, b) == a * p.NE + b \in 0 .. p.NE * p.NE - 1

(* Every pair the file names is stored both ways round, and rank 0 prints  *)
(* the coupling of the first two elements, which there need not be.        *)
PairOutside(r) ==
  \/ \E k \in job.coupling.pairs : \/ ~InPairTable(par[r], k[1] - 1, k[2] - 1)
                                   \/ ~InPairTable(par[r], k[2] - 1, k[1] - 1)
  \/ r = 0 /\ ~InPairTable(par[r], 0, 1)

CouplingRead(r) == /\ At(r, "ini_sys") /\ par[r].max_neighbors >= 0
                   /\ ~CouplingMissing(r)

ini_sysOverruns(r) == CouplingRead(r) /\ PairOutside(r) /\ End(r, "undefined", 0)

ini_sys(r) ==
  /\ CouplingRead(r) /\ ~PairOutside(r)
  /\ Goto(r, IF r = 0 THEN "fill" ELSE "bcastAtom")
  /\ Atom' = [Atom EXCEPT ![r] = [s \in Cell(par[r].N) |-> 0]]
  /\ resize_pair_arrays(r)
  /\ UNCHANGED <<job, calls, par, seed, list, sent, posed, ended>>
-----------------------------------------------------------------------------
Total == par[0].N * par[0].N * par[0].N

(* The share of element t: total * p, truncated. *)
ShareAndOne(p) == (Total * p[1]) \div p[2] + 1     \* faulty variant: cnti <= Ni
Share(p) == (Total * p[1]) \div p[2]
Filled == FlattenSeq([t \in 1 .. par[0].NE |->
                        [x \in 1 .. Share(par[0].composition[t]) |-> t - 1]])

WrongShares == Len(par[0].composition) # par[0].NE
TooManyShares == Len(Filled) > Total

Fill(r) == /\ At(r, "fill") /\ ~WrongShares /\ ~TooManyShares
           /\ Goto(r, "draw")
           /\ list' = Filled
           /\ UNCHANGED <<job, calls, par, seed, Atom, NT, sent, posed, ended>>

FillFails(r) == /\ At(r, "fill") /\ (WrongShares \/ TooManyShares)
                /\ End(r, IF WrongShares THEN "abort" ELSE "undefined", 1)

(* One call of kiss() for the next atom beyond the shares. *)
Drawing(r) ==
  \E s \in {kiss(seed[r])} : \E out \in {Drawn(s)} :
    /\ seed' = [seed EXCEPT ![r] = s]
    /\ list' = IF Redraw(out) THEN list ELSE Append(list, Index(out, par[r].NE))
    /\ UNCHANGED <<job, calls, pc, par, Atom, NT, sent, posed, ended>>

DrawOneMore(r) == At(r, "draw") /\ Len(list) <= Total /\ Drawing(r)  \* faulty variant
Draw(r) == At(r, "draw") /\ Len(list) < Total /\ Drawing(r)

(* The atom of place i, counted from 0, changes places with one of those   *)
(* before it or stays; from the last place on.                             *)
Exchange(a, i, j) == [a EXCEPT ![i + 1] = a[j + 1], ![j + 1] = a[i + 1]]
shuffle(array, J) ==
  LET after[i \in 1 .. Len(array)] ==
        IF i = Len(array) THEN array ELSE Exchange(after[i + 1], i, J[i] % (i + 1))
  IN  after[1]

Site(N, s) == s[1] * N * N + s[2] * N + s[3]

(* NT is counted, and the counts are printed by the elements' names.       *)
Placeable(r) == Range(list) \subseteq DOMAIN NT[r] /\ ~Unnamed(r)

Place(r) ==
  /\ At(r, "draw") /\ Len(list) = Total /\ Placeable(r)
  /\ Goto(r, "bcastAtom")
  /\ \E order \in {shuffle(list, J) : J \in RandRuns} :
       Atom' = [Atom EXCEPT ![r] =
                  [s \in DOMAIN @ |-> order[Site(par[r].N, s) + 1]]]
  /\ NT' = [NT EXCEPT ![r] =
              [t \in DOMAIN @ |-> Cardinality({x \in DOMAIN list : list[x] = t})]]
  /\ UNCHANGED <<job, calls, par, seed, list, sent, posed, ended>>

PlaceOverruns(r) == /\ At(r, "draw") /\ Len(list) = Total /\ ~Placeable(r)
                    /\ End(r, "undefined", 0)

ini_alloy(r) == \/ Fill(r) \/ FillFails(r)
                \/ Draw(r) \/ Place(r) \/ PlaceOverruns(r)
-----------------------------------------------------------------------------
(* The root of a broadcast goes on; the others wait for what it sent.      *)
Send(r, message) == sent' = [q \in Rank |-> IF q = r THEN sent[q]
                                            ELSE Append(sent[q], message)]
AfterBroadcast(r) == IF pc[r] = "bcastAtom" THEN "bcastNT" ELSE "ini_apos"

Broadcast(r) ==
  /\ r = 0 /\ ended = None /\ pc[r] \in {"bcastAtom", "bcastNT"}
  /\ Send(r, IF pc[r] = "bcastAtom" THEN Atom[r] ELSE NT[r])
  /\ Goto(r, AfterBroadcast(r))
  /\ UNCHANGED <<job, calls, par, seed, list, Atom, NT, posed, ended>>

Received(r) == /\ r # 0 /\ ended = None /\ sent[r] # <<>>
               /\ sent' = [sent EXCEPT ![r] = Tail(@)]
               /\ Goto(r, AfterBroadcast(r))
               /\ UNCHANGED <<job, calls, par, seed, list, posed, ended>>

ReceiveAtom(r) == /\ At(r, "bcastAtom") /\ Received(r)
                  /\ Atom' = [Atom EXCEPT ![r] = Head(sent[r])]
                  /\ UNCHANGED NT

KeepNT(r) == /\ At(r, "bcastNT") /\ Received(r)    \* faulty variant
             /\ UNCHANGED <<Atom, NT>>
ReceiveNT(r) == /\ At(r, "bcastNT") /\ Received(r)
                /\ NT' = [NT EXCEPT ![r] = Head(sent[r])]
                /\ UNCHANGED Atom
-----------------------------------------------------------------------------
(* A coordinate is wrapped once, by one side of the lattice.               *)
Wrap(N, x) == CASE x < 0 -> x + N [] x >= N -> x - N [] OTHER -> x
NeighbourSite(N, s, off) == Site(N, [x \in 1 .. 3 |-> Wrap(N, s[x] + off[x])])

(* neighbor() writes all offsets of the file into a buffer of              *)
(* max_neighbors, and ini_W() looks up the atom at each of them.           *)
ListTooLong(p) == Len(job.coupling.offsets) > p.max_neighbors
NeighbourOutside(p) ==
  \E s \in Cell(p.N), n \in DOMAIN job.coupling.offsets :
    NeighbourSite(p.N, s, job.coupling.offsets[n]) \notin 0 .. p.N * p.N * p.N - 1

ini_apos(r) ==
  /\ At(r, "ini_apos") /\ ~ListTooLong(par[r]) /\ ~NeighbourOutside(par[r])
  /\ Goto(r, "ready")
  /\ UNCHANGED <<job, calls, par, seed, placed, posed, ended>>

ini_aposOverruns(r) ==
  /\ At(r, "ini_apos") /\ (ListTooLong(par[r]) \/ NeighbourOutside(par[r]))
  /\ End(r, "undefined", 0)
-----------------------------------------------------------------------------
(* encode() and decode() of later trial moves, in turn.                    *)
Pose(r) ==
  /\ At(r, "ready") /\ posed[r] < Questions
  /\ Put(r, IF posed[r] % 2 = 0 THEN "encoder" ELSE "decoder", <<r, posed[r]>>)
  /\ posed' = [posed EXCEPT ![r] = @ + 1]
  /\ UNCHANGED <<job, pc, par, seed, placed, ended>>

RunModel(r) == ended = None /\ Run(r)
               /\ UNCHANGED <<job, pc, par, seed, placed, posed, ended>>
Answered(r) == ended = None /\ Take(r)
               /\ UNCHANGED <<job, pc, par, seed, placed, posed, ended>>
Uncaught(r) == ended = None /\ Refused(r) /\ End(r, "terminate", 0)
OutputOverrun(r) == ended = None /\ Overread(r) /\ End(r, "undefined", 0)

Step(r) == \/ Usage(r) \/ Seeding(r) \/ Read(r) \/ ReadFails(r)
           \/ LoadModels(r) \/ LoadOverruns(r) \/ LoadFails(r)
           \/ ini_T(r) \/ ini_TDies(r)
           \/ ini_sys(r) \/ ini_sysThrows(r) \/ ini_sysDies(r) \/ ini_sysOverruns(r)
           \/ ini_alloy(r) \/ Broadcast(r) \/ ReceiveAtom(r) \/ ReceiveNT(r)
           \/ ini_apos(r) \/ ini_aposOverruns(r)
           \/ Pose(r) \/ RunModel(r) \/ Answered(r)
           \/ Uncaught(r) \/ OutputOverrun(r)

Started(r) == pc[r] = "ready" /\ posed[r] = Questions /\ call[r] = "idle"

Next == \E r \in Rank : Step(r)
Fairness == WF_vars(Next)
Spec == Init /\ [][Next]_vars /\ Fairness
-----------------------------------------------------------------------------
(* The fractions above 0 added up; no atom is placed for another.          *)
Fractions(p) ==
  LET shares == p.composition
      upTo[n \in 0 .. Len(shares)] ==
        IF n = 0 THEN <<0, 1>>
        ELSE IF shares[n][1] <= 0 THEN upTo[n - 1]
        ELSE <<upTo[n - 1][1] * shares[n][2] + shares[n][1] * upTo[n - 1][2],
               upTo[n - 1][2] * shares[n][2]>>
  IN  upTo[Len(shares)]
ExceedOne(p) == Fractions(p)[1] > Fractions(p)[2]

(* What the program does not compare with the coupling file or NE: the     *)
(* names of the elements, the fractions, the couplings of one element      *)
(* alone, the numbers of the pairs, the neighbours and their offsets.      *)
Unmatched(p) ==
  \/ Len(p.element) <= p.NE
  \/ ExceedOne(p)
  \/ p.NE = 1
  \/ \E k \in job.coupling.pairs : k[1] \notin 1 .. p.NE \/ k[2] \notin 1 .. p.NE
  \/ ListTooLong(p)
  \/ \E n \in DOMAIN job.coupling.offsets, x \in 1 .. 3 :
       job.coupling.offsets[n][x] \notin -p.N .. p.N

Fits(base) == File(base) \notin {None, Broken} /\ File(base).size = "fits"

(* Every variable stays in its range: no rank is without the arrays it     *)
(* sends or receives, the list of atoms never holds more than the lattice, *)
(* and every atom is of one of the NE elements.                            *)
TypeOK ==
  /\ pc \in [Rank -> {"args", "read", "load", "ini_T", "ini_sys", "fill", "draw",
                      "bcastAtom", "bcastNT", "ini_apos", "ready"}]
  /\ \A r \in Rank : seed[r] = None \/ seed[r] \in seed_type
  /\ list # <<>> => Len(list) <= Total
  /\ \A r \in Rank : Atom[r] # <<>> =>
       /\ Atom[r] \in [Cell(par[r].N) -> 0 .. par[r].NE - 1]
       /\ NT[r] \in [0 .. par[r].NE - 1 -> 0 .. par[r].N * par[r].N * par[r].N]
  /\ \A r \in Rank : Len(sent[r]) <= 2 /\ posed[r] \in 0 .. Questions
  /\ ended # None => ended.how \in {"abort", "terminate", "undefined"}

(* A configuration file that ReadInput() accepts leads to an access        *)
(* outside an array only where it checks too little: the element table is  *)
(* shorter than NE, the fractions above 0 add up to more than 1, there is  *)
(* one element only, the coupling file has an element beyond NE, more than *)
(* max_neighbors offsets or one longer than the lattice, or a TensorFlow   *)
(* network gives less than was asked for.  In particular no random number  *)
(* becomes an element that does not exist.                                 *)
OnlyKnownOverruns ==
  ended # None /\ ended.how = "undefined" =>
    \/ Unmatched(par[ended.by])
    \/ job.build = "tf" /\ \E base \in Base : ~Fits(base)

(* A job with its arguments, a file that is accepted, temperatures above   *)
(* zero, a coupling file for its elements and its lattice and networks of  *)
(* the lattice's size on every node, with names for all its elements and   *)
(* fractions of at most 1 in all, is not ended by any rank: nothing in     *)
(* this code ends it for another reason, whatever the seeds and the order  *)
(* of the ranks.                                                           *)
Sound == /\ job.args /\ job.unreadable = {} /\ job.noCoupling = {}
         /\ ReadInput(job.file)
         /\ job.file.MTi > 0 /\ job.file.MTf > 0
         /\ \A base \in Base : Fits(base)
         /\ ~Unmatched(Loaded(job.file))
SoundJobsStart == Sound => ended = None

(* All ranks begin with the same configuration and the same counts, and    *)
(* the counts are those of the configuration, although only rank 0 made    *)
(* either; every element has at least its truncated share.                 *)
SameStart == \A r \in Rank : pc[r] = "ready" =>
  /\ Atom[r] = Atom[0] /\ NT[r] = NT[0]
  /\ \A t \in DOMAIN NT[r] :
       /\ NT[r][t] = Cardinality({s \in DOMAIN Atom[r] : Atom[r][s] = t})
       /\ NT[r][t] >= Share(par[r].composition[t + 1])

(* The grid has room for every site, and no two sites share a cell: a      *)
(* network that gives back its input gives back the configuration.         *)
VoxelsRecoverAtoms == \A r \in Rank : pc[r] = "ready" =>
  LET N == par[r].N
      decoded == Decoded(N, par[r].NE, inputConfig(N, Atom[r]))
  IN  \A s \in Cell(N) : /\ \A x \in 1 .. 3 : Voxel(N, s)[x] \in Coordinate(N)
                         /\ decoded[s] = {Atom[r][s]}

(* Each rank's questions are answered by its own network and from its own  *)
(* input, also when ranks share a server that holds what an earlier job    *)
(* left: the backends implement Predictor.                                 *)
P == INSTANCE Predictor
AnswersOwnQuestions == P!Spec

(* Every rank gets its answers, or the job ends for all: no rank waits in  *)
(* a broadcast for a root that gave up.                                    *)
AllStartOrNone == <>(ended # None \/ \A r \in Rank : Started(r))
=============================================================================
