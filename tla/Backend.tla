------------------------------ MODULE Backend -------------------------------
(***************************************************************************)
(* The networks behind the trial moves: how the three backends find and    *)
(* load them, and how a rank puts a question to one (src/src/backend/).    *)
(*                                                                         *)
(* A build has one backend.  With SmartRedis, models and tensors live on a *)
(* server that the ranks of a node share, one for each of its GPUs; with   *)
(* LibTorch and TensorFlow they live in the rank's own process, which is   *)
(* treated as a server of its own.                                         *)
(***************************************************************************)
EXTENDS Integers, Sequences, SequencesExt

CONSTANTS NRanks, RanksPerNode, GpusPerNode,
          None,      \* no file, no network, no tensor
          Broken,    \* a file the framework cannot load
          Misread    \* numbers taken from the wrong places of an output

Rank == 0 .. NRanks - 1
Base == {"encoder", "decoder"}

ASSUME NodeAssumption == /\ NRanks \in Nat \ {0} /\ RanksPerNode \in Nat \ {0}
                         /\ GpusPerNode \in Nat \ {0}

VARIABLES job,     \* what is started: the build, its files, its seeds
          nets, asked, reply,   \* as in Predictor
          call,    \* call[r]: "idle", "run" or "take", in a call of the backend
          store    \* store[s]: what server s holds under each key

calls == <<nets, asked, reply, call, store>>

local_gpu(r) == r % GpusPerNode
Server(r) == IF job.build = "redis" THEN <<r \div RanksPerNode, local_gpu(r)>>
             ELSE <<"process", r>>
Servers == {Server(r) : r \in Rank}

Names == Base \cup {"input_config", "output_z", "input_z", "output_config"}
KeyUnranked(name, r) == <<name, 0>>     \* faulty variant
Key(name, r) == <<name, r>>
Input(base) == IF base = "encoder" THEN "input_config" ELSE "input_z"
Output(base) == IF base = "encoder" THEN "output_z" ELSE "output_config"

(* A server may hold what an earlier job left there. *)
InitBackend == /\ nets = [r \in Rank |-> None]
               /\ asked = [r \in Rank |-> None]
               /\ reply = [r \in Rank |-> None]
               /\ call = [r \in Rank |-> "idle"]
               /\ store = [s \in Servers |-> [k \in Names \X Rank |-> job.leftover]]

(* The file that is tried: job.models[base] has one named after the alloy  *)
(* ("tagged") and one that is not ("plain").                               *)
Candidates == [torch |-> <<"tagged", "plain">>, tf |-> <<"plain">>,
               redis |-> <<"tagged">>]
FileOf(j, base) ==
  LET found == SelectSeq(Candidates[j.build],
                         LAMBDA kind : j.models[base][kind] # None)
  IN  IF found = <<>> THEN None ELSE j.models[base][Head(found)]
File(base) == FileOf(job, base)

Loadable == \A base \in Base : File(base) \notin {None, Broken}

load(r) ==
  /\ Loadable
  /\ nets' = [nets EXCEPT ![r] = [base \in Base |-> File(base)]]
  /\ store' = [store EXCEPT ![Server(r)] =
                 [k \in DOMAIN @ |-> IF k \in {Key(base, r) : base \in Base}
                                     THEN File(k[1]) ELSE @[k]]]
  /\ UNCHANGED <<asked, reply, call>>

Put(r, base, question) ==
  /\ call[r] = "idle"
  /\ call' = [call EXCEPT ![r] = "run"]
  /\ asked' = [asked EXCEPT ![r] = [base |-> base, question |-> question]]
  /\ reply' = [reply EXCEPT ![r] = None]
  /\ store' = [store EXCEPT ![Server(r)][Key(Input(base), r)] = asked'[r]]
  /\ UNCHANGED nets

(* run_model() and forward(): the server applies the model it has under    *)
(* the model's key to the tensor it has under the input's.                 *)
Run(r) ==
  LET base == asked[r].base
      held == store[Server(r)]
  IN  /\ call[r] = "run"
      /\ call' = [call EXCEPT ![r] = "take"]
      /\ store' = [store EXCEPT ![Server(r)][Key(Output(base), r)] =
                     [by |-> held[Key(base, r)], to |-> held[Key(Input(base), r)]]]
      /\ UNCHANGED <<nets, asked, reply>>

Out(r) == store[Server(r)][Key(Output(asked[r].base), r)]

(* An output that is too small is refused by LibTorch's side of the code   *)
(* and by the SmartRedis client, and read past its end in the TensorFlow   *)
(* build; one that is too large is refused by the SmartRedis client only.  *)
Refused(r) == /\ call[r] = "take"
              /\ \/ job.build = "torch" /\ Out(r).by.size = "small"
                 \/ job.build = "redis" /\ Out(r).by.size # "fits"
Overread(r) == call[r] = "take" /\ job.build = "tf" /\ Out(r).by.size = "small"

Take(r) == /\ call[r] = "take" /\ ~Refused(r) /\ ~Overread(r)
           /\ call' = [call EXCEPT ![r] = "idle"]
           /\ reply' = [reply EXCEPT ![r] =
                          IF Out(r).by.size = "fits" THEN Out(r) ELSE Misread]
           /\ UNCHANGED <<nets, asked, store>>
=============================================================================
