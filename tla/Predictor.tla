----------------------------- MODULE Predictor ------------------------------
(***************************************************************************)
(* What the program relies on when it asks a network (the interface of     *)
(* src/src/backend/inference_backend.hpp): a rank has an encoder and a     *)
(* decoder from the moment they are loaded, and each of its questions is   *)
(* answered by the network it was put to, whatever the other ranks ask.    *)
(* Only a network whose size is not that of the lattice may be misread.    *)
(***************************************************************************)
CONSTANTS Rank, None, Misread

VARIABLES nets,    \* nets[r]: the encoder and the decoder of rank r
          asked,   \* asked[r]: its last question, with the network asked
          reply    \* reply[r]: the answer, None while there is none

Init == /\ nets = [r \in Rank |-> None]
        /\ asked = [r \in Rank |-> None]
        /\ reply = [r \in Rank |-> None]

load(r) == /\ nets[r] = None /\ nets'[r] # None
           /\ nets' = [nets EXCEPT ![r] = nets'[r]]
           /\ UNCHANGED <<asked, reply>>

Ask(r) == /\ nets[r] # None /\ (asked[r] # None => reply[r] # None)
          /\ asked'[r] # asked[r]
          /\ asked' = [asked EXCEPT ![r] = asked'[r]]
          /\ reply' = [reply EXCEPT ![r] = None]
          /\ UNCHANGED nets

Answer(r) == LET net == nets[r][asked[r].base]
             IN  {[by |-> net, to |-> asked[r]]}
                   \cup (IF net.size = "fits" THEN {} ELSE {Misread})

Reply(r) == /\ asked[r] # None /\ reply[r] = None
            /\ \E a \in Answer(r) : reply' = [reply EXCEPT ![r] = a]
            /\ UNCHANGED <<nets, asked>>

Next == \E r \in Rank : load(r) \/ Ask(r) \/ Reply(r)
Spec == Init /\ [][Next]_<<nets, asked, reply>>
=============================================================================
