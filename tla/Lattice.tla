------------------------------ MODULE Lattice ------------------------------
(***************************************************************************)
(* The set-up of the lattice (src/src/alloy.cc): ini_coupling() reads      *)
(* neighbour offsets and pair couplings, one offset a line, and cuts the   *)
(* lines into shells where the distance changes; ini_apos() turns the      *)
(* offsets into a table of neighbouring sites, with periodic wrap.         *)
(* Everything after it walks the table shell by shell and trusts NS.       *)
(*                                                                         *)
(* A distance is a number; what a line says of a pair of elements is a     *)
(* function from the pair, written either way round, to a coupling.  A     *)
(* site is its coordinates; the code numbers sites in the order of their   *)
(* coordinates.  There are three axes in the code, any number here.        *)
(***************************************************************************)
EXTENDS Integers, Sequences, FiniteSets

CONSTANTS N,            \* sites along an axis
          Axis,
          SH,           \* shells to read
          NE,           \* elements
          Files,        \* contents of coupling_file: lines [r, off, Jr]
          MaxNeighbors  \* bound of the model: no line is read after it

Coord == 0 .. N - 1
Site == [Axis -> Coord]
Offset == [Axis -> Int]
Shell == 0 .. SH - 1
Element == 0 .. NE - 1
Pair == Element \X Element

(* A file has a line, and a line names each pair at most once.             *)
ASSUME SetupAssumption ==
  /\ N \in Nat \ {0} /\ SH \in Nat \ {0} /\ NE \in Nat \ {0}
  /\ MaxNeighbors \in Nat
  /\ \A f \in Files :
       /\ f # <<>>
       /\ f \in Seq([r : Int, off : Offset, Jr : {f[n].Jr : n \in DOMAIN f}])
       /\ \A n \in DOMAIN f : \A p \in DOMAIN f[n].Jr :
            /\ p \in Pair /\ f[n].Jr[p] \in Int
            /\ <<p[2], p[1]>> \in DOMAIN f[n].Jr => p[1] = p[2]

VARIABLES pc,        \* "parse", "table" or "ready"
          file, pos, \* the file, and the lines read of it
          shell, nlist, NS, Dist, J,
          inputPos   \* inputPos[i][n]: the n-th neighbour of site i

vars == <<pc, file, pos, shell, nlist, NS, Dist, J, inputPos>>

Nneighbors == Len(nlist)
NoTable == [i \in Site |-> <<>>]

Init == /\ pc = "parse"
        /\ file \in Files
        /\ pos = 0
        /\ shell = 0
        /\ nlist = <<>>
        /\ NS = [s \in Shell |-> 0]
        /\ Dist = [s \in Shell |-> 0]
        /\ J = [p \in Pair |-> [s \in Shell |-> 0]]
        /\ inputPos = NoTable

(* At the end of the file fscanf() leaves the distance, the pairs and the  *)
(* couplings of the line before, and the offset is zero.                   *)
Line == IF pos < Len(file)
        THEN file[pos + 1]
        ELSE [file[Len(file)] EXCEPT !.off = [a \in Axis |-> 0]]

(* Faulty variant: a shell is opened by a larger distance only. *)
NewShellFarther(line) == Nneighbors > 0 /\ line.r > Dist[shell]
NewShell(line) == Nneighbors > 0 /\ line.r # Dist[shell]

(* Faulty variant: a pair is stored the way round it is written only. *)
StoredAsWritten(line, s) == [p \in Pair |->
  IF p \in DOMAIN line.Jr THEN [J[p] EXCEPT ![s] = line.Jr[p]] ELSE J[p]]

Stored(line, s) == [p \in Pair |->
  IF p \in DOMAIN line.Jr THEN [J[p] EXCEPT ![s] = line.Jr[p]]
  ELSE IF <<p[2], p[1]>> \in DOMAIN line.Jr
       THEN [J[p] EXCEPT ![s] = line.Jr[<<p[2], p[1]>>]]
       ELSE J[p]]

Keep(line, s) == /\ nlist' = Append(nlist, line.off)
                 /\ NS' = [NS EXCEPT ![s] = @ + 1]
                 /\ Dist' = [Dist EXCEPT ![s] = line.r]
                 /\ J' = Stored(line, s)

ReadLine ==
  LET s == IF NewShell(Line) THEN shell + 1 ELSE shell
  IN  /\ pc = "parse"
      /\ Nneighbors < MaxNeighbors
      /\ pos' = IF pos < Len(file) THEN pos + 1 ELSE pos
      /\ shell' = s
      /\ \/ s = SH /\ pc' = "table" /\ UNCHANGED <<nlist, NS, Dist, J>>
         \/ s # SH /\ Keep(Line, s) /\ UNCHANGED pc
      /\ UNCHANGED <<file, inputPos>>

(* noffset(): each coordinate is wrapped once. *)
WrapLate(c, o) == LET x == IF c + o < 0 THEN c + o + N ELSE c + o   \* faulty variant
                  IN  IF x > N THEN x - N ELSE x
Wrap(c, o) == LET x == IF c + o < 0 THEN c + o + N ELSE c + o
              IN  IF x >= N THEN x - N ELSE x
noffset(i, o) == [a \in Axis |-> Wrap(i[a], o[a])]
neighbor(i) == [n \in 1 .. Nneighbors |-> noffset(i, nlist[n])]

ini_apos == /\ pc = "table"
            /\ pc' = "ready"
            /\ inputPos' = [i \in Site |-> neighbor(i)]
            /\ UNCHANGED <<file, pos, shell, nlist, NS, Dist, J>>

Done == pc = "ready" /\ UNCHANGED vars
BoundReached == pc = "parse" /\ Nneighbors = MaxNeighbors /\ UNCHANGED vars

Next == ReadLine \/ ini_apos \/ Done \/ BoundReached

Spec == Init /\ [][Next]_vars /\ WF_vars(ReadLine \/ ini_apos)
-----------------------------------------------------------------------------
(* The shell the rest of the program takes the n-th neighbour to be in: it *)
(* goes through the shells and takes NS[s] neighbours for each, one in     *)
(* each turn of its inner loop.                                            *)
Turns(s) == UNION {{q} \X (1 .. NS[q]) : q \in 0 .. s - 1}
Before(s) == Cardinality(Turns(s))
InShell(n, s) == n \in Before(s) + 1 .. Before(s) + NS[s]

(* The n-th line of a file belongs to this shell: the number of times the  *)
(* distance changed before it.                                             *)
ShellOfLine(f, n) == Cardinality({m \in 2 .. n : f[m].r # f[m - 1].r})
Complete(f) == \E n \in DOMAIN f : ShellOfLine(f, n) = SH

(* Once parsed, cutting the neighbour list by NS gives back the shells of  *)
(* the file: the neighbours of shell s are the offsets of its lines, in    *)
(* order, with its distance, and no line of the first SH shells is missing.*)
(* The counts also decide how far ini_apos(), ini_W() and updateWsite()    *)
(* read, so NS must add up to the list.                                    *)
ShellsOfFile == pc # "parse" =>
  /\ Before(SH) = Nneighbors
  /\ \A n \in DOMAIN file : ShellOfLine(file, n) < SH => n \in DOMAIN nlist
  /\ \A n \in DOMAIN nlist : \A s \in Shell : InShell(n, s) =>
       /\ n \in DOMAIN file /\ nlist[n] = file[n].off
       /\ ShellOfLine(file, n) = s /\ Dist[s] = file[n].r

(* The couplings of a shell are those of its last line, whichever way      *)
(* round the file writes a pair: Etot() looks up one of the two only.      *)
CouplingsOfFile == pc # "parse" =>
  \A n \in DOMAIN nlist : \A s \in Shell :
    n = Before(s) + NS[s] /\ NS[s] > 0 =>
      \A p \in DOMAIN file[n].Jr :
        J[p][s] = file[n].Jr[p] /\ J[<<p[2], p[1]>>][s] = file[n].Jr[p]

(* Together: what the program works with is what the file says. *)
TablesOfFile == ShellsOfFile /\ CouplingsOfFile

(* Offsets that reach another site: shorter than the lattice, not zero.    *)
Opposite(o) == [a \in Axis |-> -o[a]]
Reaches(o) == /\ \A a \in Axis : o[a] \in -(N - 1) .. N - 1
              /\ \E a \in Axis : o[a] # 0

(* What Alloy's bookkeeping of bonds needs of the table: neighbours are    *)
(* sites, no site is its own neighbour, and the neighbour at an offset has *)
(* the site it was reached from at the opposite offset, also across the    *)
(* periodic boundary.                                                      *)
NeighboursMutual == pc = "ready" =>
  \A i \in Site : \A n \in DOMAIN nlist : Reaches(nlist[n]) =>
    /\ inputPos[i][n] \in Site
    /\ inputPos[i][n] # i
    /\ \A m \in DOMAIN nlist : nlist[m] = Opposite(nlist[n])
                                 => inputPos[inputPos[i][n]][m] = i

(* The parser does not test for the end of the file.  It ends for every    *)
(* file with a line after its last shell, as the example files have (a     *)
(* line of distance -1).                                                   *)
CompleteFilesEnd == Complete(file) => <>(pc = "ready")
=============================================================================
