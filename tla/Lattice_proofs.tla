--------------------------- MODULE Lattice_proofs ---------------------------
(***************************************************************************)
(* The neighbour table of Lattice is right for every lattice size, number  *)
(* of axes and file, and so are the shells and the couplings.              *)
(***************************************************************************)
EXTENDS Lattice, TLAPS, FiniteSetTheorems

(* The periodic wrap of noffset(), one coordinate at a time: it stays on   *)
(* the lattice, moves unless the offset is zero, and the opposite offset   *)
(* leads back.                                                             *)
LEMMA WrapOnce ==
  ASSUME N \in Nat \ {0}, NEW c \in Coord, NEW o \in -(N - 1) .. N - 1
  PROVE  /\ Wrap(c, o) \in Coord
         /\ o # 0 => Wrap(c, o) # c
         /\ Wrap(Wrap(c, o), -o) = c
<1>1. c + o \in -(N - 1) .. 2 * N - 2
  BY DEF Coord
<1>2. CASE c + o < 0
  BY <1>1, <1>2 DEF Wrap, Coord
<1>3. CASE c + o \in 0 .. N - 1
  BY <1>1, <1>3 DEF Wrap, Coord
<1>4. CASE c + o >= N
  BY <1>1, <1>4 DEF Wrap, Coord
<1>5. QED
  BY <1>1, <1>2, <1>3, <1>4

(* The same of a whole site and an offset that reaches another one. *)
LEMMA NeighbourOfNeighbour ==
  ASSUME N \in Nat \ {0}, NEW i \in Site, NEW o \in Offset, Reaches(o)
  PROVE  /\ noffset(i, o) \in Site
         /\ noffset(i, o) # i
         /\ noffset(noffset(i, o), Opposite(o)) = i
<1>1. \A a \in Axis : i[a] \in Coord /\ o[a] \in -(N - 1) .. N - 1
  BY DEF Site, Reaches
<1>2. \A a \in Axis : /\ Wrap(i[a], o[a]) \in Coord
                      /\ o[a] # 0 => Wrap(i[a], o[a]) # i[a]
                      /\ Wrap(Wrap(i[a], o[a]), -o[a]) = i[a]
  BY <1>1, WrapOnce
<1>3. noffset(i, o) \in Site
  BY <1>2 DEF noffset, Site
<1>4. noffset(i, o) # i
  <2>1. PICK a \in Axis : o[a] # 0
    BY DEF Reaches
  <2>2. noffset(i, o)[a] # i[a]
    BY <2>1, <1>2 DEF noffset
  <2>3. QED
    BY <2>2
<1>5. noffset(noffset(i, o), Opposite(o)) = i
  <2>1. noffset(noffset(i, o), Opposite(o)) = [a \in Axis |-> i[a]]
    BY <1>2 DEF noffset, Opposite
  <2>2. QED
    BY <2>1 DEF Site
<1>6. QED
  BY <1>3, <1>4, <1>5

(* The shells of a file are numbered one after the other.                  *)
LEMMA NextShell ==
  ASSUME NEW f, NEW n \in Nat
  PROVE  /\ ShellOfLine(f, n) \in Nat
         /\ n < 2 => ShellOfLine(f, n) = 0
         /\ n > 0 => ShellOfLine(f, n + 1) =
                       IF f[n + 1].r # f[n].r THEN ShellOfLine(f, n) + 1
                       ELSE ShellOfLine(f, n)
<1> DEFINE Cuts(m) == {x \in 2 .. m : f[x].r # f[x - 1].r}
<1>1. IsFiniteSet(Cuts(n))
  <2>1. IsFiniteSet(2 .. n) /\ Cuts(n) \subseteq 2 .. n
    BY FS_Interval
  <2>2. QED
    BY <2>1, FS_Subset
<1>2. n < 2 => Cuts(n) = {}
  OBVIOUS
<1>3. n > 0 => Cuts(n + 1) = IF f[n + 1].r # f[n].r THEN Cuts(n) \cup {n + 1} ELSE Cuts(n)
  <2> SUFFICES ASSUME n > 0
               PROVE  Cuts(n + 1) = IF f[n + 1].r # f[n].r THEN Cuts(n) \cup {n + 1} ELSE Cuts(n)
    OBVIOUS
  <2>1. 2 .. n + 1 = (2 .. n) \cup {n + 1} /\ n + 1 - 1 = n
    OBVIOUS
  <2>2. QED
    BY <2>1
<1>4. n + 1 \notin Cuts(n)
  OBVIOUS
<1>5. ShellOfLine(f, n) = Cardinality(Cuts(n)) /\ ShellOfLine(f, n + 1) = Cardinality(Cuts(n + 1))
  BY DEF ShellOfLine
<1> HIDE DEF Cuts
<1>6. QED
  BY <1>1, <1>2, <1>3, <1>4, <1>5, FS_EmptySet, FS_CardinalityType, FS_AddElement

(* A later line is in no earlier shell.                                    *)
LEMMA ShellsGrow ==
  ASSUME NEW f, NEW n \in Nat, NEW m \in Nat, n <= m
  PROVE  ShellOfLine(f, n) <= ShellOfLine(f, m)
<1> DEFINE Cuts(x) == {y \in 2 .. x : f[y].r # f[y - 1].r}
<1>1. IsFiniteSet(Cuts(m)) /\ Cuts(n) \subseteq Cuts(m)
  <2>1. IsFiniteSet(2 .. m) /\ Cuts(m) \subseteq 2 .. m
    BY FS_Interval
  <2>2. QED
    BY <2>1, FS_Subset
<1>2. ShellOfLine(f, n) = Cardinality(Cuts(n)) /\ ShellOfLine(f, m) = Cardinality(Cuts(m))
  BY DEF ShellOfLine
<1> HIDE DEF Cuts
<1>3. QED
  BY <1>1, <1>2, FS_Subset

(* A shell takes as many turns as it has neighbours.                       *)
LEMMA TurnsOfShell ==
  ASSUME NEW s \in Nat, IsFiniteSet(Turns(s)), NS[s] \in Nat
  PROVE  Before(s + 1) = Before(s) + NS[s] /\ Before(s) \in Nat
<1> DEFINE own == {s} \X (1 .. NS[s])
<1>1. Turns(s + 1) = Turns(s) \cup own
  <2>1. 0 .. s + 1 - 1 = (0 .. s - 1) \cup {s}
    OBVIOUS
  <2>2. QED
    BY <2>1 DEF Turns
<1>2. Turns(s) \cap own = {}
  <2>1. \A a \in Turns(s) : a[1] \in 0 .. s - 1
    BY DEF Turns
  <2>2. s \notin 0 .. s - 1
    OBVIOUS
  <2>3. QED
    BY <2>1, <2>2
<1>3. IsFiniteSet(own) /\ Cardinality(own) = NS[s]
  <2>1. IsFiniteSet(1 .. NS[s]) /\ Cardinality(1 .. NS[s]) = NS[s]
    <3>1. 1 \in Int /\ NS[s] \in Int
      OBVIOUS
    <3>2. Cardinality(1 .. NS[s]) = IF 1 > NS[s] THEN 0 ELSE NS[s] - 1 + 1
      BY <3>1, FS_Interval
    <3>3. IsFiniteSet(1 .. NS[s])
      BY <3>1, FS_Interval
    <3>4. Cardinality(1 .. NS[s]) = NS[s]
      BY <3>2
    <3>5. QED
      BY <3>3, <3>4
  <2>2. IsFiniteSet({s}) /\ Cardinality({s}) = 1
    BY FS_Singleton
  <2>3. IsFiniteSet(own) /\ Cardinality(own) = Cardinality({s}) * Cardinality(1 .. NS[s])
    BY <2>1, <2>2, FS_Product
  <2>4. QED
    BY <2>1, <2>2, <2>3
<1> HIDE DEF own
<1>4. Cardinality(Turns(s) \cap own) = 0
  BY <1>2, FS_EmptySet
<1>5. Cardinality(Turns(s) \cup own) = Cardinality(Turns(s)) + Cardinality(own) - Cardinality(Turns(s) \cap own)
  BY <1>3, FS_Union
<1>6. Cardinality(Turns(s)) \in Nat
  BY FS_CardinalityType
<1>7. Before(s) = Cardinality(Turns(s)) /\ Before(s + 1) = Cardinality(Turns(s + 1))
  BY DEF Before
<1>8. Before(s + 1) = Before(s) + Cardinality(own) - 0
  BY <1>1, <1>4, <1>5, <1>7
<1>9. QED
  BY <1>3, <1>6, <1>7, <1>8

(* One more neighbour in shell t is one more turn of the shells after it.  *)
LEMMA OneMoreTurn ==
  ASSUME NS \in [Shell -> Nat], NEW t \in Shell, NS' = [NS EXCEPT ![t] = @ + 1],
         NEW s \in 0 .. SH, IsFiniteSet(Turns(s))
  PROVE  /\ IsFiniteSet(Turns(s)')
         /\ Before(s)' = IF t < s THEN Before(s) + 1 ELSE Before(s)
         /\ Before(s) \in Nat
<1>1. SH \in Nat /\ Shell = 0 .. SH - 1
  BY SetupAssumption DEF Shell
<1>2. \A q \in 0 .. s - 1 : q \in Shell /\ NS[q] \in Nat
  BY <1>1
<1>3. CASE ~(t < s)
  <2>1. \A q \in 0 .. s - 1 : NS'[q] = NS[q]
    <3>1. \A q \in 0 .. s - 1 : q # t
      BY <1>1, <1>3
    <3>2. QED
      BY <1>2, <3>1
  <2>2. Turns(s)' = Turns(s)
    BY <2>1 DEF Turns
  <2>3. QED
    BY <1>3, <2>2, FS_CardinalityType DEF Before
<1>4. CASE t < s
  <2>1. t \in 0 .. s - 1 /\ NS[t] \in Nat
    BY <1>1, <1>4
  <2>2. \A q \in 0 .. s - 1 : NS'[q] = IF q = t THEN NS[t] + 1 ELSE NS[q]
    BY <1>2
  <2>3. Turns(s)' = Turns(s) \cup {<<t, NS[t] + 1>>}
    <3>1. 1 .. NS[t] + 1 = (1 .. NS[t]) \cup {NS[t] + 1}
      BY <2>1
    <3>2. ASSUME NEW a PROVE a \in Turns(s)' <=> a \in Turns(s) \/ a = <<t, NS[t] + 1>>
      <4>1. a \in Turns(s)' <=> \E q \in 0 .. s - 1 : a \in {q} \X (1 .. NS'[q])
        BY DEF Turns
      <4>2. a \in Turns(s) <=> \E q \in 0 .. s - 1 : a \in {q} \X (1 .. NS[q])
        BY DEF Turns
      <4>3. \A q \in 0 .. s - 1 : q # t => NS'[q] = NS[q]
        BY <2>2
      <4>4. {t} \X (1 .. NS'[t]) = ({t} \X (1 .. NS[t])) \cup {<<t, NS[t] + 1>>}
        BY <2>1, <2>2, <3>1
      <4>5. QED
        BY <2>1, <4>1, <4>2, <4>3, <4>4
    <3>3. QED
      BY <3>2
  <2>4. <<t, NS[t] + 1>> \notin Turns(s)
    <3>1. \A a \in Turns(s) : a[1] = t => a[2] \in 1 .. NS[t]
      BY DEF Turns
    <3>2. NS[t] + 1 \notin 1 .. NS[t]
      BY <2>1
    <3>3. QED
      BY <3>1, <3>2
  <2>5. /\ IsFiniteSet(Turns(s) \cup {<<t, NS[t] + 1>>})
        /\ Cardinality(Turns(s) \cup {<<t, NS[t] + 1>>}) = Cardinality(Turns(s)) + 1
        /\ Cardinality(Turns(s)) \in Nat
    BY <2>4, FS_AddElement, FS_CardinalityType
  <2>6. Before(s)' = Cardinality(Turns(s)') /\ Before(s) = Cardinality(Turns(s))
    BY DEF Before
  <2>7. QED
    BY <1>4, <2>3, <2>5, <2>6
<1>5. QED
  BY <1>3, <1>4

(***************************************************************************)
(* The invariant: what the parser holds is what it has read, and the       *)
(* table is made from it once.                                             *)
(***************************************************************************)
Table == [i \in Site |-> neighbor(i)]

Typed == /\ pc \in {"parse", "table", "ready"}
         /\ file \in Files /\ pos \in Nat
         /\ nlist \in Seq(Offset)
         /\ NS \in [Shell -> Nat] /\ Dist \in [Shell -> Int]
         /\ J \in [Pair -> [Shell -> Int]]

(* The parser is in the shell of the line it has read last; it has ended   *)
(* with the line that opens one shell too many.                            *)
Parsing == pc = "parse" =>
  /\ pos <= Len(file) /\ pos <= Nneighbors /\ (pos < Len(file) => Nneighbors = pos)
  /\ shell \in Shell /\ shell = ShellOfLine(file, pos)
  /\ pos > 0 => Dist[shell] = file[pos].r
Parsed == pc # "parse" =>
  /\ pos <= Len(file) /\ pos = Nneighbors + 1
  /\ ShellOfLine(file, pos) = SH

(* As long as every entry of the list is a line of the file, NS cuts the   *)
(* list where the file changes its distance, and each shell has the        *)
(* distance of its lines and the couplings of the last one.                *)
Cut == \A s \in 0 .. SH :
  /\ IsFiniteSet(Turns(s)) /\ Before(s) \in 0 .. Nneighbors
  /\ \A n \in 1 .. Nneighbors : n <= Before(s) <=> ShellOfLine(file, n) < s
Kept == \A n \in 1 .. Nneighbors :
  /\ nlist[n] = file[n].off
  /\ ShellOfLine(file, n) < SH
  /\ Dist[ShellOfLine(file, n)] = file[n].r
Holds(n, s) == \A p \in DOMAIN file[n].Jr :
  J[p][s] = file[n].Jr[p] /\ J[<<p[2], p[1]>>][s] = file[n].Jr[p]
Coupled == \A s \in Shell : Before(s) < Before(s + 1) => Holds(Before(s + 1), s)

IInv == /\ Typed /\ Parsing /\ Parsed
        /\ Nneighbors <= pos => Cut /\ Kept /\ Coupled
        /\ pc = "ready" => inputPos = Table

(* What the assumption says of a file.                                     *)
LEMMA Lines ==
  ASSUME Typed
  PROVE  /\ Len(file) \in Nat \ {0} /\ DOMAIN file = 1 .. Len(file)
         /\ \A n \in 1 .. Len(file) :
              /\ file[n].r \in Int /\ file[n].off \in Offset
              /\ \A p \in DOMAIN file[n].Jr :
                   /\ p \in Pair /\ file[n].Jr[p] \in Int
                   /\ <<p[2], p[1]>> \in DOMAIN file[n].Jr => p[1] = p[2]
<1> DEFINE L == [r : Int, off : Offset, Jr : {file[n].Jr : n \in DOMAIN file}]
<1>1. file \in Files
  BY DEF Typed
<1>2. /\ file \in Seq(L) /\ file # <<>>
      /\ \A n \in DOMAIN file : \A p \in DOMAIN file[n].Jr :
           /\ p \in Pair /\ file[n].Jr[p] \in Int
           /\ <<p[2], p[1]>> \in DOMAIN file[n].Jr => p[1] = p[2]
  BY <1>1, SetupAssumption
<1>3. \A x \in L : x.r \in Int /\ x.off \in Offset
  OBVIOUS
<1> HIDE DEF L
<1>4. Len(file) \in Nat \ {0} /\ DOMAIN file = 1 .. Len(file)
  BY <1>2
<1>5. \A n \in 1 .. Len(file) : file[n] \in L
  BY <1>2
<1>6. QED
  BY <1>2, <1>3, <1>4, <1>5

(* The line the parser has in its hands, also after the end of the file.   *)
LEMMA LineRead ==
  ASSUME Typed
  PROVE  /\ pos < Len(file) => Line = file[pos + 1]
         /\ ~(pos < Len(file)) => Line.r = file[Len(file)].r /\ Line.Jr = file[Len(file)].Jr
         /\ Line.r \in Int /\ Line.off \in Offset
         /\ \A p \in DOMAIN Line.Jr : p \in Pair /\ Line.Jr[p] \in Int
<1> DEFINE L == [r : Int, off : Offset, Jr : {file[n].Jr : n \in DOMAIN file}]
<1>1. file \in Seq(L) /\ file # <<>> /\ pos \in Nat
  BY SetupAssumption DEF Typed
<1> HIDE DEF L
<1>2. Len(file) \in Nat \ {0} /\ \A n \in 1 .. Len(file) : file[n] \in L
  BY <1>1
<1>3. CASE pos < Len(file)
  <2>1. pos + 1 \in 1 .. Len(file) /\ Line = file[pos + 1]
    BY <1>1, <1>2, <1>3 DEF Line
  <2>2. QED
    BY <1>3, <2>1, Lines
<1>4. CASE ~(pos < Len(file))
  <2>1. Line = [file[Len(file)] EXCEPT !.off = [a \in Axis |-> 0]]
    BY <1>4 DEF Line
  <2>2. file[Len(file)] \in L /\ Len(file) \in 1 .. Len(file)
    BY <1>2
  <2>3. Line.r = file[Len(file)].r /\ Line.Jr = file[Len(file)].Jr /\ Line.off = [a \in Axis |-> 0]
    BY <2>1, <2>2 DEF L
  <2>4. [a \in Axis |-> 0] \in Offset
    BY DEF Offset
  <2>5. QED
    BY <1>4, <2>2, <2>3, <2>4, Lines
<1>5. QED
  BY <1>3, <1>4

(* The shells of the line just read and of those before.                   *)
LEMMA ShellFollows ==
  ASSUME IInv, pc = "parse", pos < Len(file)
  PROVE  /\ Nneighbors = pos /\ Line = file[pos + 1]
         /\ (IF NewShell(Line) THEN shell + 1 ELSE shell) = ShellOfLine(file, pos + 1)
<1>1. /\ pos \in Nat /\ Nneighbors = pos /\ Line = file[pos + 1]
      /\ shell = ShellOfLine(file, pos) /\ (pos > 0 => Dist[shell] = file[pos].r)
  BY LineRead DEF IInv, Typed, Parsing
<1>2. CASE pos = 0
  <2>1. ~NewShell(Line)
    BY <1>1, <1>2 DEF NewShell
  <2>2. pos + 1 \in Nat /\ pos + 1 < 2 /\ pos < 2
    BY <1>2
  <2>3. ShellOfLine(file, pos) = 0 /\ ShellOfLine(file, pos + 1) = 0
    BY <1>1, <2>2, NextShell
  <2>4. QED
    BY <1>1, <2>1, <2>3
<1>3. CASE pos > 0
  <2>1. NewShell(Line) <=> file[pos + 1].r # file[pos].r
    BY <1>1, <1>3 DEF NewShell
  <2>2. QED
    BY <1>1, <1>3, <2>1, NextShell
<1>4. QED
  BY <1>1, <1>2, <1>3

(* After the end of the file no shell is opened any more.                  *)
LEMMA NoShellAfterEnd ==
  ASSUME IInv, pc = "parse", ~(pos < Len(file))
  PROVE  ~NewShell(Line) /\ pos = Len(file) /\ pos > 0
<1>1. /\ pos \in Nat /\ pos <= Len(file) /\ Len(file) \in Nat \ {0}
      /\ (pos > 0 => Dist[shell] = file[pos].r) /\ Line.r = file[Len(file)].r
  BY LineRead, Lines DEF IInv, Typed, Parsing
<1>2. pos = Len(file) /\ pos > 0
  BY <1>1
<1>3. QED
  BY <1>1, <1>2 DEF NewShell

(* The types of what a kept line changes.                                  *)
LEMMA KeepTyped ==
  ASSUME Typed, NEW s \in Shell, Keep(Line, s)
  PROVE  /\ nlist' \in Seq(Offset) /\ Nneighbors' = Nneighbors + 1
         /\ nlist' = Append(nlist, Line.off)
         /\ NS' \in [Shell -> Nat] /\ Dist' \in [Shell -> Int]
         /\ J' \in [Pair -> [Shell -> Int]]
<1>1. /\ nlist' = Append(nlist, Line.off) /\ NS' = [NS EXCEPT ![s] = @ + 1]
      /\ Dist' = [Dist EXCEPT ![s] = Line.r] /\ J' = Stored(Line, s)
  BY DEF Keep
<1>2. Line.r \in Int /\ Line.off \in Offset
      /\ \A p \in DOMAIN Line.Jr : p \in Pair /\ Line.Jr[p] \in Int
  BY LineRead
<1>3. nlist' \in Seq(Offset) /\ Nneighbors' = Nneighbors + 1
  BY <1>1, <1>2 DEF Typed, Nneighbors
<1>4. NS' \in [Shell -> Nat] /\ Dist' \in [Shell -> Int]
  BY <1>1, <1>2 DEF Typed
<1>5. J' \in [Pair -> [Shell -> Int]]
  <2>1. ASSUME NEW p \in Pair PROVE Stored(Line, s)[p] \in [Shell -> Int]
    <3>1. J[p] \in [Shell -> Int]
      BY DEF Typed
    <3>2. \A x \in Int : [J[p] EXCEPT ![s] = x] \in [Shell -> Int]
      BY <3>1
    <3>3. QED
      BY <1>2, <3>1, <3>2 DEF Stored
  <2>2. QED
    BY <1>1, <2>1 DEF Stored
<1>6. QED
  BY <1>1, <1>3, <1>4, <1>5

(* The couplings of a line are stored for its shell whichever way round    *)
(* the pair is written, and those of other shells stay.                    *)
LEMMA StoredBothWays ==
  ASSUME Typed, NEW s \in Shell, J' = Stored(Line, s)
  PROVE  /\ pos < Len(file) => \A p \in DOMAIN Line.Jr :
              J'[p][s] = Line.Jr[p] /\ J'[<<p[2], p[1]>>][s] = Line.Jr[p]
         /\ \A p \in Pair, q \in Shell : q # s => J'[p][q] = J[p][q]
<1>1. \A p \in DOMAIN Line.Jr : p \in Pair /\ Line.Jr[p] \in Int
  BY LineRead
<1>2. \A p \in Pair : J[p] \in [Shell -> Int]
  BY DEF Typed
<1>3. ASSUME pos < Len(file), NEW p \in DOMAIN Line.Jr
      PROVE  J'[p][s] = Line.Jr[p] /\ J'[<<p[2], p[1]>>][s] = Line.Jr[p]
  <2>1. /\ p \in Pair /\ <<p[2], p[1]>> \in Pair /\ p = <<p[1], p[2]>>
        /\ J[p] \in [Shell -> Int] /\ J[<<p[2], p[1]>>] \in [Shell -> Int]
    <3>1. p \in Pair /\ <<p[2], p[1]>> \in Pair /\ p = <<p[1], p[2]>>
      BY <1>1, <1>3 DEF Pair
    <3>2. QED
      BY <1>2, <3>1
  <2>2. J'[p] = [J[p] EXCEPT ![s] = Line.Jr[p]]
    BY <1>3, <2>1 DEF Stored
  <2>3. CASE <<p[2], p[1]>> \in DOMAIN Line.Jr
    <3>1. Line = file[pos + 1] /\ pos + 1 \in 1 .. Len(file)
      BY <1>3, LineRead, Lines DEF Typed
    <3>2. p[1] = p[2]
      BY <1>3, <2>3, <3>1, Lines
    <3>3. QED
      BY <2>1, <2>2, <3>2
  <2>4. CASE <<p[2], p[1]>> \notin DOMAIN Line.Jr
    <3>1. J'[<<p[2], p[1]>>] = [J[<<p[2], p[1]>>] EXCEPT ![s] = Line.Jr[p]]
      BY <1>3, <2>1, <2>4 DEF Stored
    <3>2. QED
      BY <2>1, <2>2, <3>1
  <2>5. QED
    BY <2>3, <2>4
<1>4. ASSUME NEW p \in Pair, NEW q \in Shell, q # s PROVE J'[p][q] = J[p][q]
  BY <1>2, <1>4 DEF Stored
<1>5. QED
  BY <1>3, <1>4

(* A line of the file is kept: it is the last of its shell.                *)
LEMMA LineKept ==
  ASSUME IInv, pc = "parse", pos < Len(file), UNCHANGED file,
         NEW s \in Shell, s = ShellOfLine(file, pos + 1), Keep(Line, s)
  PROVE  Cut' /\ Kept' /\ Coupled'
<1> DEFINE k == Nneighbors
<1>1. /\ k = pos /\ k \in Nat /\ k + 1 \in 1 .. Len(file) /\ Line = file[k + 1]
      /\ Typed /\ Cut /\ Kept /\ Coupled /\ shell = ShellOfLine(file, k)
      /\ SH \in Nat /\ Shell = 0 .. SH - 1
  <2>1. Typed /\ pos \in Nat /\ Len(file) \in Nat /\ Nneighbors = pos /\ Line = file[pos + 1]
    BY ShellFollows, Lines DEF IInv, Typed
  <2>2. pos + 1 \in 1 .. Len(file) /\ Nneighbors <= pos
    BY <2>1
  <2>3. Cut /\ Kept /\ Coupled /\ shell = ShellOfLine(file, pos)
    BY <2>2 DEF IInv, Parsing
  <2>4. SH \in Nat /\ Shell = 0 .. SH - 1
    BY SetupAssumption DEF Shell
  <2>5. QED
    BY <2>1, <2>2, <2>3, <2>4
<1>2. /\ NS' = [NS EXCEPT ![s] = @ + 1] /\ NS \in [Shell -> Nat]
      /\ Dist' = [Dist EXCEPT ![s] = Line.r] /\ Dist \in [Shell -> Int]
      /\ J' = Stored(Line, s)
  BY <1>1 DEF Keep, Typed
<1>3. /\ Nneighbors' = k + 1 /\ nlist' = Append(nlist, Line.off) /\ nlist \in Seq(Offset)
      /\ Len(nlist) = k
  BY <1>1, KeepTyped DEF Typed, Nneighbors
<1> HIDE DEF k
<1>4. \A n \in 1 .. k : ShellOfLine(file, n) \in Nat /\ ShellOfLine(file, n) <= s
  <2> SUFFICES ASSUME NEW n \in 1 .. k PROVE ShellOfLine(file, n) \in Nat /\ ShellOfLine(file, n) <= s
    OBVIOUS
  <2>1. n \in Nat /\ pos + 1 \in Nat /\ n <= pos + 1
    BY <1>1
  <2>2. QED
    BY <2>1, NextShell, ShellsGrow
<1>5. \A q \in 0 .. SH : /\ IsFiniteSet(Turns(q)')
                         /\ Before(q)' = IF s < q THEN Before(q) + 1 ELSE Before(q)
                         /\ Before(q) \in 0 .. k
  BY <1>1, <1>2, OneMoreTurn DEF Cut, k
<1>6. \A q \in 0 .. SH : s < q => Before(q) = k
  <2> SUFFICES ASSUME NEW q \in 0 .. SH, s < q PROVE Before(q) = k
    OBVIOUS
  <2>1. CASE k = 0
    BY <1>5, <2>1
  <2>2. CASE k > 0
    <3>1. k \in 1 .. k /\ q \in Int /\ s \in Int
      BY <1>1, <2>2
    <3>2. ShellOfLine(file, k) < q
      BY <1>4, <3>1
    <3>3. k <= Before(q)
      BY <1>1, <3>1, <3>2 DEF Cut, k
    <3>4. QED
      BY <1>1, <1>5, <3>3
  <2>3. QED
    BY <1>1, <2>1, <2>2
<1>7. \A q \in 0 .. SH : Before(q)' = IF s < q THEN k + 1 ELSE Before(q)
  BY <1>5, <1>6
<1>8. Cut'
  <2> SUFFICES ASSUME NEW q \in 0 .. SH
               PROVE  /\ IsFiniteSet(Turns(q)') /\ Before(q)' \in 0 .. k + 1
                      /\ \A n \in 1 .. k + 1 : n <= Before(q)' <=> ShellOfLine(file, n) < q
    BY <1>3 DEF Cut
  <2>1. Before(q)' \in 0 .. k + 1
    BY <1>1, <1>5, <1>7
  <2>2. ASSUME NEW n \in 1 .. k + 1 PROVE n <= Before(q)' <=> ShellOfLine(file, n) < q
    <3>1. s \in Int /\ q \in Int /\ k \in Int /\ Before(q) \in 0 .. k
      BY <1>1, <1>5
    <3>2. CASE n = k + 1
      <4>1. ShellOfLine(file, n) = s
        BY <1>1, <3>2
      <4>2. QED
        BY <1>7, <3>1, <3>2, <4>1
    <3>3. CASE n # k + 1
      <4>1. n \in 1 .. k
        BY <3>1, <3>3
      <4>2. n <= Before(q) <=> ShellOfLine(file, n) < q
        BY <1>1, <4>1 DEF Cut, k
      <4>3. s < q => n <= k + 1 /\ n <= k
        BY <3>1, <4>1
      <4>4. QED
        BY <1>6, <1>7, <4>1, <4>2, <4>3
    <3>4. QED
      BY <3>2, <3>3
  <2>3. QED
    BY <1>5, <2>1, <2>2
<1>9. Kept'
  <2> SUFFICES ASSUME NEW n \in 1 .. k + 1
               PROVE  /\ nlist'[n] = file[n].off
                      /\ ShellOfLine(file, n) < SH
                      /\ Dist'[ShellOfLine(file, n)] = file[n].r
    BY <1>3 DEF Kept
  <2>1. CASE n = k + 1
    BY <1>1, <1>2, <1>3, <2>1
  <2>2. CASE n # k + 1
    <3>1. n \in 1 .. k
      BY <1>1, <2>2
    <3>2. /\ nlist[n] = file[n].off /\ ShellOfLine(file, n) < SH
          /\ Dist[ShellOfLine(file, n)] = file[n].r
      BY <1>1, <3>1 DEF Kept, k
    <3>3. ShellOfLine(file, n) \in Shell
      BY <1>1, <1>4, <3>1, <3>2
    <3>4. nlist'[n] = nlist[n]
      BY <1>3, <3>1
    <3>5. ShellOfLine(file, n) = s => file[n].r = Line.r
      <4> SUFFICES ASSUME ShellOfLine(file, n) = s PROVE file[n].r = Line.r
        OBVIOUS
      <4>1. k > 0 /\ k \in 1 .. k /\ ShellOfLine(file, k) = s
        <5>1. k > 0 /\ k \in 1 .. k /\ n <= k /\ n \in Nat
          BY <1>1, <3>1
        <5>2. ShellOfLine(file, n) <= ShellOfLine(file, k) /\ ShellOfLine(file, k) <= s
              /\ ShellOfLine(file, k) \in Nat
          BY <1>1, <1>4, <5>1, ShellsGrow
        <5>3. s \in Int
          BY <1>1
        <5>4. QED
          BY <5>1, <5>2, <5>3
      <4>2. file[k + 1].r = file[k].r
        BY <1>1, <4>1, NextShell
      <4>3. Dist[s] = file[k].r
        BY <1>1, <4>1 DEF Kept, k
      <4>4. QED
        BY <1>1, <3>2, <4>2, <4>3
    <3>6. QED
      BY <1>2, <3>2, <3>3, <3>4, <3>5
  <2>3. QED
    BY <2>1, <2>2
<1>10. Coupled'
  <2> SUFFICES ASSUME NEW q \in Shell, (Before(q) < Before(q + 1))'
               PROVE  Holds(Before(q + 1), q)'
    BY DEF Coupled
  <2>1. q \in 0 .. SH /\ q + 1 \in 0 .. SH /\ q \in Int /\ s \in Int
    BY <1>1
  <2>2. Before(q)' < Before(q + 1)'
    OBVIOUS
  <2>3. CASE q = s
    <3>1. Before(q + 1)' = k + 1
      BY <1>7, <2>1, <2>3
    <3>2. \A p \in DOMAIN Line.Jr : J'[p][s] = Line.Jr[p] /\ J'[<<p[2], p[1]>>][s] = Line.Jr[p]
      BY <1>1, <1>2, StoredBothWays
    <3>3. QED
      BY <1>1, <2>3, <3>1, <3>2 DEF Holds
  <2>4. CASE s < q
    <3>1. Before(q)' = k + 1 /\ Before(q + 1)' = k + 1
      BY <1>7, <2>1, <2>4
    <3>2. QED
      BY <1>1, <2>2, <3>1
  <2>5. CASE q < s
    <3>1. Before(q)' = Before(q) /\ Before(q + 1)' = Before(q + 1)
      BY <1>7, <2>1, <2>5
    <3>2. Holds(Before(q + 1), q) /\ Before(q + 1) \in 1 .. k
      <4>1. Before(q) \in 0 .. k /\ Before(q + 1) \in 0 .. k /\ Before(q) < Before(q + 1)
        BY <1>5, <2>1, <2>2, <3>1
      <4>2. QED
        BY <1>1, <4>1 DEF Coupled
    <3>3. Before(q + 1) \in 1 .. Len(file)
      BY <1>1, <3>2
    <3>4. \A p \in DOMAIN file[Before(q + 1)].Jr : p \in Pair /\ <<p[2], p[1]>> \in Pair
      <4>1. \A p \in DOMAIN file[Before(q + 1)].Jr : p \in Pair
        BY <1>1, <3>3, Lines
      <4>2. QED
        BY <4>1 DEF Pair
    <3>5. \A p \in Pair : J'[p][q] = J[p][q]
      BY <1>1, <1>2, <2>1, <2>5, StoredBothWays
    <3>6. QED
      BY <3>1, <3>2, <3>4, <3>5 DEF Holds
  <2>6. QED
    BY <2>1, <2>3, <2>4, <2>5
<1>11. QED
  BY <1>8, <1>9, <1>10

(* Reading a line, kept or not.                                            *)
LEMMA ReadLineKeeps ==
  ASSUME IInv, ReadLine
  PROVE  IInv'
<1> DEFINE s == IF NewShell(Line) THEN shell + 1 ELSE shell
           k == Nneighbors
<1>1. /\ pc = "parse" /\ shell' = s /\ file' = file /\ inputPos' = inputPos
      /\ pos' = IF pos < Len(file) THEN pos + 1 ELSE pos
      /\ \/ s = SH /\ pc' = "table" /\ UNCHANGED <<nlist, NS, Dist, J>>
         \/ s # SH /\ Keep(Line, s) /\ pc' = "parse"
  BY DEF ReadLine
<1>2. /\ Typed /\ pos \in Nat /\ Len(file) \in Nat /\ pos <= Len(file) /\ pos <= k /\ k \in Nat
      /\ SH \in Nat /\ Shell = 0 .. SH - 1 /\ shell \in Shell
  <2>1. Typed /\ pos \in Nat /\ Len(file) \in Nat /\ nlist \in Seq(Offset)
    BY Lines DEF IInv, Typed
  <2>2. k \in Nat
    BY <2>1 DEF Nneighbors
  <2>3. QED
    BY <1>1, <2>1, <2>2, SetupAssumption DEF IInv, Parsing, Shell
<1>3. pos < Len(file) => k = pos /\ Line = file[pos + 1] /\ s = ShellOfLine(file, pos + 1)
  BY <1>1, ShellFollows
<1>4. ~(pos < Len(file)) => s = shell /\ pos = Len(file) /\ pos > 0
  BY <1>1, NoShellAfterEnd
<1>5. s \in 0 .. SH
  BY <1>2
<1> HIDE DEF s
<1>6. CASE s = SH
  <2>1. pc' = "table" /\ UNCHANGED <<nlist, NS, Dist, J>> /\ k' = k
    BY <1>1, <1>6 DEF Nneighbors
  <2>2. pos < Len(file)
    BY <1>2, <1>4, <1>6
  <2>3. pos' = pos + 1 /\ k = pos /\ pos + 1 <= Len(file)
    BY <1>1, <1>2, <1>3, <2>2
  <2> HIDE DEF k
  <2>4. Typed'
    BY <1>1, <1>2, <2>1, <2>3 DEF Typed
  <2>5. Parsed' /\ Parsing'
    BY <1>1, <1>3, <1>6, <2>1, <2>2, <2>3 DEF Parsed, Parsing, k
  <2>6. Cut' /\ Kept' /\ Coupled'
    <3>1. Cut /\ Kept /\ Coupled
      BY <1>2, <2>3 DEF IInv, k
    <3>2. \A q : Turns(q)' = Turns(q)
      BY <2>1 DEF Turns
    <3>3. \A q : Before(q)' = Before(q)
      BY <3>2 DEF Before
    <3>4. Nneighbors' = Nneighbors
      BY <2>1 DEF k
    <3>5. \A n, q : Holds(n, q)' = Holds(n, q)
      BY <1>1, <2>1 DEF Holds
    <3>6. Cut'
      BY <1>1, <3>1, <3>2, <3>3, <3>4 DEF Cut
    <3>7. Kept'
      BY <1>1, <2>1, <3>1, <3>4 DEF Kept
    <3>8. Coupled'
      BY <3>1, <3>3, <3>5 DEF Coupled
    <3>9. QED
      BY <3>6, <3>7, <3>8
  <2>7. QED
    BY <2>1, <2>4, <2>5, <2>6 DEF IInv
<1>7. CASE s # SH
  <2>1. s \in Shell /\ Keep(Line, s) /\ pc' = "parse"
    BY <1>1, <1>2, <1>5, <1>7
  <2>2. /\ nlist' \in Seq(Offset) /\ k' = k + 1
        /\ NS' \in [Shell -> Nat] /\ Dist' \in [Shell -> Int]
        /\ J' \in [Pair -> [Shell -> Int]]
    BY <1>2, <2>1, KeepTyped
  <2>3. Typed'
    BY <1>1, <1>2, <2>1, <2>2 DEF Typed
  <2>4. Dist'[s] = Line.r
    BY <1>2, <2>1 DEF Keep, Typed
  <2>5. CASE pos < Len(file)
    <3>1. pos' = pos + 1 /\ k = pos /\ pos + 1 <= Len(file)
      BY <1>1, <1>2, <1>3, <2>5
    <3>2. Parsing' /\ Parsed'
      <4>1. k' = pos' /\ pos' <= Len(file)
        BY <2>2, <3>1
      <4>2. shell' = ShellOfLine(file, pos') /\ Dist'[shell'] = file[pos'].r
        BY <1>1, <1>3, <2>4, <2>5, <3>1
      <4>3. pos' \in Nat
        BY <1>2, <3>1
      <4>4. QED
        BY <1>1, <2>1, <4>1, <4>2, <4>3 DEF Parsing, Parsed
    <3>3. Cut' /\ Kept' /\ Coupled'
      BY <1>1, <1>3, <2>1, <2>5, LineKept
    <3>4. QED
      BY <2>1, <2>3, <3>2, <3>3 DEF IInv
  <2>6. CASE ~(pos < Len(file))
    <3>1. pos' = pos /\ s = shell /\ pos = Len(file) /\ pos > 0
      BY <1>1, <1>4, <2>6
    <3>2. Line.r = file[pos].r
      BY <1>2, <2>6, <3>1, LineRead
    <3>3. shell = ShellOfLine(file, pos)
      BY <1>1 DEF IInv, Parsing
    <3>4. k' \in Nat /\ pos' < k' /\ pos' <= k'
      BY <1>2, <2>2, <3>1
    <3>5. Parsing' /\ Parsed'
      BY <1>1, <1>2, <2>1, <2>4, <3>1, <3>2, <3>3, <3>4 DEF Parsing, Parsed
    <3>6. ~(Nneighbors' <= pos')
      BY <1>2, <3>1, <3>4
    <3>7. QED
      BY <2>1, <2>3, <3>5, <3>6 DEF IInv
  <2>7. QED
    BY <2>5, <2>6
<1>8. QED
  BY <1>6, <1>7

(* Whatever else happens leaves the lists alone.                           *)
LEMMA RestKeeps ==
  ASSUME IInv, UNCHANGED <<file, pos, shell, nlist, NS, Dist, J>>,
         pc' = pc \/ (pc = "table" /\ pc' = "ready"),
         pc' = "ready" => inputPos' = Table
  PROVE  IInv'
<1>1. Nneighbors' = Nneighbors /\ Table' = Table
  BY DEF Nneighbors, Table, neighbor
<1>2. Typed' /\ Parsing' /\ Parsed'
  BY <1>1 DEF IInv, Typed, Parsing, Parsed
<1>3. \A q : Turns(q)' = Turns(q)
  BY DEF Turns
<1>4. \A q : Before(q)' = Before(q)
  BY <1>3 DEF Before
<1>5. Cut => Cut'
  BY <1>1, <1>3, <1>4 DEF Cut
<1>6. Kept => Kept'
  BY <1>1 DEF Kept
<1>7. \A n, q : Holds(n, q)' = Holds(n, q)
  BY DEF Holds
<1>8. Coupled => Coupled'
  BY <1>4, <1>7 DEF Coupled
<1>9. QED
  BY <1>1, <1>2, <1>5, <1>6, <1>8 DEF IInv

(* The parser keeps to the file, and the table is made from the list once. *)
LEMMA Inductive == Spec => []IInv
<1>1. Init => IInv
  <2> SUFFICES ASSUME Init PROVE IInv
    OBVIOUS
  <2>1. /\ pc = "parse" /\ file \in Files /\ pos = 0 /\ shell = 0 /\ nlist = <<>>
        /\ NS = [s \in Shell |-> 0] /\ Dist = [s \in Shell |-> 0]
        /\ J = [p \in Pair |-> [s \in Shell |-> 0]]
    BY DEF Init
  <2>2. Nneighbors = 0 /\ Typed
    BY <2>1 DEF Nneighbors, Typed
  <2>3. Len(file) \in Nat \ {0} /\ SH \in Nat \ {0} /\ 0 \in Shell
    BY <2>2, Lines, SetupAssumption DEF Shell
  <2>4. \A s \in 0 .. SH : Turns(s) = {}
    <3> SUFFICES ASSUME NEW s \in 0 .. SH, NEW q \in 0 .. s - 1 PROVE 1 .. NS[q] = {}
      BY DEF Turns
    <3>1. q \in Shell
      BY <2>3 DEF Shell
    <3>2. QED
      BY <2>1, <3>1
  <2>5. \A s \in 0 .. SH : IsFiniteSet(Turns(s)) /\ Before(s) = 0
    BY <2>4, FS_EmptySet DEF Before
  <2>6. Parsing /\ Parsed
    <3>1. ShellOfLine(file, 0) = 0
      BY NextShell
    <3>2. QED
      BY <2>1, <2>2, <2>3, <3>1 DEF Parsing, Parsed
  <2>7. Cut /\ Kept
    BY <2>2, <2>5 DEF Cut, Kept
  <2>8. Coupled
    <3>1. \A s \in Shell : s \in 0 .. SH /\ s + 1 \in 0 .. SH
      BY <2>3 DEF Shell
    <3>2. QED
      BY <2>5, <3>1 DEF Coupled
  <2>9. QED
    BY <2>1, <2>2, <2>6, <2>7, <2>8 DEF IInv
<1>2. IInv /\ [Next]_vars => IInv'
  <2> SUFFICES ASSUME IInv, [Next]_vars PROVE IInv'
    OBVIOUS
  <2>1. CASE ReadLine
    BY <2>1, ReadLineKeeps
  <2>2. CASE ini_apos
    BY <2>2, RestKeeps DEF ini_apos, Table
  <2>3. CASE UNCHANGED vars
    BY <2>3, RestKeeps DEF vars, IInv
  <2>4. QED
    BY <2>1, <2>2, <2>3 DEF Next, Done, BoundReached
<1>3. QED
  BY <1>1, <1>2, PTL DEF Spec

(* For every file, number of shells and of elements: cutting the list by   *)
(* NS gives back the shells of the file, no line of them is missing, and   *)
(* the couplings of each are those of its last line, in both directions.   *)
THEOREM TablesFaithful == Spec => []TablesOfFile
<1>1. ASSUME IInv, pc # "parse" PROVE ShellsOfFile /\ CouplingsOfFile
  <2>1. /\ Typed /\ Cut /\ Kept /\ Coupled /\ pos = Nneighbors + 1 /\ pos <= Len(file)
        /\ ShellOfLine(file, pos) = SH /\ pos \in Nat
        /\ Len(file) \in Nat /\ DOMAIN file = 1 .. Len(file)
    <3>1. Typed /\ pos = Nneighbors + 1 /\ pos <= Len(file) /\ ShellOfLine(file, pos) = SH
      BY <1>1 DEF IInv, Parsed
    <3>2. pos \in Nat /\ nlist \in Seq(Offset)
      BY <3>1 DEF Typed
    <3>3. Nneighbors <= pos
      BY <3>1, <3>2 DEF Nneighbors
    <3>4. QED
      BY <1>1, <3>1, <3>2, <3>3, Lines DEF IInv
  <2>2. /\ Nneighbors \in Nat /\ DOMAIN nlist = 1 .. Nneighbors
        /\ SH \in Nat /\ Shell = 0 .. SH - 1
    BY <2>1, SetupAssumption DEF Typed, Nneighbors, Shell
  <2>3. \A n \in 1 .. Nneighbors : ShellOfLine(file, n) \in Nat
    BY NextShell
  <2>4. \A s \in Shell : /\ NS[s] \in Nat /\ Before(s) \in Nat
                         /\ Before(s + 1) = Before(s) + NS[s]
                         /\ s \in 0 .. SH /\ s + 1 \in 0 .. SH
    <3> SUFFICES ASSUME NEW s \in Shell
                 PROVE  /\ NS[s] \in Nat /\ Before(s) \in Nat
                        /\ Before(s + 1) = Before(s) + NS[s]
                        /\ s \in 0 .. SH /\ s + 1 \in 0 .. SH
      OBVIOUS
    <3>1. s \in Nat /\ s \in 0 .. SH /\ s + 1 \in 0 .. SH
      BY <2>2
    <3>2. NS[s] \in Nat /\ IsFiniteSet(Turns(s))
      BY <2>1, <3>1 DEF Typed, Cut
    <3>3. QED
      BY <3>1, <3>2, TurnsOfShell
  <2>5. Before(SH) = Nneighbors
    <3>1. SH \in 0 .. SH /\ Before(SH) \in 0 .. Nneighbors
      BY <2>1, <2>2 DEF Cut
    <3>2. CASE Nneighbors = 0
      BY <3>1, <3>2
    <3>3. CASE Nneighbors > 0
      <4>1. Nneighbors \in 1 .. Nneighbors
        BY <2>2, <3>3
      <4>2. Nneighbors <= Before(SH)
        BY <2>1, <3>1, <4>1 DEF Cut, Kept
      <4>3. QED
        BY <2>2, <3>1, <4>2
    <3>4. QED
      BY <2>2, <3>2, <3>3
  <2>6. ASSUME NEW n \in DOMAIN file, ShellOfLine(file, n) < SH PROVE n \in DOMAIN nlist
    <3>1. n \in Nat /\ n \in 1 .. Len(file)
      BY <2>1
    <3>2. SUFFICES ASSUME pos <= n PROVE FALSE
      BY <2>1, <2>2, <3>1
    <3>3. ShellOfLine(file, pos) <= ShellOfLine(file, n) /\ ShellOfLine(file, n) \in Nat
      BY <2>1, <3>1, <3>2, ShellsGrow, NextShell
    <3>4. QED
      BY <2>1, <2>2, <2>6, <3>3
  <2>7. ASSUME NEW n \in DOMAIN nlist, NEW s \in Shell, InShell(n, s)
        PROVE  /\ n \in DOMAIN file /\ nlist[n] = file[n].off
               /\ ShellOfLine(file, n) = s /\ Dist[s] = file[n].r
    <3>1. n \in 1 .. Nneighbors /\ n \in 1 .. Len(file)
      BY <2>1, <2>2
    <3>2. ~(n <= Before(s)) /\ n <= Before(s + 1)
      BY <2>4, <2>7, <3>1 DEF InShell
    <3>3. ~(ShellOfLine(file, n) < s) /\ ShellOfLine(file, n) < s + 1
      BY <2>1, <2>4, <3>1, <3>2 DEF Cut
    <3>4. ShellOfLine(file, n) = s
      BY <2>2, <2>3, <3>1, <3>3
    <3>5. QED
      BY <2>1, <3>1, <3>4 DEF Kept
  <2>8. ShellsOfFile
    BY <2>5, <2>6, <2>7 DEF ShellsOfFile
  <2>9. CouplingsOfFile
    <3> SUFFICES ASSUME NEW s \in Shell, NS[s] > 0 PROVE Holds(Before(s) + NS[s], s)
      BY DEF CouplingsOfFile, Holds
    <3>1. Before(s) < Before(s + 1)
      BY <2>4
    <3>2. QED
      BY <2>1, <2>4, <3>1 DEF Coupled
  <2>10. QED
    BY <2>8, <2>9
<1>2. IInv => TablesOfFile
  BY <1>1 DEF TablesOfFile, ShellsOfFile, CouplingsOfFile
<1>3. QED
  BY <1>2, Inductive, PTL

(* For every lattice, number of axes and coupling file: across the         *)
(* periodic boundary too, neighbours are other sites, and each one has the *)
(* site back at the opposite offset.  Alloy takes this for granted.        *)
THEOREM MutualNeighbours == Spec => []NeighboursMutual
<1>1. IInv => NeighboursMutual
  <2> SUFFICES ASSUME IInv, pc = "ready",
                      NEW i \in Site, NEW n \in DOMAIN nlist, Reaches(nlist[n])
               PROVE  /\ inputPos[i][n] \in Site
                      /\ inputPos[i][n] # i
                      /\ \A m \in DOMAIN nlist :
                           nlist[m] = Opposite(nlist[n])
                             => inputPos[inputPos[i][n]][m] = i
    BY DEF NeighboursMutual
  <2>1. DOMAIN nlist = 1 .. Nneighbors /\ nlist[n] \in Offset /\ N \in Nat \ {0}
    BY SetupAssumption DEF IInv, Typed, Nneighbors
  <2>2. \A j \in Site : \A m \in DOMAIN nlist : inputPos[j][m] = noffset(j, nlist[m])
    <3>1. inputPos = Table
      BY DEF IInv
    <3>2. ASSUME NEW j \in Site, NEW m \in 1 .. Nneighbors
          PROVE  Table[j][m] = noffset(j, nlist[m])
      BY DEF Table, neighbor
    <3>3. QED
      BY <2>1, <3>1, <3>2
  <2>3. /\ inputPos[i][n] = noffset(i, nlist[n])
        /\ noffset(i, nlist[n]) \in Site
        /\ noffset(i, nlist[n]) # i
        /\ noffset(noffset(i, nlist[n]), Opposite(nlist[n])) = i
    BY <2>1, <2>2, NeighbourOfNeighbour
  <2>4. QED
    BY <2>2, <2>3
<1>2. QED
  BY <1>1, Inductive, PTL

(* A file with each offset once, and its opposite, both of them reaching   *)
(* another site.                                                           *)
Paired == /\ \A n \in DOMAIN nlist : /\ Reaches(nlist[n])
                                     /\ \E m \in DOMAIN nlist : nlist[m] = Opposite(nlist[n])
          /\ \A n, m \in DOMAIN nlist : nlist[n] = nlist[m] => n = m

(* What Alloy assumes of the table, but for the shells.                    *)
TableForAlloy ==
  \E opposite \in [DOMAIN nlist -> DOMAIN nlist] : \A n \in DOMAIN nlist :
    /\ opposite[opposite[n]] = n
    /\ \A i \in Site : /\ inputPos[i][n] \in Site /\ inputPos[i][n] # i
                       /\ inputPos[inputPos[i][n]][opposite[n]] = i

(* The table of every such file, on every lattice, is as Alloy assumes:    *)
(* each bond is there once in either direction, also where a small lattice *)
(* makes the same two sites neighbours several times.                      *)
THEOREM TableSuitsAlloy == Spec => [](pc = "ready" /\ Paired => TableForAlloy)
<1>1. ASSUME IInv, NeighboursMutual, pc = "ready", Paired PROVE TableForAlloy
  <2> DEFINE D == DOMAIN nlist
             opposite == [n \in D |-> CHOOSE m \in D : nlist[m] = Opposite(nlist[n])]
  <2>1. \A n \in D : opposite[n] \in D /\ nlist[opposite[n]] = Opposite(nlist[n])
    BY <1>1 DEF Paired
  <2>2. \A n \in D : nlist[n] \in Offset
    BY <1>1 DEF IInv, Typed
  <2>3. \A o \in Offset : Opposite(Opposite(o)) = o
    <3>1. \A o \in Offset : Opposite(Opposite(o)) = [a \in Axis |-> -(-o[a])]
      BY DEF Opposite
    <3>2. ASSUME NEW o \in Offset PROVE [a \in Axis |-> -(-o[a])] = o
      <4>1. \A a \in Axis : -(-o[a]) = o[a]
        BY DEF Offset
      <4>2. QED
        BY <4>1 DEF Offset
    <3>3. QED
      BY <3>1, <3>2
  <2> HIDE DEF opposite
  <2>4. \A n \in D : opposite[opposite[n]] = n
    <3> SUFFICES ASSUME NEW n \in D PROVE opposite[opposite[n]] = n
      OBVIOUS
    <3>1. opposite[n] \in D /\ opposite[opposite[n]] \in D
      BY <2>1
    <3>2. nlist[opposite[opposite[n]]] = Opposite(Opposite(nlist[n]))
      BY <2>1, <3>1
    <3>3. nlist[opposite[opposite[n]]] = nlist[n]
      BY <2>2, <2>3, <3>2
    <3>4. QED
      BY <1>1, <3>1, <3>3 DEF Paired
  <2>5. \A n \in D, i \in Site : /\ inputPos[i][n] \in Site /\ inputPos[i][n] # i
                                 /\ inputPos[inputPos[i][n]][opposite[n]] = i
    <3> SUFFICES ASSUME NEW n \in D, NEW i \in Site
                 PROVE  /\ inputPos[i][n] \in Site /\ inputPos[i][n] # i
                        /\ inputPos[inputPos[i][n]][opposite[n]] = i
      OBVIOUS
    <3>1. Reaches(nlist[n])
      BY <1>1 DEF Paired
    <3>2. \A j \in Site : \A k \in D : Reaches(nlist[k]) =>
            /\ inputPos[j][k] \in Site /\ inputPos[j][k] # j
            /\ \A m \in D : nlist[m] = Opposite(nlist[k]) => inputPos[inputPos[j][k]][m] = j
      BY <1>1 DEF NeighboursMutual
    <3>3. QED
      BY <2>1, <3>1, <3>2
  <2>6. opposite \in [D -> D]
    <3>1. opposite = [n \in D |-> opposite[n]]
      BY DEF opposite
    <3>2. QED
      BY <2>1, <3>1
  <2>7. QED
    BY <2>4, <2>5, <2>6 DEF TableForAlloy
<1>2. QED
  BY <1>1, Inductive, MutualNeighbours, PTL
=============================================================================
