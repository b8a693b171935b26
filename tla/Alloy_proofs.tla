---------------------------- MODULE Alloy_proofs ----------------------------
(***************************************************************************)
(* No sequence of moves, repairs and rejections lets the bookkeeping of a  *)
(* walker drift from its configuration, for any lattice, table of          *)
(* neighbours, number of elements and couplings.                           *)
(***************************************************************************)
EXTENDS Alloy, TLAPS, FiniteSetTheorems

(* Two finite sets without a common element.                               *)
LEMMA Disjoint ==
  ASSUME NEW S, NEW T, IsFiniteSet(S), IsFiniteSet(T), S \cap T = {}
  PROVE  /\ IsFiniteSet(S \cup T)
         /\ Cardinality(S \cup T) = Cardinality(S) + Cardinality(T)
<1>1. Cardinality(S) \in Nat /\ Cardinality(T) \in Nat
  BY FS_CardinalityType
<1>2. Cardinality(S \cap T) = 0
  BY FS_EmptySet
<1>3. /\ IsFiniteSet(S \cup T)
      /\ Cardinality(S \cup T) = Cardinality(S) + Cardinality(T) - Cardinality(S \cap T)
  BY FS_Union
<1>4. QED
  BY <1>1, <1>2, <1>3

(* The sites, the bonds of a site and those of the lattice are finite.     *)
LEMMA Finite ==
  /\ IsFiniteSet(Site) /\ IsFiniteSet(Neighbour) /\ IsFiniteSet(Site \X Neighbour)
<1>1. NSites - 1 \in Int /\ Nneighbors \in Int
  BY CompositionAssumption
<1>2. IsFiniteSet(0 .. NSites - 1) /\ IsFiniteSet(1 .. Nneighbors)
  BY <1>1, FS_Interval
<1>3. IsFiniteSet(Site) /\ IsFiniteSet(Neighbour)
  BY <1>2 DEF Site, Neighbour
<1>4. QED
  BY <1>3, FS_Product

(***************************************************************************)
(* Composition.                                                            *)
(***************************************************************************)
Holds(A, t) == {i \in Site : A[i] = t}

(* The sites of an element can be counted.                                 *)
LEMMA AtomsCounted ==
  ASSUME NEW A, NEW t
  PROVE  IsFiniteSet(Holds(A, t)) /\ Atoms(A, t) = Cardinality(Holds(A, t)) /\ Atoms(A, t) \in Nat
<1>1. Holds(A, t) \in SUBSET Site
  BY DEF Holds
<1>2. IsFiniteSet(Holds(A, t))
  BY <1>1, Finite, FS_Subset
<1>3. Atoms(A, t) = Cardinality(Holds(A, t))
  BY DEF Atoms, Holds
<1>4. QED
  BY <1>2, <1>3, FS_CardinalityType

(* An atom of a has become one of b.                                       *)
OneBecame(A, B, a, b) ==
  \A t : Atoms(B, t) = CASE t = a -> Atoms(A, t) - 1
                         [] t = b -> Atoms(A, t) + 1
                         [] OTHER -> Atoms(A, t)

(* Another element on one site takes an atom from the one that was there.  *)
LEMMA Replacing ==
  ASSUME NEW A \in [Site -> Element], NEW i \in Site, NEW b \in Element, A[i] # b
  PROVE  /\ [A EXCEPT ![i] = b] \in [Site -> Element]
         /\ OneBecame(A, [A EXCEPT ![i] = b], A[i], b)
<1> DEFINE B == [A EXCEPT ![i] = b]
<1>1. B \in [Site -> Element] /\ B[i] = b /\ \A x \in Site : x # i => B[x] = A[x]
  OBVIOUS
<1> HIDE DEF B
<1>2. Atoms(B, A[i]) = Atoms(A, A[i]) - 1
  <2>1. Holds(B, A[i]) = Holds(A, A[i]) \ {i} /\ i \in Holds(A, A[i])
    BY <1>1 DEF Holds
  <2>2. IsFiniteSet(Holds(A, A[i]))
    BY AtomsCounted
  <2>3. Cardinality(Holds(A, A[i]) \ {i}) = Cardinality(Holds(A, A[i])) - 1
    BY <2>1, <2>2, FS_RemoveElement
  <2>4. QED
    BY <2>1, <2>3, AtomsCounted
<1>3. Atoms(B, b) = Atoms(A, b) + 1
  <2>1. Holds(B, b) = Holds(A, b) \cup {i} /\ i \notin Holds(A, b)
    BY <1>1 DEF Holds
  <2>2. IsFiniteSet(Holds(A, b))
    BY AtomsCounted
  <2>3. Cardinality(Holds(A, b) \cup {i}) = Cardinality(Holds(A, b)) + 1
    BY <2>1, <2>2, FS_AddElement
  <2>4. QED
    BY <2>1, <2>3, AtomsCounted
<1>4. \A t : t # A[i] /\ t # b => Atoms(B, t) = Atoms(A, t)
  <2>1. ASSUME NEW t, t # A[i], t # b PROVE Holds(B, t) = Holds(A, t)
    BY <1>1, <2>1 DEF Holds
  <2>2. QED
    BY <2>1 DEF Atoms, Holds
<1>5. QED
  BY <1>1, <1>2, <1>3, <1>4 DEF B, OneBecame

(* A swap takes none from any.                                             *)
LEMMA SwapConserves ==
  ASSUME NEW A \in [Site -> Element], NEW i \in Site, NEW j \in Site, A[i] # A[j]
  PROVE  /\ Swapped(A, i, j) \in [Site -> Element]
         /\ Swapped(A, i, j)[i] = A[j] /\ Swapped(A, i, j)[j] = A[i]
         /\ \A x \in Site \ {i, j} : Swapped(A, i, j)[x] = A[x]
         /\ \A t : Atoms(Swapped(A, i, j), t) = Atoms(A, t)
<1> DEFINE B == [A EXCEPT ![i] = A[j]]
           C == [B EXCEPT ![j] = A[i]]
<1>1. A[i] \in Element /\ A[j] \in Element /\ i # j
  OBVIOUS
<1>2. C = Swapped(A, i, j) /\ B[j] = A[j]
  BY <1>1 DEF Swapped
<1>3. B \in [Site -> Element] /\ OneBecame(A, B, A[i], A[j])
  BY <1>1, Replacing
<1> HIDE DEF B
<1>4. C \in [Site -> Element] /\ OneBecame(B, C, A[j], A[i])
  BY <1>1, <1>2, <1>3, Replacing
<1>5. C[i] = A[j] /\ C[j] = A[i] /\ \A x \in Site \ {i, j} : C[x] = A[x]
  BY <1>1 DEF B
<1> HIDE DEF C
<1>6. \A t : Atoms(A, t) \in Nat
  BY AtomsCounted
<1>7. \A t : Atoms(C, t) = Atoms(A, t)
  BY <1>1, <1>3, <1>4, <1>6 DEF OneBecame
<1>8. QED
  BY <1>2, <1>4, <1>5, <1>7

(* Induction over the natural numbers, from the least one that is missing. *)
LEMMA FromZeroOn ==
  ASSUME NEW S \in SUBSET Nat, 0 \in S, \A n \in S : n + 1 \in S
  PROVE  \A n \in Nat : n \in S
<1> DEFINE Missing == Nat \ S
<1>1. SUFFICES ASSUME Missing # {} PROVE FALSE
  OBVIOUS
<1>2. PICK k \in Missing : \A j \in Missing : <<j, k>> \notin OpToRel(<, Nat)
  BY <1>1, WFMin, NatLessThanWellFounded, Zenon
<1>3. \A j \in Missing : ~(j < k)
  BY <1>2, Zenon DEF OpToRel
<1>4. k \in Nat /\ k # 0
  OBVIOUS
<1>5. k - 1 \in Nat /\ k - 1 < k /\ (k - 1) + 1 = k
  BY <1>4
<1>6. k - 1 \in S
  BY <1>3, <1>5
<1>7. k \in S
  BY <1>5, <1>6
<1>8. QED
  BY <1>7

(* The sites with one of the first k elements.                             *)
Below(A, k) == {i \in Site : A[i] < k}

(* One element more.                                                       *)
LEMMA OneMore ==
  ASSUME NEW A \in [Site -> Element], NEW k \in Nat
  PROVE  /\ Cardinality(Below(A, k)) \in Nat
         /\ Cardinality(Below(A, k + 1)) = Cardinality(Below(A, k)) + Atoms(A, k)
<1>1. Below(A, k) \in SUBSET Site
  BY DEF Below
<1>2. IsFiniteSet(Below(A, k)) /\ IsFiniteSet(Holds(A, k))
  BY <1>1, Finite, FS_Subset, AtomsCounted
<1>3. \A i \in Site : A[i] \in Int
  BY CompositionAssumption DEF Element
<1>4. Below(A, k + 1) = Below(A, k) \cup Holds(A, k)
  BY <1>3 DEF Below, Holds
<1>5. Below(A, k) \cap Holds(A, k) = {}
  BY <1>3 DEF Below, Holds
<1>6. Cardinality(Below(A, k) \cup Holds(A, k)) = Cardinality(Below(A, k)) + Cardinality(Holds(A, k))
  BY <1>2, <1>5, Disjoint
<1>7. QED
  BY <1>2, <1>4, <1>6, AtomsCounted, FS_CardinalityType

(* A lattice that holds no more than another of any element holds as much  *)
(* of each, because every site holds one atom.                             *)
LEMMA Balance ==
  ASSUME NEW A \in [Site -> Element], NEW B \in [Site -> Element],
         \A t \in Element : Atoms(A, t) <= Atoms(B, t)
  PROVE  \A t \in Element : Atoms(A, t) = Atoms(B, t)
<1> DEFINE a(k) == Cardinality(Below(A, k))
           b(k) == Cardinality(Below(B, k))
           S == {k \in Nat : k <= NE => /\ a(k) <= b(k)
                                        /\ a(k) = b(k) => \A t \in 0 .. k - 1 : Atoms(A, t) = Atoms(B, t)}
<1>1. 0 \in S
  <2>1. \A i \in Site : ~(A[i] < 0) /\ ~(B[i] < 0)
    BY CompositionAssumption DEF Element
  <2>2. Below(A, 0) = {} /\ Below(B, 0) = {}
    BY <2>1 DEF Below
  <2>3. a(0) = 0 /\ b(0) = 0
    BY <2>2, FS_EmptySet
  <2> HIDE DEF a, b
  <2>4. QED
    BY <2>3
<1>2. ASSUME NEW k \in S PROVE k + 1 \in S
  <2>1. /\ a(k) \in Nat /\ b(k) \in Nat
        /\ a(k + 1) = a(k) + Atoms(A, k) /\ b(k + 1) = b(k) + Atoms(B, k)
    BY OneMore
  <2>2. Atoms(A, k) \in Nat /\ Atoms(B, k) \in Nat
    BY AtomsCounted
  <2>3. SUFFICES ASSUME k + 1 <= NE
                 PROVE  /\ a(k + 1) <= b(k + 1)
                        /\ a(k + 1) = b(k + 1) => \A t \in 0 .. (k + 1) - 1 : Atoms(A, t) = Atoms(B, t)
    OBVIOUS
  <2>4. k \in Nat /\ k <= NE /\ k \in Element
    BY <2>3, CompositionAssumption DEF Element
  <2>5. Atoms(A, k) <= Atoms(B, k)
    BY <2>4
  <2>6. a(k) <= b(k) /\ (a(k) = b(k) => \A t \in 0 .. k - 1 : Atoms(A, t) = Atoms(B, t))
    BY <2>4
  <2> HIDE DEF a, b
  <2>7. a(k + 1) <= b(k + 1) /\ (a(k + 1) = b(k + 1) => a(k) = b(k) /\ Atoms(A, k) = Atoms(B, k))
    BY <2>1, <2>2, <2>5, <2>6
  <2>8. \A t \in 0 .. (k + 1) - 1 : t \in 0 .. k - 1 \/ t = k
    BY <2>4
  <2>9. QED
    BY <2>6, <2>7, <2>8
<1>3. NE \in S
  <2>1. S \in SUBSET Nat /\ NE \in Nat
    BY CompositionAssumption
  <2> HIDE DEF S
  <2>2. QED
    BY <1>1, <1>2, <2>1, FromZeroOn
<1>4. Below(A, NE) = Site /\ Below(B, NE) = Site
  BY CompositionAssumption DEF Below, Element
<1>5. NE <= NE /\ a(NE) = b(NE)
  BY <1>4, CompositionAssumption
<1> HIDE DEF a, b
<1>6. QED
  BY <1>3, <1>5 DEF Element

(***************************************************************************)
(* Bonds.                                                                  *)
(***************************************************************************)
Bond == Site \X Neighbour
End(x) == inputPos[x[1]][x[2]]
KeyOf(A, x) == Key(A[x[1]], A[End(x)], Shell[x[2]])
Bonds(A, k) == {x \in Bond : KeyOf(A, x) = k}

(* The bonds from i to sites other than j, those to i from such sites, and *)
(* all others: between other sites, or between i and j.                    *)
From(i, j) == {x \in Bond : x[1] = i /\ End(x) # j}
To(i, j) == {x \in Bond : End(x) = i /\ x[1] # j}
Touching(i, j) == (From(i, j) \cup To(i, j)) \cup (From(j, i) \cup To(j, i))

(* A bond leads from a site to another one.                                *)
LEMMA BondEnds ==
  ASSUME NEW x \in Bond
  PROVE  x[1] \in Site /\ x[2] \in Neighbour /\ End(x) \in Site /\ End(x) # x[1]
BY NeighbourAssumption DEF Bond, End

(* A pair is counted under the same key whichever site looks.              *)
LEMMA KeySymmetric ==
  ASSUME NEW a \in Element, NEW b \in Element, NEW s
  PROVE  Key(a, b, s) = Key(b, a, s)
<1>1. a \in Int /\ b \in Int
  BY CompositionAssumption DEF Element
<1>2. QED
  BY <1>1 DEF Key

(* A site looks along its bonds: each of them is one neighbour.            *)
LEMMA CountFrom ==
  ASSUME NEW A \in [Site -> Element], NEW i \in Site, NEW j \in Site, NEW k
  PROVE  /\ IsFiniteSet(Bonds(A, k) \cap From(i, j))
         /\ Cardinality(Bonds(A, k) \cap From(i, j)) = SiteBonds(A, A[i], i, j, k)
<1> DEFINE S == {n \in Neighbour :
                   inputPos[i][n] # j /\ Key(A[i], A[inputPos[i][n]], Shell[n]) = k}
           T == Bonds(A, k) \cap From(i, j)
           f == [n \in S |-> <<i, n>>]
<1>1. S \in SUBSET Neighbour
  OBVIOUS
<1>2. IsFiniteSet(S)
  BY <1>1, Finite, FS_Subset
<1>3. \A n \in S : <<i, n>> \in T
  BY DEF Bonds, Bond, From, End, KeyOf
<1>4. \A x \in T : x[2] \in S /\ x = <<i, x[2]>>
  BY DEF Bonds, Bond, From, End, KeyOf
<1> HIDE DEF S, T
<1>5. f \in Bijection(S, T)
  BY <1>3, <1>4 DEF Bijection, Injection, Surjection, IsInjective
<1>6. IsFiniteSet(T) /\ Cardinality(T) = Cardinality(S)
  BY <1>2, <1>5, FS_Bijection DEF ExistsBijection
<1>7. QED
  BY <1>6 DEF SiteBonds, S, T

(* As many bonds lead back to it, because neighbours are mutual: they are  *)
(* the same bonds, seen from the other site.                               *)
LEMMA CountTo ==
  ASSUME NEW A \in [Site -> Element], NEW i \in Site, NEW j \in Site, NEW k
  PROVE  /\ IsFiniteSet(Bonds(A, k) \cap To(i, j))
         /\ Cardinality(Bonds(A, k) \cap To(i, j)) = SiteBonds(A, A[i], i, j, k)
<1> DEFINE S == {n \in Neighbour :
                   inputPos[i][n] # j /\ Key(A[i], A[inputPos[i][n]], Shell[n]) = k}
           T == Bonds(A, k) \cap To(i, j)
<1>1. S \in SUBSET Neighbour
  OBVIOUS
<1>2. IsFiniteSet(S)
  BY <1>1, Finite, FS_Subset
<1>3. PICK opposite \in [Neighbour -> Neighbour] : \A n \in Neighbour :
        /\ opposite[opposite[n]] = n
        /\ Shell[opposite[n]] = Shell[n]
        /\ \A s \in Site : inputPos[inputPos[s][n]][opposite[n]] = s
  BY NeighbourAssumption
<1> DEFINE f == [n \in S |-> <<inputPos[i][n], opposite[n]>>]
<1>4. ASSUME NEW n \in S PROVE <<inputPos[i][n], opposite[n]>> \in T
  <2> DEFINE x == <<inputPos[i][n], opposite[n]>>
  <2>1. n \in Neighbour /\ inputPos[i][n] \in Site /\ opposite[n] \in Neighbour
    BY NeighbourAssumption
  <2>2. x \in Bond /\ x[1] = inputPos[i][n] /\ x[2] = opposite[n] /\ End(x) = i /\ x[1] # j
    BY <1>3, <2>1 DEF Bond, End
  <2>3. A[i] \in Element /\ A[inputPos[i][n]] \in Element
    BY <2>1
  <2>4. KeyOf(A, x) = Key(A[inputPos[i][n]], A[i], Shell[n])
    BY <1>3, <2>1, <2>2 DEF KeyOf
  <2>5. KeyOf(A, x) = k
    BY <2>3, <2>4, KeySymmetric
  <2>6. QED
    BY <2>2, <2>5 DEF Bonds, To
<1>5. ASSUME NEW x \in T
      PROVE  /\ opposite[x[2]] \in S
             /\ x = <<inputPos[i][opposite[x[2]]], opposite[opposite[x[2]]]>>
  <2>1. x \in Bond /\ End(x) = i /\ x[1] # j /\ KeyOf(A, x) = k
    BY DEF Bonds, To
  <2>2. x[1] \in Site /\ x[2] \in Neighbour /\ x = <<x[1], x[2]>>
    BY <2>1 DEF Bond
  <2> DEFINE n == opposite[x[2]]
  <2>3. n \in Neighbour /\ opposite[n] = x[2] /\ Shell[n] = Shell[x[2]]
    BY <1>3, <2>2
  <2>4. inputPos[i][n] = x[1]
    BY <1>3, <2>1, <2>2 DEF End
  <2>5. A[i] \in Element /\ A[x[1]] \in Element
    BY <2>2
  <2>6. KeyOf(A, x) = Key(A[x[1]], A[i], Shell[n])
    BY <2>1, <2>3 DEF KeyOf
  <2>7. Key(A[i], A[x[1]], Shell[n]) = k
    BY <2>1, <2>5, <2>6, KeySymmetric
  <2>8. QED
    BY <2>1, <2>2, <2>3, <2>4, <2>7
<1>6. ASSUME NEW n \in S, NEW m \in S,
             <<inputPos[i][n], opposite[n]>> = <<inputPos[i][m], opposite[m]>>
      PROVE  n = m
  <2>1. opposite[opposite[n]] = n /\ opposite[opposite[m]] = m
    BY <1>3
  <2>2. opposite[n] = opposite[m]
    BY <1>6
  <2>3. QED
    BY <2>1, <2>2
<1>7. f \in Bijection(S, T)
  <2> HIDE DEF S, T
  <2>1. f \in [S -> T]
    BY <1>4
  <2>2. \A n, m \in S : f[n] = f[m] => n = m
    BY <1>6
  <2>3. \A x \in T : opposite[x[2]] \in S /\ f[opposite[x[2]]] = x
    BY <1>5
  <2> HIDE DEF f
  <2>4. QED
    BY <2>1, <2>2, <2>3 DEF Bijection, Injection, Surjection, IsInjective
<1> HIDE DEF S, T
<1>8. IsFiniteSet(T) /\ Cardinality(T) = Cardinality(S)
  BY <1>2, <1>7, FS_Bijection DEF ExistsBijection
<1>9. QED
  BY <1>8 DEF SiteBonds, S, T

(* The other bonds are counted once, those of the two sites twice.         *)
LEMMA CountAll ==
  ASSUME NEW A \in [Site -> Element], NEW i \in Site, NEW j \in Site, i # j, NEW k
  PROVE  /\ Cardinality(Bonds(A, k))
              = Cardinality(Bonds(A, k) \ Touching(i, j))
                  + 2 * SiteBonds(A, A[i], i, j, k) + 2 * SiteBonds(A, A[j], j, i, k)
         /\ Cardinality(Bonds(A, k) \ Touching(i, j)) \in Nat
         /\ SiteBonds(A, A[i], i, j, k) \in Nat /\ SiteBonds(A, A[j], j, i, k) \in Nat
<1> DEFINE B == Bonds(A, k)
           Fi == B \cap From(i, j)
           Ti == B \cap To(i, j)
           Fj == B \cap From(j, i)
           Tj == B \cap To(j, i)
           Rest == B \ Touching(i, j)
           si == SiteBonds(A, A[i], i, j, k)
           sj == SiteBonds(A, A[j], j, i, k)
<1>1. /\ IsFiniteSet(Fi) /\ Cardinality(Fi) = si
      /\ IsFiniteSet(Ti) /\ Cardinality(Ti) = si
      /\ IsFiniteSet(Fj) /\ Cardinality(Fj) = sj
      /\ IsFiniteSet(Tj) /\ Cardinality(Tj) = sj
  BY CountFrom, CountTo
<1>2. IsFiniteSet(Rest)
  <2>1. Rest \in SUBSET (Site \X Neighbour)
    BY DEF Bonds, Bond
  <2>2. QED
    BY <2>1, Finite, FS_Subset
<1>3. Fi \cap Ti = {} /\ Fj \cap Tj = {} /\ (Fi \cup Ti) \cap (Fj \cup Tj) = {}
  <2>1. \A x \in B : End(x) # x[1]
    BY BondEnds DEF Bonds
  <2>2. QED
    BY <2>1 DEF From, To
<1>4. B = Rest \cup ((Fi \cup Ti) \cup (Fj \cup Tj))
      /\ Rest \cap ((Fi \cup Ti) \cup (Fj \cup Tj)) = {}
  BY DEF Touching
<1> HIDE DEF B, Fi, Ti, Fj, Tj, Rest, si, sj
<1>5. IsFiniteSet(Fi \cup Ti) /\ Cardinality(Fi \cup Ti) = si + si
  BY <1>1, <1>3, Disjoint
<1>6. IsFiniteSet(Fj \cup Tj) /\ Cardinality(Fj \cup Tj) = sj + sj
  BY <1>1, <1>3, Disjoint
<1>7. /\ IsFiniteSet((Fi \cup Ti) \cup (Fj \cup Tj))
      /\ Cardinality((Fi \cup Ti) \cup (Fj \cup Tj)) = (si + si) + (sj + sj)
  BY <1>3, <1>5, <1>6, Disjoint
<1>8. Cardinality(B) = Cardinality(Rest) + ((si + si) + (sj + sj))
  BY <1>2, <1>4, <1>7, Disjoint
<1>9. si \in Nat /\ sj \in Nat /\ Cardinality(Rest) \in Nat
  BY <1>1, <1>2, FS_CardinalityType
<1>10. Cardinality(B) = Cardinality(Rest) + 2 * si + 2 * sj
  BY <1>8, <1>9
<1>11. QED
  BY <1>9, <1>10 DEF B, Rest, si, sj

(* The swap leaves those other bonds as they were, the one between the two *)
(* sites too, because a pair has no order; and each site now looks at its  *)
(* neighbours with the element of the other.                               *)
LEMMA SwapChanges ==
  ASSUME NEW A \in [Site -> Element], NEW i \in Site, NEW j \in Site, A[i] # A[j], NEW k
  PROVE  LET B == Swapped(A, i, j)
         IN  /\ Bonds(B, k) \ Touching(i, j) = Bonds(A, k) \ Touching(i, j)
             /\ SiteBonds(B, B[i], i, j, k) = SiteBonds(A, A[j], i, j, k)
             /\ SiteBonds(B, B[j], j, i, k) = SiteBonds(A, A[i], j, i, k)
<1> DEFINE B == Swapped(A, i, j)
<1>1. /\ B \in [Site -> Element] /\ B[i] = A[j] /\ B[j] = A[i] /\ i # j
      /\ \A x \in Site \ {i, j} : B[x] = A[x]
  BY SwapConserves
<1> HIDE DEF B
<1>2. ASSUME NEW x \in Bond \ Touching(i, j) PROVE KeyOf(B, x) = KeyOf(A, x)
  <2>1. x[1] \in Site /\ End(x) \in Site /\ End(x) # x[1]
    BY BondEnds
  <2>2. CASE x[1] \notin {i, j} /\ End(x) \notin {i, j}
    BY <1>1, <2>1, <2>2 DEF KeyOf
  <2>3. CASE x[1] = i /\ End(x) = j
    <3>1. A[i] \in Element /\ A[j] \in Element
      OBVIOUS
    <3>2. KeyOf(B, x) = Key(A[j], A[i], Shell[x[2]]) /\ KeyOf(A, x) = Key(A[i], A[j], Shell[x[2]])
      BY <1>1, <2>3 DEF KeyOf
    <3>3. QED
      BY <3>1, <3>2, KeySymmetric
  <2>4. CASE x[1] = j /\ End(x) = i
    <3>1. A[i] \in Element /\ A[j] \in Element
      OBVIOUS
    <3>2. KeyOf(B, x) = Key(A[i], A[j], Shell[x[2]]) /\ KeyOf(A, x) = Key(A[j], A[i], Shell[x[2]])
      BY <1>1, <2>4 DEF KeyOf
    <3>3. QED
      BY <3>1, <3>2, KeySymmetric
  <2>5. QED
    BY <2>1, <2>2, <2>3, <2>4 DEF Touching, From, To
<1>3. Bonds(B, k) \ Touching(i, j) = Bonds(A, k) \ Touching(i, j)
  BY <1>2 DEF Bonds
<1>4. ASSUME NEW n \in Neighbour, NEW s \in {i, j}, inputPos[s][n] \notin {i, j}
      PROVE  B[inputPos[s][n]] = A[inputPos[s][n]]
  BY <1>1, <1>4, NeighbourAssumption
<1>5. \A n \in Neighbour : inputPos[i][n] # i /\ inputPos[j][n] # j
  BY NeighbourAssumption
<1>6. SiteBonds(B, B[i], i, j, k) = SiteBonds(A, A[j], i, j, k)
  <2>1. \A n \in Neighbour : inputPos[i][n] # j => B[inputPos[i][n]] = A[inputPos[i][n]]
    BY <1>4, <1>5
  <2>2. {n \in Neighbour : inputPos[i][n] # j /\ Key(B[i], B[inputPos[i][n]], Shell[n]) = k}
          = {n \in Neighbour : inputPos[i][n] # j /\ Key(A[j], A[inputPos[i][n]], Shell[n]) = k}
    BY <1>1, <2>1
  <2>3. QED
    BY <2>2 DEF SiteBonds
<1>7. SiteBonds(B, B[j], j, i, k) = SiteBonds(A, A[i], j, i, k)
  <2>1. \A n \in Neighbour : inputPos[j][n] # i => B[inputPos[j][n]] = A[inputPos[j][n]]
    BY <1>4, <1>5
  <2>2. {n \in Neighbour : inputPos[j][n] # i /\ Key(B[j], B[inputPos[j][n]], Shell[n]) = k}
          = {n \in Neighbour : inputPos[j][n] # i /\ Key(A[i], A[inputPos[j][n]], Shell[n]) = k}
    BY <1>1, <2>1
  <2>3. QED
    BY <2>2 DEF SiteBonds
<1>8. QED
  BY <1>3, <1>6, <1>7 DEF B

(* The incremental update is exact: after a swap the counts that           *)
(* updateWsite() makes of those before are the ones ini_W() would find.    *)
LEMMA UpdateIsExact ==
  ASSUME NEW A \in [Site -> Element], NEW i \in Site, NEW j \in Site, A[i] # A[j]
  PROVE  Updated(A, Recount(A), i, j) = Recount(Swapped(A, i, j))
<1> DEFINE B == Swapped(A, i, j)
<1>1. B \in [Site -> Element] /\ i # j
  BY SwapConserves
<1>2. ASSUME NEW k \in PairKey
      PROVE  Recount(B)[k] = Recount(A)[k] + SiteChange(A, A[i], A[j], i, j, k)
                                           + SiteChange(A, A[j], A[i], j, i, k)
  <2> DEFINE rest == Cardinality(Bonds(A, k) \ Touching(i, j))
             ii == SiteBonds(A, A[i], i, j, k)
             jj == SiteBonds(A, A[j], j, i, k)
             ij == SiteBonds(A, A[j], i, j, k)
             ji == SiteBonds(A, A[i], j, i, k)
  <2>1. Cardinality(Bonds(A, k)) = rest + 2 * ii + 2 * jj /\ rest \in Nat /\ ii \in Nat /\ jj \in Nat
    BY <1>1, CountAll
  <2>2. Cardinality(Bonds(B, k)) = rest + 2 * ij + 2 * ji /\ ij \in Nat /\ ji \in Nat
    <3>1. /\ Bonds(B, k) \ Touching(i, j) = Bonds(A, k) \ Touching(i, j)
          /\ SiteBonds(B, B[i], i, j, k) = ij /\ SiteBonds(B, B[j], j, i, k) = ji
      BY SwapChanges
    <3> HIDE DEF B, ij, ji
    <3>2. /\ Cardinality(Bonds(B, k)) = Cardinality(Bonds(B, k) \ Touching(i, j))
               + 2 * SiteBonds(B, B[i], i, j, k) + 2 * SiteBonds(B, B[j], j, i, k)
          /\ SiteBonds(B, B[i], i, j, k) \in Nat /\ SiteBonds(B, B[j], j, i, k) \in Nat
      BY <1>1, CountAll
    <3>3. QED
      BY <3>1, <3>2
  <2>3. Recount(A)[k] = Cardinality(Bonds(A, k)) /\ Recount(B)[k] = Cardinality(Bonds(B, k))
    BY DEF Recount, Bonds, Bond, KeyOf, End
  <2>4. /\ SiteChange(A, A[i], A[j], i, j, k) = 2 * (ij - ii)
        /\ SiteChange(A, A[j], A[i], j, i, k) = 2 * (ji - jj)
    BY DEF SiteChange
  <2> HIDE DEF rest, ii, jj, ij, ji, B
  <2>5. QED
    BY <2>1, <2>2, <2>3, <2>4
<1> HIDE DEF B
<1>3. Recount(B) = [k \in PairKey |-> Recount(B)[k]]
  BY DEF Recount
<1>4. QED
  BY <1>2, <1>3 DEF Updated, B

(***************************************************************************)
(* The invariant.  While decode() repairs a configuration its counts lag   *)
(* behind, but sum is what the lattice holds and elist what may be taken:  *)
(* all the sites of an element that is overfull still, which got none.     *)
(***************************************************************************)
Typed == /\ pc \in {"idle", "repair", "trial", "undefined"} /\ mode \in Modes
         /\ Atom \in [Site -> Element]
Counted == pc # "repair" => Atom \in Lattice /\ W = Recount(Atom)
Energy == pc = "idle" => currEtot = Etot(W)
Undone == pc # "idle" => /\ saved.Atom \in Lattice /\ saved.W = Recount(saved.Atom)
                         /\ currEtot = Etot(saved.W)
Listed == pc = "repair" => /\ sum = [t \in Element |-> Atoms(Atom, t)]
                           /\ elist = [t \in Element |-> elist[t]]
                           /\ \A t \in Element : elist[t] \subseteq Holds(Atom, t)
Takeable == pc = "repair" => \A t \in Overfull : elist[t] = Holds(Atom, t)

IInv == Typed /\ Counted /\ Energy /\ Undone /\ Listed /\ Takeable

(* What the assumption says of a configuration.                            *)
LEMMA Composed ==
  /\ NT \in [Element -> Nat] /\ Lattice \subseteq [Site -> Element]
  /\ \A A \in Lattice, t \in Element : Atoms(A, t) = NT[t]
BY CompositionAssumption DEF Lattice

(* The counts of the first configuration are made from it.                 *)
LEMMA Initially == Init => IInv
BY Composed DEF Init, IInv, Typed, Counted, Energy, Undone, Listed, Takeable, Modes

(* A swap: the counts are updated, and a copy of those before is kept.     *)
LEMMA BondSwapKeeps ==
  ASSUME IInv, NEW i \in Site, NEW n \in Neighbour, BondSwap(i, n)
  PROVE  IInv'
<1> DEFINE j == inputPos[i][n]
<1>1. /\ pc = "idle" /\ pc' = "trial" /\ Atom[i] # Atom[j]
      /\ saved' = [Atom |-> Atom, W |-> W]
      /\ W' = Updated(Atom, W, i, j) /\ Atom' = Swapped(Atom, i, j)
      /\ UNCHANGED <<mode, currEtot>>
  BY DEF BondSwap
<1>2. j \in Site /\ Atom \in [Site -> Element] /\ Atom \in Lattice /\ W = Recount(Atom)
  BY <1>1, NeighbourAssumption DEF IInv, Typed, Counted
<1> HIDE DEF j
<1>3. /\ Atom' \in [Site -> Element] /\ \A t : Atoms(Atom', t) = Atoms(Atom, t)
      /\ W' = Recount(Atom')
  BY <1>1, <1>2, SwapConserves, UpdateIsExact
<1>4. Atom' \in Lattice
  BY <1>2, <1>3 DEF Lattice
<1>5. Undone'
  BY <1>1, <1>2 DEF IInv, Energy, Undone
<1>6. QED
  BY <1>1, <1>3, <1>4, <1>5 DEF IInv, Typed, Counted, Energy, Listed, Takeable

(* A decoded configuration need not have the right composition: decode()   *)
(* lists what it holds.                                                    *)
LEMMA VaeDecodeKeeps ==
  ASSUME IInv, NEW D \in [Site -> Element], VaeDecode(D)
  PROVE  IInv'
<1>1. /\ pc = "idle" /\ pc' = "repair" /\ Atom' = D
      /\ saved' = [Atom |-> Atom, W |-> W]
      /\ sum' = [t \in Element |-> Atoms(D, t)]
      /\ elist' = [t \in Element |-> {i \in Site : D[i] = t}]
      /\ UNCHANGED <<mode, W, currEtot>>
  BY DEF VaeDecode
<1>2. Undone'
  BY <1>1 DEF IInv, Counted, Energy, Undone
<1>3. Listed' /\ Takeable'
  BY <1>1 DEF Listed, Takeable, Overfull, Holds
<1>4. QED
  BY <1>1, <1>2, <1>3 DEF IInv, Typed, Counted, Energy

(* While an element is overfull another lacks atoms, so that the repair    *)
(* never puts the value -1 on a site.                                      *)
LEMMA RoomSomewhere ==
  ASSUME IInv, pc = "repair", NEW t \in Overfull
  PROVE  Room(t) # {}
<1>1. t \in Element /\ sum[t] > NT[t]
  BY DEF Overfull
<1>2. /\ saved.Atom \in [Site -> Element] /\ Atom \in [Site -> Element]
      /\ \A u \in Element : Atoms(saved.Atom, u) = NT[u] /\ sum[u] = Atoms(Atom, u)
  BY Composed DEF IInv, Typed, Undone, Listed
<1>3. \A u \in Element : Atoms(Atom, u) \in Nat /\ NT[u] \in Nat
  BY AtomsCounted, Composed
<1>4. SUFFICES ASSUME Room(t) = {} PROVE FALSE
  OBVIOUS
<1>5. \A u \in Element : Atoms(saved.Atom, u) <= Atoms(Atom, u)
  BY <1>1, <1>2, <1>3, <1>4 DEF Room
<1>6. Atoms(saved.Atom, t) = Atoms(Atom, t)
  BY <1>1, <1>2, <1>5, Balance
<1>7. QED
  BY <1>1, <1>2, <1>3, <1>6

(* The least of a set of elements is one of them.                          *)
LEMMA LeastIn == ASSUME NEW S \in SUBSET Element, S # {} PROVE Min(S) \in S
<1>1. S \in SUBSET Nat
  BY CompositionAssumption DEF Element
<1>2. PICK k \in S : \A j \in S : <<j, k>> \notin OpToRel(<, Nat)
  BY <1>1, WFMin, NatLessThanWellFounded, Zenon
<1>3. \A j \in S : ~(j < k)
  BY <1>1, <1>2, Zenon DEF OpToRel
<1>4. \E x \in S : \A y \in S : x <= y
  BY <1>1, <1>3
<1>5. QED
  BY <1>4 DEF Min

(* A hit of the repair loop moves one atom from an element to another, in  *)
(* the lattice and in the lists.                                           *)
LEMMA RepairKeeps ==
  ASSUME IInv, NEW i \in Site, Repair(i)
  PROVE  IInv'
<1> DEFINE t == Min(Overfull)
           tid == IF Room(t) = {} THEN -1 ELSE Min(Room(t))
<1>1. /\ pc = "repair" /\ Overfull # {} /\ i \in elist[t]
      /\ Atom' = [Atom EXCEPT ![i] = tid]
      /\ elist' = [elist EXCEPT ![t] = @ \ {i}]
      /\ sum' = [sum EXCEPT ![t] = @ - 1, ![tid] = @ + 1]
      /\ UNCHANGED <<pc, mode, W, currEtot, saved>>
  BY DEF Repair
<1>2. t \in Overfull
  BY <1>1, LeastIn DEF Overfull
<1>3. tid \in Room(t)
  <2>1. Room(t) # {}
    BY <1>1, <1>2, RoomSomewhere
  <2>2. Room(t) \in SUBSET Element
    BY DEF Room
  <2>3. QED
    BY <2>1, <2>2, LeastIn
<1> HIDE DEF t, tid
<1>4. t \in Element /\ tid \in Element /\ tid # t
  BY <1>2, <1>3 DEF Overfull, Room
<1>5. /\ Atom \in [Site -> Element] /\ sum = [u \in Element |-> Atoms(Atom, u)]
      /\ elist = [u \in Element |-> elist[u]]
      /\ \A u \in Element : elist[u] \subseteq Holds(Atom, u)
  BY <1>1 DEF IInv, Typed, Listed
<1>6. Atom[i] = t
  BY <1>1, <1>4, <1>5 DEF Holds
<1>7. Atom' \in [Site -> Element] /\ OneBecame(Atom, Atom', t, tid)
  BY <1>1, <1>4, <1>5, <1>6, Replacing
<1>8. sum' = [u \in Element |-> Atoms(Atom', u)]
  BY <1>1, <1>4, <1>5, <1>7 DEF OneBecame
<1>9. elist' = [u \in Element |-> elist'[u]]
  BY <1>1, <1>5
<1>10. ASSUME NEW u \in Element PROVE elist'[u] \subseteq Holds(Atom', u)
  <2>1. elist'[u] \subseteq Holds(Atom, u) /\ i \notin elist'[u]
    BY <1>1, <1>4, <1>5, <1>6 DEF Holds
  <2>2. \A x \in Site : x # i => Atom'[x] = Atom[x]
    BY <1>1, <1>5
  <2>3. QED
    BY <2>1, <2>2 DEF Holds
<1>11. Listed'
  BY <1>8, <1>9, <1>10 DEF Listed, Holds
<1>12. ASSUME NEW u \in Overfull' PROVE elist'[u] = Holds(Atom', u)
  <2>1. u \in Element /\ sum'[u] > NT[u]
    BY <1>12 DEF Overfull
  <2>2. u # tid
    <3>1. sum'[tid] = sum[tid] + 1 /\ sum[tid] < NT[tid]
      BY <1>1, <1>3, <1>4, <1>5 DEF Room
    <3>2. sum[tid] \in Nat /\ NT[tid] \in Nat
      BY <1>4, <1>5, AtomsCounted, Composed
    <3>3. QED
      BY <2>1, <3>1, <3>2
  <2>3. u \in Overfull
    <3>1. CASE u = t
      BY <1>2, <3>1
    <3>2. CASE u # t
      BY <1>1, <1>4, <1>5, <2>1, <2>2, <3>2 DEF Overfull
    <3>3. QED
      BY <3>1, <3>2
  <2>4. elist[u] = Holds(Atom, u)
    BY <1>1, <2>3 DEF IInv, Takeable
  <2>5. CASE u = t
    <3>1. elist'[u] = Holds(Atom, u) \ {i}
      BY <1>1, <1>4, <1>5, <2>4, <2>5
    <3>2. QED
      BY <1>1, <1>4, <1>5, <2>5, <3>1 DEF Holds
  <2>6. CASE u # t
    <3>1. elist'[u] = Holds(Atom, u)
      BY <1>1, <1>4, <1>5, <2>4, <2>6
    <3>2. QED
      BY <1>1, <1>4, <1>5, <1>6, <2>2, <2>6, <3>1 DEF Holds
  <2>7. QED
    BY <2>5, <2>6
<1>13. QED
  BY <1>1, <1>7, <1>11, <1>12 DEF IInv, Typed, Counted, Energy, Undone, Takeable

(* When no element is overfull none lacks atoms either.                    *)
LEMMA RepairEnds ==
  ASSUME IInv, pc = "repair", Overfull = {}
  PROVE  Atom \in Lattice /\ \A t \in Element : sum[t] = NT[t]
<1>1. /\ saved.Atom \in [Site -> Element] /\ Atom \in [Site -> Element]
      /\ \A u \in Element : Atoms(saved.Atom, u) = NT[u] /\ sum[u] = Atoms(Atom, u)
  BY Composed DEF IInv, Typed, Undone, Listed
<1>2. \A u \in Element : Atoms(Atom, u) \in Nat /\ NT[u] \in Nat
  BY AtomsCounted, Composed
<1>3. \A u \in Element : ~(sum[u] > NT[u])
  BY DEF Overfull
<1>4. \A u \in Element : Atoms(Atom, u) <= Atoms(saved.Atom, u)
  BY <1>1, <1>2, <1>3
<1>5. \A u \in Element : Atoms(Atom, u) = Atoms(saved.Atom, u)
  BY <1>1, <1>4, Balance
<1>6. QED
  BY <1>1, <1>5 DEF Lattice

(* The repair ends with the composition restored, and the counts are made  *)
(* anew.                                                                   *)
LEMMA RepairedKeeps ==
  ASSUME IInv, Repaired
  PROVE  IInv'
<1>1. /\ pc = "repair" /\ pc' = "trial" /\ Overfull = {} /\ W' = Recount(Atom)
      /\ UNCHANGED <<mode, Atom, currEtot, saved>>
  BY DEF Repaired
<1>2. Atom \in Lattice
  BY <1>1, RepairEnds
<1>3. Typed' /\ Counted' /\ Energy' /\ Listed' /\ Takeable'
  BY <1>1, <1>2 DEF IInv, Typed, Counted, Energy, Listed, Takeable, Recount
<1>4. Undone'
  BY <1>1 DEF IInv, Undone, Recount
<1>5. QED
  BY <1>3, <1>4 DEF IInv

(* Whichever way a trial is decided, counts and energy are those of the    *)
(* configuration the walker is left with.                                  *)
LEMMA DecisionKeeps ==
  ASSUME IInv, pc = "trial", pc' = "idle", mode' = mode, Accept \/ Revert
  PROVE  IInv'
<1>1. CASE Accept
  <2>1. currEtot' = Etot(W) /\ UNCHANGED <<Atom, W>>
    BY <1>1 DEF Accept
  <2>2. QED
    BY <2>1 DEF IInv, Typed, Counted, Energy, Undone, Listed, Takeable
<1>2. CASE Revert
  <2>1. Atom' = saved.Atom /\ W' = saved.W /\ currEtot' = currEtot
    BY <1>2 DEF Revert
  <2>2. QED
    BY <2>1, Composed DEF IInv, Typed, Counted, Energy, Undone, Listed, Takeable
<1>3. QED
  BY <1>1, <1>2

(* Every step keeps the invariant.                                         *)
LEMMA NextKeeps == IInv /\ [Next]_vars => IInv'
<1> SUFFICES ASSUME IInv, [Next]_vars PROVE IInv'
  OBVIOUS
<1>1. CASE initWL \/ NextLoop \/ Production
  <2>1. UNCHANGED <<pc, Atom, W, currEtot>> /\ pc = "idle" /\ mode' \in Modes
    BY <1>1 DEF initWL, NextLoop, Production, Modes
  <2>2. QED
    BY <2>1 DEF IInv, Typed, Counted, Energy, Undone, Listed, Takeable
<1>2. ASSUME NEW i \in Site, NEW n \in Neighbour, BondSwap(i, n) PROVE IInv'
  BY <1>2, BondSwapKeeps
<1>3. ASSUME NEW D \in [Site -> Element], VaeDecode(D) PROVE IInv'
  BY <1>3, VaeDecodeKeeps
<1>4. ASSUME NEW i \in Site, Repair(i) PROVE IInv'
  BY <1>4, RepairKeeps
<1>5. CASE Repaired
  BY <1>5, RepairedKeeps
<1>6. CASE DecideMetropolis
  BY <1>6, DecisionKeeps DEF DecideMetropolis
<1>7. CASE Capture
  BY <1>7 DEF Capture, IInv, Typed, Counted, Energy, Undone, Listed, Takeable
<1>8. CASE DecideWL
  BY <1>8, DecisionKeeps DEF DecideWL
<1>9. CASE IndexOutOfBins
  BY <1>9 DEF IndexOutOfBins, IInv, Typed, Counted, Energy, Undone, Listed, Takeable
<1>10. CASE UNCHANGED vars
  <2>1. UNCHANGED <<pc, mode, Atom, W, currEtot, saved, sum, elist>>
    BY <1>10 DEF vars, decoding
  <2>2. Typed' /\ Counted' /\ Energy' /\ Undone'
    BY <2>1 DEF IInv, Typed, Counted, Energy, Undone
  <2>3. Listed' /\ Takeable'
    BY <2>1 DEF IInv, Listed, Takeable, Overfull, Holds
  <2>4. QED
    BY <2>2, <2>3 DEF IInv
<1>11. QED
  BY <1>1, <1>2, <1>3, <1>4, <1>5, <1>6, <1>7, <1>8, <1>9, <1>10 DEF Next, Undefined

(* The invariant holds in every reachable state.                           *)
LEMMA Invariance == Spec => []IInv
BY Initially, NextKeeps, PTL DEF Spec

(* For every lattice, table of neighbours and sequence of moves: the pair  *)
(* counts, updated bond by bond or put back, are those of a recount, and   *)
(* the energy is that of the configuration.                                *)
THEOREM CountsNeverDrift == Spec => []CountsMatch
<1>1. IInv => CountsMatch
  BY DEF IInv, Typed, Counted, Energy, Undone, CountsMatch
<1>2. QED
  BY <1>1, Invariance, PTL

(* Whatever the decoder puts on the sites: the repair gives every element  *)
(* its number of atoms back, and no move changes it.                       *)
THEOREM CompositionKept == Spec => []CompositionConserved
<1>1. IInv => CompositionConserved
  BY RepairEnds DEF IInv, Counted, CompositionConserved
<1>2. QED
  BY <1>1, Invariance, PTL

(* The bins are those of the energies from the lower edge to the upper     *)
(* one, which is left out, and less than a bin below.                      *)
LEMMA EdgesOfBins ==
  ASSUME NEW E \in Int, BinOf(E) \notin Bin, E <= WLD1max
  PROVE  E = WLD1max \/ E <= WLD1min - BinWidth
<1> DEFINE x == E - WLD1min
<1>1. /\ WLD1min \in Int /\ BinWidth \in Int /\ BinWidth > 0 /\ D1BINS \in Int /\ D1BINS > 0
      /\ x \in Int /\ -x \in Int
  BY WindowAssumption
<1>2. D1BINS * BinWidth \in Int /\ 1 * BinWidth = BinWidth /\ 0 * BinWidth = 0
  BY <1>1
<1>3. SUFFICES ASSUME E # WLD1max, E > WLD1min - BinWidth PROVE FALSE
  BY <1>1
<1>4. x < D1BINS * BinWidth /\ -x < BinWidth
  BY <1>1, <1>2, <1>3 DEF WLD1max
<1>5. BinOf(E) = Truncate(x)
  BY DEF BinOf
<1>6. CASE x >= 0
  <2>1. PICK q \in Int, m \in Int : x = q * BinWidth + m /\ 0 <= m /\ m < BinWidth /\ q = x \div BinWidth
    BY <1>1
  <2>2. q >= 0
    BY <1>1, <1>6, <2>1
  <2>3. q < D1BINS
    BY <1>1, <1>4, <2>1
  <2>4. QED
    BY <1>1, <1>5, <1>6, <2>1, <2>2, <2>3 DEF Truncate, Bin
<1>7. CASE ~(x >= 0)
  <2>1. (-x) \div BinWidth = 0
    BY <1>1, <1>4, <1>7
  <2>2. Truncate(x) = 0
    BY <1>7, <2>1 DEF Truncate
  <2>3. QED
    BY <1>1, <1>5, <2>2 DEF Bin
<1>8. QED
  BY <1>6, <1>7

(* A walker without a bin is as initWL() left it, at the upper edge or a   *)
(* whole bin below the window: no move of Wang-Landau sampling leads out.  *)
THEOREM OutsideFromStartOnly == Spec => OutsideOnlyFromStart
<1>1. ASSUME IInv, [Next]_vars
      PROVE  [BinOf(currEtot') \notin Bin =>
                /\ mode # "metropolis" => UNCHANGED currEtot
                /\ mode = "metropolis" /\ mode' # "metropolis"
                     => currEtot' = WLD1max \/ currEtot' <= WLD1min - BinWidth]_vars
  <2>1. CASE initWL
    <3>1. mode = "metropolis" /\ pc = "idle" /\ currEtot <= WLD1max /\ currEtot' = currEtot
      BY <2>1 DEF initWL
    <3>2. currEtot \in Int
      BY <1>1, <3>1, EnergyAssumption DEF IInv, Counted, Energy
    <3>3. QED
      BY <3>1, <3>2, EdgesOfBins
  <2>2. CASE DecideWL
    <3>1. /\ mode # "metropolis"
          /\ currEtot' = currEtot \/ (currEtot' = Etot(W) /\ BinOf(Etot(W)) \in Bin)
      BY <2>2 DEF DecideWL, Accept, Revert
    <3>2. QED
      BY <3>1
  <2>3. CASE DecideMetropolis
    BY <2>3 DEF DecideMetropolis
  <2>4. CASE ~(initWL \/ DecideWL \/ DecideMetropolis)
    BY <1>1, <2>4 DEF Next, NextLoop, Production, BondSwap, VaeDecode, Repair, Repaired,
                      Capture, IndexOutOfBins, Undefined, vars
  <2>5. QED
    BY <2>1, <2>2, <2>3, <2>4
<1>2. QED
  BY <1>1, Invariance, PTL DEF Spec, OutsideOnlyFromStart

(* No walker arrives in a low-energy slot that has no snapshot, and no     *)
(* snapshot is of another slot: because the counts of a trial are exact.   *)
THEOREM SlotsAreCaptured == Spec => ArrivalsCaptured
<1>1. ASSUME IInv, [Next]_vars
      PROVE  [/\ mode # "metropolis" /\ currEtot' # currEtot /\ BinOf(currEtot') < LowSlots
                   => BinOf(currEtot') \in print_list'
              /\ print_list' # print_list
                   => BinOf(Etot(Recount(out'.Atom))) \in print_list' \ print_list]_vars
  <2>1. CASE Capture
    <3>1. currEtot' = currEtot /\ out'.Atom = Atom /\ print_list' = print_list \cup {BinOf(Etot(W))}
          /\ BinOf(Etot(W)) \notin print_list /\ W = Recount(Atom)
      BY <1>1, <2>1 DEF Capture, Frame, IInv, Counted
    <3>2. QED
      BY <3>1
  <2>2. CASE DecideWL
    <3>1. print_list' = print_list /\ BinOf(Etot(W)) \notin Slot \ print_list
      BY <2>2 DEF DecideWL
    <3>2. currEtot' = currEtot \/ (currEtot' = Etot(W) /\ BinOf(Etot(W)) \in Bin)
      BY <2>2 DEF DecideWL, Accept, Revert
    <3>3. QED
      BY <3>1, <3>2 DEF Slot
  <2>3. CASE DecideMetropolis
    BY <2>3 DEF DecideMetropolis
  <2>4. CASE ~(Capture \/ DecideWL \/ DecideMetropolis)
    BY <1>1, <2>4 DEF Next, initWL, NextLoop, Production, BondSwap, VaeDecode, Repair, Repaired,
                      IndexOutOfBins, Undefined, vars
  <2>5. QED
    BY <2>1, <2>2, <2>3, <2>4
<1>2. QED
  BY <1>1, Invariance, PTL DEF Spec, ArrivalsCaptured

(* A hit takes one atom off the surplus: from the element it takes from,   *)
(* and none is added to the one it gives to.                               *)
LEMMA HitAdvances ==
  ASSUME IInv, NEW i \in Site, Repair(i)
  PROVE  Excess' < Excess
<1> DEFINE t == Min(Overfull)
           tid == IF Room(t) = {} THEN -1 ELSE Min(Room(t))
<1>1. /\ pc = "repair" /\ Overfull # {}
      /\ sum' = [sum EXCEPT ![t] = @ - 1, ![tid] = @ + 1]
  BY DEF Repair
<1>2. t \in Overfull
  BY <1>1, LeastIn DEF Overfull
<1>3. tid \in Room(t)
  <2>1. Room(t) # {}
    BY <1>1, <1>2, RoomSomewhere
  <2>2. Room(t) \in SUBSET Element
    BY DEF Room
  <2>3. QED
    BY <2>1, <2>2, LeastIn
<1> HIDE DEF t, tid
<1>4. /\ t \in Element /\ tid \in Element /\ tid # t
      /\ NT[t] < sum[t] /\ sum[tid] < NT[tid]
  BY <1>2, <1>3 DEF Overfull, Room
<1>5. sum = [u \in Element |-> Atoms(Atom, u)]
  BY <1>1 DEF IInv, Listed
<1>6. \A u \in Element : sum[u] \in 0 .. NSites /\ NT[u] \in Nat
  <2> SUFFICES ASSUME NEW u \in Element PROVE sum[u] \in 0 .. NSites /\ NT[u] \in Nat
    OBVIOUS
  <2>1. Cardinality(Site) = NSites
    <3>1. NSites \in Nat /\ 0 \in Int /\ NSites - 1 \in Int
      BY CompositionAssumption
    <3>2. Cardinality(0 .. NSites - 1) = IF 0 > NSites - 1 THEN 0 ELSE NSites - 1 - 0 + 1
      BY <3>1, FS_Interval
    <3>3. QED
      BY <3>1, <3>2 DEF Site
  <2>2. Cardinality(Holds(Atom, u)) <= Cardinality(Site)
    BY Finite, FS_Subset DEF Holds
  <2>3. QED
    BY <1>5, <2>1, <2>2, AtomsCounted, Composed, CompositionAssumption
<1>7. /\ sum'[t] = sum[t] - 1 /\ sum'[tid] = sum[tid] + 1
      /\ \A u \in Element : u # t /\ u # tid => sum'[u] = sum[u]
  BY <1>1, <1>4, <1>5
<1>8. <<t, sum[t]>> \in Surplus
  <2>1. sum[t] \in 1 .. NSites
    BY <1>4, <1>6
  <2>2. QED
    BY <1>4, <1>6, <2>1 DEF Surplus
<1>9. Surplus' = Surplus \ {<<t, sum[t]>>}
  <2>1. ASSUME NEW u \in Element, NEW x \in 1 .. NSites
        PROVE  (NT[u] < x /\ x <= sum'[u]) <=> (NT[u] < x /\ x <= sum[u] /\ ~(u = t /\ x = sum[t]))
    <3>1. CASE u = t
      BY <1>4, <1>6, <1>7, <3>1
    <3>2. CASE u = tid
      BY <1>4, <1>6, <1>7, <3>2
    <3>3. CASE u # t /\ u # tid
      BY <1>6, <1>7, <3>3
    <3>4. QED
      BY <3>1, <3>2, <3>3
  <2>2. QED
    BY <2>1 DEF Surplus
<1>10. IsFiniteSet(Surplus)
  <2>1. IsFiniteSet(Element) /\ IsFiniteSet(1 .. NSites)
    <3>1. NSites \in Int /\ NE - 1 \in Int /\ 0 \in Int /\ 1 \in Int
      BY CompositionAssumption
    <3>2. QED
      BY <3>1, FS_Interval DEF Element
  <2>2. IsFiniteSet(Element \X (1 .. NSites))
    BY <2>1, FS_Product
  <2>3. QED
    BY <2>2, FS_Subset DEF Surplus
<1>11. Cardinality(Surplus') = Cardinality(Surplus) - 1 /\ Cardinality(Surplus) \in Nat
  BY <1>8, <1>9, <1>10, FS_RemoveElement, FS_CardinalityType
<1>12. QED
  BY <1>11 DEF Excess

(* While an element is overfull the one whose turn it is has a site that   *)
(* was not reassigned.                                                     *)
LEMMA SiteToTake == IInv /\ pc = "repair" /\ Overfull # {} => elist[Min(Overfull)] # {}
<1> SUFFICES ASSUME IInv, pc = "repair", Overfull # {} PROVE elist[Min(Overfull)] # {}
  OBVIOUS
<1>1. PICK t \in Overfull : t = Min(Overfull)
  BY LeastIn DEF Overfull
<1>2. t \in Element /\ NT[t] < Atoms(Atom, t) /\ elist[t] = Holds(Atom, t)
  BY DEF IInv, Listed, Takeable, Overfull
<1>3. Cardinality(Holds(Atom, t)) # 0
  BY <1>2, AtomsCounted, Composed
<1>4. QED
  BY <1>1, <1>2, <1>3, FS_EmptySet

(* Whatever the decoder gave: every hit of the repair loop brings it       *)
(* closer to its end, and as long as it goes on there is a hit to draw.    *)
THEOREM RepairAlwaysAdvances == Spec => RepairAdvances
<1>1. ASSUME IInv, [Next]_vars
      PROVE  [/\ pc = "repair" /\ pc' = "repair" => Excess' < Excess
              /\ pc' = "repair" /\ Overfull' # {} => elist'[Min(Overfull')] # {}]_vars
  <2>1. IInv'
    BY <1>1, NextKeeps
  <2>2. pc' = "repair" /\ Overfull' # {} => elist'[Min(Overfull')] # {}
    <3>1. (IInv /\ pc = "repair" /\ Overfull # {} => elist[Min(Overfull)] # {})'
      BY SiteToTake, PTL
    <3>2. QED
      BY <2>1, <3>1
  <2>3. CASE \E i \in Site : Repair(i)
    BY <1>1, <2>2, <2>3, HitAdvances
  <2>4. CASE ~\E i \in Site : Repair(i)
    <3>1. pc = "repair" /\ pc' = "repair" => UNCHANGED vars
      BY <1>1, <2>4 DEF Next, initWL, NextLoop, Production, BondSwap, VaeDecode, Repaired,
                        DecideMetropolis, Capture, DecideWL, IndexOutOfBins, Undefined
    <3>2. QED
      BY <2>2, <3>1
  <2>5. QED
    BY <2>3, <2>4
<1>2. QED
  BY <1>1, Invariance, PTL DEF Spec, RepairAdvances
=============================================================================
