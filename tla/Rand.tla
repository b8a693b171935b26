-------------------------------- MODULE Rand --------------------------------
(***************************************************************************)
(* The random numbers of the program: the generator KISS and the numbers   *)
(* between 0 and 1 drawn from it (src/src/rand.cc).                        *)
(*                                                                         *)
(* A 32-bit unsigned int is the set of the positions of its ones, so that  *)
(* shifts, exclusive or and sums wrap as they do in the program and no     *)
(* number exceeds what TLC can count with.                                 *)
(***************************************************************************)
EXTENDS Integers

Bit == 0 .. 31
Word == SUBSET Bit

Shl(a, n) == {b \in Bit : b - n \in a}
Shr(a, n) == {b \in Bit : b + n \in a}
Xor(a, b) == (a \ b) \cup (b \ a)

(* A carry starts where both have a one, and goes on while either has one. *)
Carries(a, b) == {n \in Bit : \E m \in 0 .. n - 1 :
                    m \in a \cap b /\ \A d \in m + 1 .. n - 1 : d \in a \cup b}
sum[p \in Word \X Word] == Xor(Xor(p[1], p[2]), Carries(p[1], p[2]))
Plus(a, b) == sum[<<a, b>>]

Times69069(a) ==
  LET S(n, rest) == Plus(Shl(a, n), rest)
  IN  S(0, S(2, S(3, S(6, S(7, S(8, S(10, S(11, Shl(a, 16)))))))))
C23606797 == {0, 2, 3, 9, 10, 12, 13, 19, 21, 22, 24}

seed_type == [i : Word, j : Word, k : Word]

(* i is 314159265 and j is 362436069 on every rank: only k differs. *)
kisset(k) == [i |-> {0, 5, 7, 12, 13, 15, 16, 19, 20, 21, 23, 25, 28},
              j |-> {0, 2, 5, 6, 7, 8, 10, 12, 14, 17, 19, 20, 23, 24, 26, 28},
              k |-> k]
shelltimeseed(tseed) == kisset(tseed)

NextI(i) == Plus(Times69069(i), C23606797)
NextJ(j) == LET left == Xor(j, Shl(j, 17)) IN Xor(left, Shr(left, 15))
NextK(k) == LET left == Xor(k, Shl(k, 18)) \ {31} IN Xor(left, Shr(left, 13))
kiss(s) == [i |-> NextI(s.i), j |-> NextJ(s.j), k |-> NextK(s.k)]
Drawn(s) == Plus(Plus(s.i, s.j), s.k)    \* what the call that left s returned

(* randd1() divides by UINT_MAX and draws again while it has 0 or 1.  Its  *)
(* callers multiply by a small n and truncate: with hi and lo the halves   *)
(* of the number drawn, this is out * n \div (2^32 - 1).                   *)
NoRedraw(out) == FALSE      \* faulty variant
Redraw(out) == out = {} \/ out = Bit

(* The number with these ones below position 16, from the highest on.      *)
Number(bits) ==
  LET above[n \in 0 .. 16] ==
        IF n = 16 THEN 0 ELSE 2 * above[n + 1] + (IF n \in bits THEN 1 ELSE 0)
  IN  above[0]

Index(out, n) ==
  LET lo == Number(out) * n
      hi == Number(Shr(out, 16)) * n + lo \div 65536
      q  == hi \div 65536
  IN  IF hi % 65536 = 65535 /\ (lo % 65536) + q >= 65535 THEN q + 1 ELSE q
=============================================================================
