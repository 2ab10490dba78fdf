------------------------------- MODULE Words -------------------------------
(***************************************************************************)
(* Java's ints and the operators of Java on them that the CPU is written   *)
(* with.  An int is the set of the positions of its ones, from 0, the      *)
(* lowest, to 31, the sign: what shifts, masks and casts do to every bit   *)
(* is then plain, and so is the arithmetic, which is modulo 2^32.          *)
(***************************************************************************)
EXTENDS Integers

Bits == 0 .. 31
Word == SUBSET Bits

Low(w, n) == w \cap 0 .. n - 1                   (* w & mask(n)            *)
Shl(w, n) == {i \in Bits : i - n \in w}          (* w << n                 *)
ShrU(w, n) == {i \in Bits : i + n \in w}         (* w >>> n                *)
Shr(w, n) ==                                     (* w >> n                 *)
  {i \in Bits : IF i + n > 31 THEN 31 \in w ELSE i + n \in w}
Field(w, low, n) == Low(Shr(w, low), n)          (* (w >> low) & mask(n)   *)

(* Bit b is the sign: it is copied to all above.                           *)
SignFrom(w, b) == {i \in Bits : IF i > b THEN b \in w ELSE i \in w}
Byte(w) == SignFrom(w, 7)                        (* (byte) w               *)
Short(w) == SignFrom(w, 15)                      (* (short) w              *)

Xor(v, w) == (v \ w) \cup (w \ v)                (* v ^ w                  *)
Not(w) == Bits \ w                               (* ~w                     *)

(* The carry into bit i when v and w are added, with c into bit 0: some    *)
(* bit below generates it, and all in between pass it on.                  *)
Carry(v, w, c, i) ==
  \/ \E j \in 0 .. i - 1 : /\ j \in v /\ j \in w
                           /\ \A k \in j + 1 .. i - 1 : k \in v \/ k \in w
  \/ c /\ \A k \in 0 .. i - 1 : k \in v \/ k \in w

(* An odd number of the two and the carry.                                 *)
Sum(v, w, c) == {i \in Bits : (i \in v <=> i \in w) <=> Carry(v, w, c, i)}
Plus(v, w) == Sum(v, w, FALSE)                   (* v + w                  *)
Minus(v, w) == Sum(v, Not(w), TRUE)              (* v - w                  *)

(* v < w: they differ first at bit i, where w has the one, unless it is    *)
(* the sign.                                                               *)
Less(v, w) ==
  \E i \in Xor(v, w) : /\ \A j \in Xor(v, w) : j <= i
                       /\ IF i = 31 THEN i \in v ELSE i \in w

(* The amount that is in the lower five bits of w; a shift looks no higher.*)
Amount(w) == (IF 0 \in w THEN 1 ELSE 0) + (IF 1 \in w THEN 2 ELSE 0)
             + (IF 2 \in w THEN 4 ELSE 0) + (IF 3 \in w THEN 8 ELSE 0)
             + (IF 4 \in w THEN 16 ELSE 0)
=============================================================================
