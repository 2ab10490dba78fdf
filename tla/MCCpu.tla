------------------------------- MODULE MCCpu -------------------------------
(***************************************************************************)
(* Values for TLC: a core of 16 bytes, of which the arena is 8, the stack  *)
(* is 4 and the last 4 are another's.  The arena is filled with one code,  *)
(* so that a warrior may jump into the middle of it, or write over it.     *)
(***************************************************************************)
EXTENDS Cpu, FiniteSetsExt

CONSTANTS
  Free,           (* how many ones the operands of a halfword may have     *)
  FreeWord        (* ... and the operands of a word                        *)

MCAllowed == SUBSET (0 .. 2) \cup {a \in SUBSET (0 .. 3) : 3 \in a /\ 2 \notin a}

(* Registers hold their numbers, their complements, or high bits.          *)
Low5(x) == [r \in Index |-> IF r = X0 THEN {} ELSE x[r]]
MCFiles == {Low5([r \in Index |-> r]),
            Low5([r \in Index |-> Not(r)]),
            Low5([r \in Index |-> Shl(r, 28) \cup {1}])}

(* The subsets of s that have at most n elements, or lack fewer than n.    *)
Few(s, n) == UNION {kSubset(k, s) : k \in 0 .. n}
FewOrMost(s, n) == Few(s, n) \cup {s \ x : x \in Few(s, n - 1)}

HalfWords ==
  {q \cup f \cup x : q \in {{}, One, Two}, f \in SUBSET (13 .. 15), x \in FewOrMost(2 .. 12, Free)}

InstructionWords ==
  {Xor(Listing[op], x) :
     op \in DOMAIN Listing, x \in FewOrMost(7 .. 11 \cup 15 .. 31, FreeWord)}

(* The arena is full of the code, the rest is empty.                       *)
Image(code, lane(_)) ==
  [a \in Addresses |-> IF a \in Arena THEN Field(code, 8 * lane(a), 8) ELSE {}]

MCCores == {Image(c, LAMBDA a : Amount(Low(a, 1))) : c \in HalfWords}
           \cup {Image(w, LAMBDA a : Amount(Low(a, 2))) : w \in InstructionWords}
=============================================================================
