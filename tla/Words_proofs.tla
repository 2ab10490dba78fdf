---------------------------- MODULE Words_proofs ----------------------------
(***************************************************************************)
(* Lemmas about words: what is added and subtracted again, addresses that  *)
(* follow one another, and comparison with the sign moved.                 *)
(***************************************************************************)
EXTENDS Words, TLAPS, WellFoundedInduction

(* A bit of x at or above b has a lowest one.                              *)
LEMMA LowestBit ==
  ASSUME NEW x, NEW b \in Nat, NEW i \in Nat, i \in x, b <= i
  PROVE \E j \in b .. i : j \in x /\ \A k \in b .. j - 1 : k \notin x
<1> DEFINE T == {k \in b .. i : k \in x}
<1>1. T \subseteq Nat /\ T # {}
  OBVIOUS
<1>2. PICK j \in T : \A k \in T : ~(<<k, j>> \in OpToRel(<, Nat))
  BY <1>1, WFMin, NatLessThanWellFounded
<1>3. \A k \in T : ~(k < j)
  BY <1>1, <1>2 DEF OpToRel
<1> QED BY <1>3

LEMMA CarryOfNone ==
  ASSUME NEW v, NEW i \in Bits
  PROVE ~Carry(v, {31}, FALSE, i)
BY DEF Carry, Bits

(* Adding 2^31 turns the sign over.                                        *)
LEMMA PlusSign ==
  ASSUME NEW v \in Word
  PROVE Plus(v, {31}) = Xor(v, {31})
<1>1. \A i \in Bits : i \in Plus(v, {31}) <=> i \in Xor(v, {31})
  BY CarryOfNone DEF Plus, Sum, Xor
<1>2. Plus(v, {31}) \in Word
  BY DEF Plus, Sum, Word
<1>3. Xor(v, {31}) \in Word
  BY DEF Xor, Word, Bits
<1> QED BY <1>1, <1>2, <1>3 DEF Word

(* Carries when 2^b is added: they run through the ones from b on.         *)
LEMMA CarryOfBit ==
  ASSUME NEW v, NEW b \in Nat, NEW i \in Nat
  PROVE Carry(v, {b}, FALSE, i) <=> (b < i /\ \A k \in b .. i - 1 : k \in v)
BY DEF Carry

LEMMA PlusBit ==
  ASSUME NEW v, NEW b \in Nat, NEW i \in Bits
  PROVE i \in Plus(v, {b}) <=> ((i \in v <=> i = b) <=> (b < i /\ \A k \in b .. i - 1 : k \in v))
<1>1. i \in Plus(v, {b}) <=> ((i \in v <=> i = b) <=> Carry(v, {b}, FALSE, i))
  BY DEF Plus, Sum
<1>2. i \in Nat
  BY DEF Bits
<1> QED BY <1>1, <1>2, CarryOfBit

(* Adding 3 is adding 2 and then 1.                                        *)
LEMMA CarryOfThree ==
  ASSUME NEW v, NEW i \in Nat
  PROVE Carry(v, {0, 1}, FALSE, i) <=>
          \/ i = 1 /\ 0 \in v
          \/ i >= 2 /\ (0 \in v \/ 1 \in v) /\ \A k \in 2 .. i - 1 : k \in v
BY DEF Carry

LEMMA PlusThreeBit ==
  ASSUME NEW v, NEW i \in Bits
  PROVE i \in Plus(v, {0, 1}) <=>
          ((i \in v <=> i \in {0, 1}) <=>
             \/ i = 1 /\ 0 \in v
             \/ i >= 2 /\ (0 \in v \/ 1 \in v) /\ \A k \in 2 .. i - 1 : k \in v)
<1>1. i \in Plus(v, {0, 1}) <=> ((i \in v <=> i \in {0, 1}) <=> Carry(v, {0, 1}, FALSE, i))
  BY DEF Plus, Sum
<1>2. i \in Nat
  BY DEF Bits
<1> QED BY <1>1, <1>2, CarryOfThree

(* Borrows when 2^b is taken off: they run through the zeros from b on.    *)
LEMMA CarryOfMinus ==
  ASSUME NEW v, NEW b \in Bits, NEW i \in Bits
  PROVE Carry(v, Not({b}), TRUE, i) <=> ~(b < i /\ \A k \in b .. i - 1 : k \notin v)
BY LowestBit DEF Carry, Not, Bits

(* Taking 2^b off and adding it again gives the word back.                 *)
LEMMA MinusPlus ==
  ASSUME NEW x \in Word, NEW b \in Bits
  PROVE Plus(Minus(x, {b}), {b}) = x
<1> DEFINE y == Minus(x, {b})
           Borrow(i) == b < i /\ \A k \in b .. i - 1 : k \notin x
           Passes(i) == b < i /\ \A k \in b .. i - 1 : k \in y
<1>1. \A i \in Bits : i \in y <=> ((i \in x <=> i = b) <=> Borrow(i))
  BY CarryOfMinus DEF Minus, Sum, Not
<1>2. \A i \in Bits : i \in Plus(y, {b}) <=> ((i \in y <=> i = b) <=> Passes(i))
  <2>1. b \in Nat
    BY DEF Bits
  <2> QED BY <2>1, PlusBit
<1> HIDE DEF y
<1>3. ASSUME NEW i \in Bits PROVE Borrow(i) <=> Passes(i)
  <2>1. ASSUME Borrow(i) PROVE Passes(i)
    BY <1>1, <2>1 DEF Bits
  <2>2. ASSUME Passes(i), ~Borrow(i) PROVE FALSE
    <3>1. PICK m \in b .. i - 1 : m \in x
      BY <2>2
    <3>2. PICK j \in b .. m : j \in x /\ \A k \in b .. j - 1 : k \notin x
      <4>1. b \in Nat /\ m \in Nat /\ b <= m
        BY <3>1 DEF Bits
      <4> QED BY <3>1, <4>1, LowestBit
    <3>3. j \in Bits /\ j \in y
      BY <3>1, <3>2, <2>2 DEF Bits
    <3> QED BY <3>2, <3>3, <1>1 DEF Bits
  <2> QED BY <2>1, <2>2
<1>4. \A i \in Bits : i \in Plus(y, {b}) <=> i \in x
  BY <1>1, <1>2, <1>3
<1>5. Plus(y, {b}) \in Word
  BY DEF Plus, Sum, Word
<1> QED BY <1>4, <1>5 DEF Word, y

(* The fourth byte from v on is the second of the second halfword.         *)
LEMMA PlusThree ==
  ASSUME NEW v \in Word
  PROVE Plus(Plus(v, {1}), {0}) = Plus(v, {0, 1})
<1> DEFINE y == Plus(v, {1})
<1>1. \A i \in Bits : i \in y <=>
        ((i \in v <=> i = 1) <=> (1 < i /\ \A k \in 1 .. i - 1 : k \in v))
  BY PlusBit DEF Bits
<1>2. \A i \in Bits : i \in Plus(y, {0}) <=>
        ((i \in y <=> i = 0) <=> (0 < i /\ \A k \in 0 .. i - 1 : k \in y))
  BY PlusBit DEF Bits
<1>3. \A i \in Bits : i \in Plus(v, {0, 1}) <=>
        ((i \in v <=> i \in {0, 1}) <=>
           \/ i = 1 /\ 0 \in v
           \/ i >= 2 /\ (0 \in v \/ 1 \in v) /\ \A k \in 2 .. i - 1 : k \in v)
  BY PlusThreeBit
<1> HIDE DEF y
<1>4. (0 \in y <=> 0 \in v) /\ (1 \in y <=> 1 \notin v)
  BY <1>1 DEF Bits
<1>5. ASSUME NEW i \in Bits, i >= 2
      PROVE i \in Plus(y, {0}) <=> i \in Plus(v, {0, 1})
  <2> DEFINE Ones == \A k \in 2 .. i - 1 : k \in v
  <2>1. (\A k \in 1 .. i - 1 : k \in v) <=> 1 \in v /\ Ones
    BY <1>5 DEF Bits
  <2>2. (\A k \in 0 .. i - 1 : k \in y) <=> 0 \in v /\ 1 \notin v /\ Ones
    BY <1>5, <1>4, <1>1 DEF Bits
  <2> HIDE DEF Ones
  <2>3. i \in y <=> ~(i \in v <=> (1 \in v /\ Ones))
    <3>1. 1 < i /\ i # 1
      BY <1>5 DEF Bits
    <3> QED BY <3>1, <1>1, <2>1
  <2>4. i \in Plus(y, {0}) <=> ~(i \in y <=> (0 \in v /\ 1 \notin v /\ Ones))
    <3>1. 0 < i /\ i # 0
      BY <1>5 DEF Bits
    <3> QED BY <3>1, <1>2, <2>2
  <2>5. i \in Plus(v, {0, 1}) <=> ~(i \in v <=> ((0 \in v \/ 1 \in v) /\ Ones))
    BY <1>5, <1>3 DEF Ones
  <2> QED BY <2>3, <2>4, <2>5
<1>6. 0 \in Plus(y, {0}) <=> 0 \in Plus(v, {0, 1})
  BY <1>2, <1>3, <1>4 DEF Bits
<1>7. 1 \in Plus(y, {0}) <=> 1 \in Plus(v, {0, 1})
  BY <1>2, <1>3, <1>4 DEF Bits
<1>8. \A i \in Bits : i \in Plus(y, {0}) <=> i \in Plus(v, {0, 1})
  BY <1>5, <1>6, <1>7 DEF Bits
<1>9. Plus(y, {0}) \in Word /\ Plus(v, {0, 1}) \in Word
  BY DEF Plus, Sum, Word
<1> QED BY <1>8, <1>9 DEF Word, y

(* Four addresses that follow one another differ in their lowest two bits. *)
LEMMA LowBitsOfPlus ==
  ASSUME NEW v, NEW w \in SUBSET {0, 1}
  PROVE /\ 0 \in Plus(v, w) <=> ~(0 \in v <=> 0 \in w)
        /\ 1 \in Plus(v, w) <=> ((1 \in v <=> 1 \in w) <=> (0 \in v /\ 0 \in w))
BY DEF Plus, Sum, Carry, Bits

LEMMA PlusZero ==
  ASSUME NEW v \in Word
  PROVE Plus(v, {}) = v
<1>1. \A i \in Bits : i \in Plus(v, {}) <=> i \in v
  BY DEF Plus, Sum, Carry, Bits
<1>2. Plus(v, {}) \in Word
  BY DEF Plus, Sum, Word
<1> QED BY <1>1, <1>2 DEF Word
=============================================================================
