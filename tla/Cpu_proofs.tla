----------------------------- MODULE Cpu_proofs -----------------------------
(***************************************************************************)
(* Proofs about the turns of a warrior and about the formats, for memories *)
(* of any size and contents, any regions and any code.                     *)
(***************************************************************************)
EXTENDS Cpu, Isa_proofs

-----------------------------------------------------------------------------
(***************************************************************************)
(* What the operators on words return.                                     *)
(***************************************************************************)

(* Operators on words return words, fields have the width asked for.       *)
LEMMA WordOps ==
  ASSUME NEW v, NEW w, NEW n
  PROVE /\ Shl(v, n) \in Word /\ ShrU(v, n) \in Word /\ Shr(v, n) \in Word
        /\ SignFrom(v, n) \in Word /\ Byte(v) \in Word /\ Short(v) \in Word
        /\ Plus(v, w) \in Word /\ Minus(v, w) \in Word
        /\ Field(v, n, 8) \in Octet /\ Field(v, n, 5) \in Index
<1>1. Shl(v, n) \in Word /\ ShrU(v, n) \in Word /\ Shr(v, n) \in Word
  BY DEF Shl, ShrU, Shr, Word
<1>2. SignFrom(v, n) \in Word /\ Byte(v) \in Word /\ Short(v) \in Word
  BY DEF SignFrom, Byte, Short, Word
<1>3. Plus(v, w) \in Word /\ Minus(v, w) \in Word
  BY DEF Plus, Minus, Sum, Word
<1>4. Field(v, n, 8) \in Octet /\ Field(v, n, 5) \in Index
  BY DEF Field, Low, Octet, Index
<1> QED BY <1>1, <1>2, <1>3, <1>4

(* Every field the runner reads is a register number or a word.            *)
LEMMA Fields ==
  ASSUME NEW w
  PROVE /\ Rd(w) \in Index /\ Rs1(w) \in Index /\ Rs2(w) \in Index /\ X0 \in Index
        /\ ImmI(w) \in Word /\ ImmS(w) \in Word /\ ImmSB(w) \in Word /\ ImmU(w) \in Word
        /\ ImmUJ(w) \in Word
<1>1. Rd(w) \in Index /\ Rs1(w) \in Index /\ Rs2(w) \in Index
  BY WordOps DEF Rd, Rs1, Rs2
<1>2. ImmI(w) \in Word /\ ImmS(w) \in Word /\ ImmSB(w) \in Word /\ ImmU(w) \in Word
  BY WordOps DEF ImmI, ImmS, ImmSB, ImmU
<1>3. ImmUJ(w) \in Word
  BY WordOps DEF ImmUJ, Word
<1> QED BY <1>1, <1>2, <1>3 DEF X0, Index

(* What is computed, loaded or put into a register is a word.              *)
LEMMA AluWord ==
  ASSUME NEW op \in DOMAIN Immediates \cup DOMAIN Registers, NEW v \in Word, NEW w \in Word
  PROVE AluOp(op, v, w) \in Word
<1>1. v \cap w \in Word /\ v \cup w \in Word /\ Xor(v, w) \in Word
  BY DEF Word, Xor
<1>2. \A p : OneIf(p) \in Word
  BY DEF OneIf, One, Word, Bits
<1> QED BY <1>1, <1>2, WordOps, OpNames DEF AluOp

LEMMA LoadedWord ==
  ASSUME NEW op \in DOMAIN Loads, NEW x
  PROVE Loaded(op, x) \in Word
<1>1. \A y : LoadByte(y) \in Word /\ LoadHalfWord(y) \in Word
  BY WordOps DEF LoadByte, LoadHalfWord
<1>2. LoadWord(x) \in Word
  BY <1>1, WordOps DEF LoadWord, Low, Word
<1>3. Low(LoadByte(x), 8) \in Word /\ Low(LoadHalfWord(x), 16) \in Word
  BY <1>1 DEF Low, Word
<1> QED BY <1>1, <1>2, <1>3, OpNames DEF Loaded

-----------------------------------------------------------------------------
(***************************************************************************)
(* A turn, from what it does to registers and memory.                      *)
(***************************************************************************)

(* Register 0 keeps its zero.                                              *)
LEMMA SetRegType ==
  ASSUME TypeOK, NEW r \in Index, NEW v \in Word, SetReg(r, v)
  PROVE reg' \in [Index -> Word] /\ reg'[X0] = {}
BY DEF TypeOK, SetReg, X0, Index, Word

(* A pc outside the arena ends the warrior.                                *)
LEMMA LeaveType ==
  ASSUME NEW p, NEW i, Leave(p, i)
  PROVE pc' \in Word /\ trapped' \in BOOLEAN /\ (~trapped' => pc' \in Arena)
BY WordOps DEF Leave

(* A store changes places of allowed bytes only.                           *)
LEMMA StoreType ==
  ASSUME TypeOK, NEW x, NEW n \in {1, 2, 4}, NEW v, StoreBytes(x, n, v)
  PROVE /\ mem' \in [Addresses -> Octet]
        /\ \A a \in Addresses : mem'[a] # mem[a] =>
             \E k \in 0 .. n - 1 : /\ IsAddressAllowed(ByteIndex(x, k))
                                   /\ Location(ByteIndex(x, k)) = a
<1> DEFINE Stored(k) == \A j \in 0 .. k : IsAddressAllowed(ByteIndex(x, j))
           Into(a) == {k \in 0 .. n - 1 : Stored(k) /\ Location(ByteIndex(x, k)) = a}
           Last(a) == CHOOSE k \in Into(a) : \A j \in Into(a) : j <= k
<1>1. mem' = [a \in Addresses |-> IF Into(a) = {} THEN mem[a] ELSE Field(v, 8 * Last(a), 8)]
  BY DEF StoreBytes
<1> HIDE DEF Last
<1>2. \A a \in Addresses : Into(a) = {} => mem[a] \in Octet
  BY DEF TypeOK
<1>3. \A a : Field(v, 8 * Last(a), 8) \in Octet
  BY WordOps
<1>4. \A k \in Nat : Stored(k) => IsAddressAllowed(ByteIndex(x, k))
  OBVIOUS
<1>5. mem' \in [Addresses -> Octet]
  <2> HIDE DEF Into
  <2> QED BY <1>1, <1>2, <1>3
<1>6. ASSUME NEW a \in Addresses, mem'[a] # mem[a]
      PROVE \E k \in 0 .. n - 1 :
         IsAddressAllowed(ByteIndex(x, k)) /\ Location(ByteIndex(x, k)) = a
  <2>1. Into(a) # {}
    <3> HIDE DEF Into
    <3> QED BY <1>1, <1>6
  <2>2. PICK k \in Into(a) : TRUE
    BY <2>1
  <2> QED BY <2>2, <1>4
<1> QED BY <1>5, <1>6

(* Whatever is executed keeps the types, and changes bytes as a store does.*)
Turn ==
  /\ reg' \in [Index -> Word] /\ reg'[X0] = {}
  /\ pc' \in Word /\ trapped' \in BOOLEAN /\ (~trapped' => pc' \in Arena)
  /\ mem' \in [Addresses -> Octet]
  /\ \A a \in Addresses : mem'[a] # mem[a] =>
       \E x : IsAddressAllowed(x) /\ Location(x) = a

(* What an instruction may change, one case for each kind.                 *)
LEMMA ExecuteTurn ==
  ASSUME TypeOK, NEW i, Execute(i)
  PROVE Turn
<1> USE Fields
<1>0. /\ \A r \in Index : reg[r] \in Word
      /\ reg \in [Index -> Word] /\ reg[X0] = {} /\ pc \in Word
      /\ mem \in [Addresses -> Octet]
  BY DEF TypeOK
<1>1. CASE Alu(i)
  <2>1. AluOp(i.op, reg[Rs1(i.raw)],
              IF i.op \in DOMAIN Immediates THEN ImmI(i.raw) ELSE reg[Rs2(i.raw)]) \in Word
    BY <1>0, <1>1, AluWord DEF Alu
  <2>2. reg' \in [Index -> Word] /\ reg'[X0] = {}
    BY <2>1, <1>1, SetRegType DEF Alu
  <2> QED BY <2>2, <1>1, <1>0, LeaveType DEF Alu, Turn
<1>2. CASE Lui(i)
  <2>1. Low(reg[Rd(i.raw)], 12) \cup Shl(ImmU(i.raw), 12) \in Word
    BY <1>0, WordOps DEF Low, Word
  <2>2. reg' \in [Index -> Word] /\ reg'[X0] = {}
    BY <2>1, <1>2, SetRegType DEF Lui
  <2> QED BY <2>2, <1>2, <1>0, LeaveType DEF Lui, Turn
<1>3. CASE Auipc(i)
  <2>1. reg' \in [Index -> Word] /\ reg'[X0] = {}
    BY <1>3, WordOps, SetRegType DEF Auipc
  <2> QED BY <2>1, <1>3, <1>0, LeaveType DEF Auipc, Turn
<1>4. CASE LoadFrom(i)
  <2>1. reg' \in [Index -> Word] /\ reg'[X0] = {}
    BY <1>4, LoadedWord, SetRegType DEF LoadFrom
  <2> QED BY <2>1, <1>4, <1>0, LeaveType DEF LoadFrom, Turn
<1>5. ASSUME i.op \in DOMAIN Stores, StoreBytes(Index0(i), Width(i.op), reg[Rs2(i.raw)])
      PROVE /\ mem' \in [Addresses -> Octet]
            /\ \A a \in Addresses : mem'[a] # mem[a] =>
                 \E x : IsAddressAllowed(x) /\ Location(x) = a
  <2>1. Width(i.op) \in {1, 2, 4}
    BY <1>5, OpNames DEF Width
  <2> QED BY <2>1, <1>5, StoreType
<1>6. CASE StoreTo(i)
  BY <1>5, <1>6, <1>0, LeaveType DEF StoreTo, Turn
<1>7. CASE Jal(i)
  <2>1. reg' \in [Index -> Word] /\ reg'[X0] = {}
    BY <1>7, WordOps, SetRegType DEF Jal
  <2> QED BY <2>1, <1>7, <1>0, LeaveType DEF Jal, Turn
<1>8. CASE Jalr(i)
  <2>1. reg' \in [Index -> Word] /\ reg'[X0] = {}
    BY <1>8, WordOps, SetRegType DEF Jalr
  <2> QED BY <2>1, <1>8, <1>0, LeaveType DEF Jalr, Turn
<1>9. CASE BranchTo(i)
  BY <1>9, <1>0, LeaveType DEF BranchTo, Turn
<1>10. CASE Forbidden(i)
  BY <1>10, <1>5, <1>0 DEF Forbidden, Turn
<1> QED BY <1>1, <1>2, <1>3, <1>4, <1>6, <1>7, <1>8, <1>9, <1>10 DEF Execute

LEMMA NextTurn ==
  ASSUME TypeOK, NextOpcode
  PROVE /\ Turn
        /\ useNewMemory' = useNewMemory /\ turns' = turns + 1 /\ turns < MaxTurns
<1>1. CASE Execute(Fetched)
  BY <1>1, ExecuteTurn DEF NextOpcode
<1>2. CASE NoInstruction
  <2>1. \A a : mem'[a] = mem[a]
    BY <1>2 DEF NoInstruction
  <2> QED BY <2>1, <1>2 DEF NoInstruction, NextOpcode, TypeOK, Turn
<1> QED BY <1>1, <1>2 DEF NextOpcode

-----------------------------------------------------------------------------
(***************************************************************************)
(* The theorems about turns.                                               *)
(***************************************************************************)

LEMMA InitType == Init => TypeOK /\ PcInArena
<1> SUFFICES ASSUME Init PROVE TypeOK /\ PcInArena
  OBVIOUS
<1>1. {} \in Word /\ {} \in Arena
  BY DEF Word, Arena
<1>2. reg \in [Index -> Word] /\ reg[X0] = {} /\ mem \in [Addresses -> Octet]
  BY CpuAssumption DEF Init
<1>3. 0 \in 0 .. MaxTurns
  BY CpuAssumption
<1> QED BY <1>1, <1>2, <1>3 DEF Init, TypeOK, PcInArena

LEMMA NextType == TypeOK /\ PcInArena /\ [Next]_vars => TypeOK' /\ PcInArena'
<1> SUFFICES ASSUME TypeOK, PcInArena, [Next]_vars PROVE TypeOK' /\ PcInArena'
  OBVIOUS
<1>1. CASE Next
  BY <1>1, NextTurn, CpuAssumption DEF Next, Turn, TypeOK, PcInArena
<1>2. CASE UNCHANGED vars
  BY <1>2 DEF vars, TypeOK, PcInArena
<1> QED BY <1>1, <1>2

(* Registers and the pc are words of 32 bits and bytes have eight whatever *)
(* is executed, and x0 stays zero though instructions write to it.         *)
(* (CpuStateRiscV.setReg)                                                  *)
THEOREM TypeCorrect == Spec => []TypeOK
<1>1. Spec => [](TypeOK /\ PcInArena)
  BY InitType, NextType, PTL DEF Spec
<1> QED BY <1>1, PTL

(* A warrior that was not ended has its pc in the arena.                   *)
(* (Warrior.nextOpcode)                                                    *)
THEOREM PcStaysInArena == Spec => []PcInArena
<1>1. Spec => [](TypeOK /\ PcInArena)
  BY InitType, NextType, PTL DEF Spec
<1> QED BY <1>1, PTL

(* Only bytes of the warrior's regions change, or in the old mode of the   *)
(* arena, also by a store that fails half way.  (RestrictedMemory)         *)
THEOREM KeepsToItsRegions == Spec => KeepsToRegions
<1>1. ASSUME TypeOK, [Next]_vars, NEW a \in Addresses, mem'[a] # mem[a]
      PROVE a \in IF useNewMemory THEN Allowed ELSE Arena
  <2>1. NextOpcode
    BY <1>1 DEF Next, vars
  <2>2. PICK x : IsAddressAllowed(x) /\ Location(x) = a
    BY <1>1, <2>1, NextTurn DEF Turn
  <2>3. Low(x, ArenaBits) \in Arena
    BY DEF Low, Arena
  <2> QED BY <2>2, <2>3 DEF IsAddressAllowed, Location
<1>2. TypeOK /\ [Next]_vars =>
        [\A a \in Addresses : mem'[a] # mem[a] =>
           a \in IF useNewMemory THEN Allowed ELSE Arena]_vars
  BY <1>1
<1> QED BY <1>2, TypeCorrect, PTL DEF Spec, KeepsToRegions

-----------------------------------------------------------------------------
(***************************************************************************)
(* The memory, byte by byte and as it is documented.                       *)
(***************************************************************************)

(* The bytes of a half word or word, counted from its address on, are      *)
(* where the code finds them, though it adds one to each byte's address    *)
(* anew.                                                                   *)
LEMMA Places ==
  ASSUME NEW a \in Word, NEW k \in 0 .. 3
  PROVE Place(a, k) = Location(ByteIndex(a, k))
<1>1. CASE k = 0
  BY <1>1, PlusZero DEF Place, Location, ByteIndex
<1>2. CASE k = 1
  BY <1>2 DEF Place, Location, ByteIndex, Next1
<1>3. CASE k = 2
  BY <1>3 DEF Place, Location, ByteIndex
<1>4. CASE k = 3
  <2>1. ByteIndex(a, 3) = Plus(a, Three)
    BY PlusThree DEF ByteIndex, Next1, One, Two, Three
  <2> QED BY <1>4, <2>1 DEF Place, Location
<1> QED BY <1>1, <1>2, <1>3, <1>4

(* An access of n bytes is allowed if and only if every byte of it is.     *)
LEMMA FitsAllowed ==
  ASSUME NEW a \in Word, NEW n \in {1, 2, 4}
  PROVE Fits(a, n) <=> AllAllowed(a, n)
<1>1. \A k \in 0 .. n - 1 : k \in 0 .. 3
  OBVIOUS
<1>2. CASE useNewMemory
  <2>1. \A k \in 0 .. n - 1 : Place(a, k) = ByteIndex(a, k)
    BY <1>1, <1>2, Places DEF Location
  <2> QED BY <1>2, <2>1 DEF Fits, AllAllowed, IsAddressAllowed
<1>3. CASE ~useNewMemory
  BY <1>3 DEF Fits, AllAllowed, IsAddressAllowed
<1> QED BY <1>2, <1>3

(* An allowed byte has a place in memory.                                  *)
LEMMA PlaceInMemory ==
  ASSUME NEW a \in Word, NEW n \in {1, 2, 4}, Fits(a, n), NEW k \in 0 .. n - 1
  PROVE Place(a, k) \in Addresses
<1>1. CASE useNewMemory
  BY <1>1, CpuAssumption DEF Fits
<1>2. CASE ~useNewMemory
  <2>1. \A x : Low(x, ArenaBits) \in Addresses
    BY CpuAssumption DEF Low, Addresses
  <2> QED BY <1>2, <2>1 DEF Place
<1> QED BY <1>1, <1>2

(* Different bytes of a word are at different places.                      *)
LEMMA PlacesApart ==
  ASSUME NEW a \in Word, NEW j \in 0 .. 3, NEW k \in 0 .. 3, Place(a, j) = Place(a, k)
  PROVE j = k
<1> DEFINE d(i) == <<{}, One, Two, Three>>[i + 1]
<1>1. \A i \in 0 .. 3 : d(i) \in SUBSET {0, 1}
  BY DEF One, Two, Three
<1>2. \A x : \A b \in {0, 1} : b \in Low(x, ArenaBits) <=> b \in x
  BY CpuAssumption DEF Low
<1>3. \A i \in 0 .. 3 : \A b \in {0, 1} : b \in Place(a, i) <=> b \in Plus(a, d(i))
  BY <1>2 DEF Place
<1>4. 0 \in d(j) <=> 0 \in d(k)
  <2> HIDE DEF d
  <2> QED BY <1>1, <1>3, LowBitsOfPlus
<1>5. 1 \in d(j) <=> 1 \in d(k)
  <2> HIDE DEF d
  <2> QED BY <1>1, <1>3, <1>4, LowBitsOfPlus
<1> QED BY <1>4, <1>5 DEF One, Two, Three

(* The sizes of accesses, spelled out.                                     *)
LEMMA ReadBytes ==
  ASSUME NEW a
  PROVE /\ Read(a, 1) = Shl(mem[Place(a, 0)], 0)
        /\ Read(a, 2) = Shl(mem[Place(a, 0)], 0) \cup Shl(mem[Place(a, 1)], 8)
        /\ Read(a, 4) = Shl(mem[Place(a, 0)], 0) \cup Shl(mem[Place(a, 1)], 8)
                        \cup Shl(mem[Place(a, 2)], 16) \cup Shl(mem[Place(a, 3)], 24)
BY DEF Read

(* The bytes that are loaded one by one are the halfword or word there.    *)
LEMMA LoadsRead ==
  ASSUME TypeOK, NEW a \in Word
  PROVE /\ Fits(a, 1) => LoadByte(a) = SignFrom(Read(a, 1), 7) /\ Low(LoadByte(a), 8) = Read(a, 1)
        /\ Fits(a, 2) => /\ LoadHalfWord(a) = SignFrom(Read(a, 2), 15)
                         /\ Low(LoadHalfWord(a), 16) = Read(a, 2)
                         /\ Read(a, 2) \in Half
        /\ Fits(a, 4) => LoadWord(a) = Read(a, 4)
<1> DEFINE m(k) == mem[Place(a, k)]
<1>1. /\ LoadByte(a) = Byte(m(0)) /\ LoadByte(Next1(a)) = Byte(m(1))
      /\ LoadByte(Plus(a, Two)) = Byte(m(2)) /\ LoadByte(Next1(Plus(a, Two))) = Byte(m(3))
  <2>1. \A k \in 0 .. 3 : LoadByte(ByteIndex(a, k)) = Byte(m(k))
    BY Places DEF LoadByte
  <2>2. /\ ByteIndex(a, 0) = a /\ ByteIndex(a, 1) = Next1(a)
        /\ ByteIndex(a, 2) = Plus(a, Two) /\ ByteIndex(a, 3) = Next1(Plus(a, Two))
    BY DEF ByteIndex
  <2> QED BY <2>1, <2>2
<1>2. \A n \in {1, 2, 4} : Fits(a, n) => \A k \in 0 .. n - 1 : m(k) \in Octet
  BY PlaceInMemory DEF TypeOK
<1> HIDE DEF m
<1>3. /\ Read(a, 1) = Shl(m(0), 0) /\ Read(a, 2) = Shl(m(0), 0) \cup Shl(m(1), 8)
      /\ Read(a, 4) = Shl(m(0), 0) \cup Shl(m(1), 8) \cup Shl(m(2), 16) \cup Shl(m(3), 24)
  BY ReadBytes DEF m
<1>4. ASSUME Fits(a, 1)
      PROVE LoadByte(a) = SignFrom(Read(a, 1), 7) /\ Low(LoadByte(a), 8) = Read(a, 1)
  <2>1. m(0) \in Octet
    BY <1>2, <1>4
  <2>2. Byte(m(0)) = SignFrom(Shl(m(0), 0), 7)
    BY <2>1 DEF Octet, Byte, SignFrom, Shl, Bits
  <2>3. Low(Byte(m(0)), 8) = Shl(m(0), 0)
    BY <2>1 DEF Octet, Byte, SignFrom, Shl, Bits, Low
  <2> QED BY <2>2, <2>3, <1>1, <1>3
<1>5. ASSUME NEW v \in Octet, NEW w \in Octet
      PROVE LET h == Short(Low(Byte(v), 8) \cup Shl(Byte(w), 8))
                r == Shl(v, 0) \cup Shl(w, 8)
            IN h = SignFrom(r, 15) /\ Low(h, 16) = r /\ r \in Half
  <2>1. Low(Byte(v), 8) = v
    <3>1. v \subseteq 0 .. 7
      BY DEF Octet
    <3>2. \A i \in 0 .. 7 : i \in Low(Byte(v), 8) <=> i \in v
      BY DEF Byte, SignFrom, Bits, Low
    <3>3. Low(Byte(v), 8) \subseteq 0 .. 7
      BY DEF Low
    <3> QED BY <3>1, <3>2, <3>3
  <2>2. Short(v \cup Shl(Byte(w), 8)) = SignFrom(Shl(v, 0) \cup Shl(w, 8), 15)
    BY DEF Octet, Byte, Short, SignFrom, Shl, Bits
  <2>3. Shl(v, 0) \cup Shl(w, 8) \in Half
    BY DEF Octet, Shl, Bits, Half
  <2>4. ASSUME NEW x \in Half PROVE Low(SignFrom(x, 15), 16) = x
    <3>1. x \subseteq 0 .. 15
      BY DEF Half
    <3>2. \A i \in 0 .. 15 : i \in Low(SignFrom(x, 15), 16) <=> i \in x
      BY DEF Low, SignFrom, Bits
    <3>3. Low(SignFrom(x, 15), 16) \subseteq 0 .. 15
      BY DEF Low
    <3> QED BY <3>1, <3>2, <3>3
  <2> QED BY <2>1, <2>2, <2>3, <2>4
<1>6. ASSUME Fits(a, 2)
      PROVE /\ LoadHalfWord(a) = SignFrom(Read(a, 2), 15)
            /\ Low(LoadHalfWord(a), 16) = Read(a, 2) /\ Read(a, 2) \in Half
  <2>1. m(0) \in Octet /\ m(1) \in Octet
    BY <1>2, <1>6
  <2> QED BY <2>1, <1>1, <1>3, <1>5 DEF LoadHalfWord
<1>7. ASSUME Fits(a, 4)
      PROVE LoadWord(a) = Read(a, 4)
  <2>1. m(0) \in Octet /\ m(1) \in Octet /\ m(2) \in Octet /\ m(3) \in Octet
    BY <1>2, <1>7
  <2>2. Low(LoadHalfWord(a), 16) = Shl(m(0), 0) \cup Shl(m(1), 8)
    BY <2>1, <1>1, <1>5 DEF LoadHalfWord
  <2>3. LoadHalfWord(Plus(a, Two)) = SignFrom(Shl(m(2), 0) \cup Shl(m(3), 8), 15)
    BY <2>1, <1>1, <1>5 DEF LoadHalfWord
  <2>4. Shl(SignFrom(Shl(m(2), 0) \cup Shl(m(3), 8), 15), 16) = Shl(m(2), 16) \cup Shl(m(3), 24)
    BY <2>1 DEF Octet, SignFrom, Shl, Bits
  <2> QED BY <2>2, <2>3, <2>4, <1>3 DEF LoadWord
<1> QED BY <1>4, <1>6, <1>7

(* A store of allowed bytes writes the word.                               *)
LEMMA StoreWritten ==
  ASSUME TypeOK, NEW a \in Word, NEW n \in {1, 2, 4}, NEW v,
         AllAllowed(a, n), StoreBytes(a, n, v)
  PROVE mem' = Written(a, n, v)
<1> DEFINE Stored(k) == \A j \in 0 .. k : IsAddressAllowed(ByteIndex(a, j))
           Into(x) == {k \in 0 .. n - 1 : Stored(k) /\ Location(ByteIndex(a, k)) = x}
           Last(x) == CHOOSE k \in Into(x) : \A j \in Into(x) : j <= k
           Here4(x) == CHOOSE k \in 0 .. n - 1 : Place(a, k) = x
<1>1. \A x : Into(x) = {k \in 0 .. n - 1 : Place(a, k) = x}
  <2>1. \A k \in 0 .. n - 1 : Stored(k) /\ k \in 0 .. 3
    BY DEF AllAllowed
  <2> QED BY <2>1, Places
<1>2. ASSUME NEW x, Into(x) # {} PROVE Last(x) = Here4(x)
  <2>1. PICK k \in 0 .. n - 1 : Place(a, k) = x
    BY <1>1, <1>2
  <2>2. \A j \in 0 .. n - 1 : Place(a, j) = x => j = k
    BY <2>1, PlacesApart
  <2>3. Into(x) = {k}
    BY <1>1, <2>1, <2>2
  <2>4. Here4(x) = k
    BY <2>1, <2>2
  <2>5. Last(x) = k
    <3> HIDE DEF Into
    <3> QED BY <2>3
  <2> QED BY <2>4, <2>5
<1>3. mem' = [x \in Addresses |-> IF Into(x) = {} THEN mem[x] ELSE Field(v, 8 * Last(x), 8)]
  BY DEF StoreBytes
<1>4. \A x : Into(x) # {} <=> \E k \in 0 .. n - 1 : Place(a, k) = x
  BY <1>1
<1>5. Written(a, n, v) = [x \in Addresses |-> IF \E k \in 0 .. n - 1 : Place(a, k) = x
                                              THEN Field(v, 8 * Here4(x), 8) ELSE mem[x]]
  BY DEF Written, TypeOK
<1> HIDE DEF Into, Last, Here4
<1> QED BY <1>2, <1>3, <1>4, <1>5

-----------------------------------------------------------------------------
(***************************************************************************)
(* Registers, results and comparisons.                                     *)
(***************************************************************************)

(* A result is written to the register and nothing else changes.           *)
LEMMA SetRegResult ==
  ASSUME TypeOK, NEW r \in Index, NEW v, SetReg(r, v)
  PROVE Result(r, v)
BY DEF TypeOK, SetReg, Result, X0, Index

(* Java has no unsigned comparison: the code moves both sides by 2^31 and  *)
(* compares them signed. (InstructionRunner.sltiu, bltu)                   *)
LEMMA UnsignedLess ==
  ASSUME NEW v \in Word, NEW w \in Word
  PROVE LessUnsigned(v, w) <=> Unsigned(v, w)
<1> DEFINE x == Xor(v, {31})
           y == Xor(w, {31})
<1>1. Plus(v, SignBit) = x /\ Plus(w, SignBit) = y
  BY PlusSign DEF SignBit
<1>2. Xor(x, y) = Xor(v, w)
  BY DEF Xor
<1>3. \A i \in Xor(v, w) : (IF i = 31 THEN i \in x ELSE i \in y) <=> i \in w \ v
  BY DEF Xor
<1>4. w \ v \subseteq Xor(v, w)
  BY DEF Xor
<1> HIDE DEF x, y
<1> QED BY <1>1, <1>2, <1>3, <1>4 DEF LessUnsigned, Less, Unsigned

(* A shift sees the low five bits of its amount only.                      *)
LEMMA ShiftBy ==
  ASSUME NEW op \in Shifts, NEW v, NEW w, NEW z, Amount(w) = Amount(z)
  PROVE AluOp(op, v, w) = Computed(op, v, z)
BY DEF AluOp, Computed, Shifts

(* Every operation computes what the manual says.                          *)
LEMMA AluComputed ==
  ASSUME NEW op \in DOMAIN Immediates \cup DOMAIN Registers, NEW v \in Word, NEW w \in Word
  PROVE AluOp(op, v, w) = Computed(op, v, w)
BY UnsignedLess, OpNames DEF AluOp, Computed, OneIf, Truth

(* Every branch is taken when the manual says.                             *)
LEMMA TakenCompared ==
  ASSUME NEW op \in DOMAIN Branches, NEW v \in Word, NEW w \in Word
  PROVE Taken(op, v, w) <=> Compared(op, v, w)
BY UnsignedLess, OpNames DEF Taken, Compared

-----------------------------------------------------------------------------
(***************************************************************************)
(* Every turn as documented.  x is what the decoder made of the code, and  *)
(* i what the code means.                                                  *)
(***************************************************************************)

(* The pc moves past the instruction, or to the target of a jump, which    *)
(* the runner first sets back by the size that is added afterwards.        *)
LEMMA Leaves ==
  ASSUME NEW x, NEW i, x.size = i.size, i.size \in {Two, Four}
  PROVE /\ Leave(pc, x) => Goes(Following(i))
        /\ \A t \in Word : Leave(Minus(t, i.size), x) => Goes(t)
<1>1. \A t \in Word : Plus(Minus(t, i.size), i.size) = t
  <2>1. 1 \in Bits /\ 2 \in Bits
    BY DEF Bits
  <2>2. \A t \in Word : Plus(Minus(t, {1}), {1}) = t /\ Plus(Minus(t, {2}), {2}) = t
    BY <2>1, MinusPlus
  <2> QED BY <2>2 DEF Two, Four
<1> QED BY <1>1 DEF Leave, Goes, Following

(* Each kind of instruction does what the manual says, given that the      *)
(* decoded operands agree.                                                 *)
LEMMA DoesAlu ==
  ASSUME TypeOK, NEW x, NEW i, Agrees(x, i), i.size \in {Two, Four}, Alu(x)
  PROVE Compute(i)
<1> DEFINE w == IF x.op \in DOMAIN Immediates THEN ImmI(x.raw) ELSE reg[Rs2(x.raw)]
           z == IF i.op \in DOMAIN Registers THEN reg[i.rs2] ELSE i.imm
<1>1. /\ i.op = x.op /\ x.op \in DOMAIN Immediates \cup DOMAIN Registers
      /\ i.rd = Rd(x.raw) /\ i.rs1 = Rs1(x.raw)
  BY OpNames DEF Agrees, Alu, Upper
<1>2. reg[Rs1(x.raw)] \in Word /\ w \in Word
  BY Fields DEF TypeOK
<1>3. IF x.op \in Shifts THEN Amount(w) = Amount(z) ELSE w = z
  BY <1>1, OpNames DEF Agrees, Shifts
<1> HIDE DEF w, z
<1>4. AluOp(x.op, reg[Rs1(x.raw)], w) = Computed(i.op, reg[i.rs1], z)
  BY <1>1, <1>2, <1>3, ShiftBy, AluComputed
<1>5. Result(i.rd, Computed(i.op, reg[i.rs1], z))
  BY <1>1, <1>4, Fields, SetRegResult DEF Alu, w
<1> QED BY <1>1, <1>5, Leaves DEF Alu, Compute, z, Agrees

LEMMA DoesUpper ==
  ASSUME TypeOK, NEW x, NEW i, Agrees(x, i), i.size \in {Two, Four}, Lui(x) \/ Auipc(x),
         i.op = "lui" => Low(reg[i.rd], 12) = {}
  PROVE LoadUpper(i)
<1>1. /\ i.op = x.op /\ i.op \in Upper
      /\ i.rd = Rd(x.raw) /\ i.imm = Shl(ImmU(x.raw), 12)
  BY OpNames DEF Agrees, Lui, Auipc, Upper
<1>2. CASE Lui(x)
  <2>1. SetReg(i.rd, i.imm) /\ i.op = "lui"
    BY <1>1, <1>2 DEF Lui
  <2> QED BY <1>1, <1>2, <2>1, Fields, SetRegResult, Leaves DEF Lui, LoadUpper, Agrees
<1>3. CASE Auipc(x)
  <2>1. SetReg(i.rd, Plus(pc, i.imm)) /\ i.op = "auipc"
    BY <1>1, <1>3 DEF Auipc
  <2> QED BY <1>1, <1>3, <2>1, Fields, SetRegResult, Leaves DEF Auipc, LoadUpper, Agrees
<1> QED BY <1>2, <1>3

(* The address a load or a store goes to.                                  *)
LEMMA Address ==
  ASSUME TypeOK, NEW x, NEW i, Agrees(x, i), i.op \in DOMAIN Loads \cup DOMAIN Stores
  PROVE /\ Index0(x) = Plus(reg[i.rs1], i.imm) /\ Index0(x) \in Word
        /\ Width(x.op) = Sizes[i.op] /\ Sizes[i.op] \in {1, 2, 4}
<1>1. Index0(x) = Plus(reg[i.rs1], i.imm)
  BY OpNames DEF Index0, Agrees, Upper
<1>2. Width(x.op) = Sizes[i.op] /\ Sizes[i.op] \in {1, 2, 4}
  BY OpNames DEF Width, Sizes, Agrees
<1> QED BY <1>1, <1>2, WordOps

LEMMA DoesLoad ==
  ASSUME TypeOK, NEW x, NEW i, Agrees(x, i), i.size \in {Two, Four}, LoadFrom(x)
  PROVE Load(i)
<1> DEFINE a == Plus(reg[i.rs1], i.imm)
           n == Sizes[i.op]
<1>1. i.op = x.op /\ i.op \in DOMAIN Loads /\ i.rd = Rd(x.raw)
  BY OpNames DEF Agrees, LoadFrom
<1>2. Index0(x) = a /\ a \in Word /\ Width(x.op) = n /\ n \in {1, 2, 4}
  BY <1>1, Address
<1> HIDE DEF a
<1>3. Fits(a, n)
  BY <1>2, FitsAllowed DEF LoadFrom
<1>4. Loaded(x.op, a) =
        IF i.op \in {"lb", "lh"} THEN SignFrom(Read(a, n), 8 * n - 1) ELSE Read(a, n)
  <2>1. CASE i.op \in {"lb", "lbu"}
    <3>1. n = 1
      BY <2>1 DEF Sizes
    <3> QED BY <1>1, <1>2, <1>3, <2>1, <3>1, LoadsRead DEF Loaded
  <2>2. CASE i.op \in {"lh", "lhu"}
    <3>1. n = 2
      BY <2>2 DEF Sizes
    <3> QED BY <1>1, <1>2, <1>3, <2>2, <3>1, LoadsRead DEF Loaded
  <2>3. CASE i.op = "lw"
    <3>1. n = 4
      BY <2>3 DEF Sizes
    <3> QED BY <1>1, <1>2, <1>3, <2>3, <3>1, LoadsRead DEF Loaded
  <2> QED BY <1>1, <2>1, <2>2, <2>3, OpNames
<1>5. SetReg(i.rd, Loaded(x.op, a))
  BY <1>1, <1>2 DEF LoadFrom
<1>6. Result(i.rd, IF i.op \in {"lb", "lh"} THEN SignFrom(Read(a, n), 8 * n - 1) ELSE Read(a, n))
  BY <1>1, <1>4, <1>5, Fields, SetRegResult
<1>7. Goes(Following(i)) /\ UNCHANGED mem
  BY Leaves DEF LoadFrom, Agrees
<1> QED BY <1>1, <1>3, <1>6, <1>7 DEF Load, a

LEMMA DoesStore ==
  ASSUME TypeOK, NEW x, NEW i, Agrees(x, i), i.size \in {Two, Four}, StoreTo(x)
  PROVE Store(i)
<1> DEFINE a == Plus(reg[i.rs1], i.imm)
           n == Sizes[i.op]
<1>1. i.op = x.op /\ i.op \in DOMAIN Stores /\ i.rs2 = Rs2(x.raw)
  BY OpNames DEF Agrees, StoreTo
<1>2. Index0(x) = a /\ a \in Word /\ Width(x.op) = n /\ n \in {1, 2, 4}
  BY <1>1, Address
<1> HIDE DEF a
<1>3. Fits(a, n)
  BY <1>2, FitsAllowed DEF StoreTo
<1>4. mem' = Written(a, n, reg[i.rs2])
  <2>1. AllAllowed(a, n) /\ StoreBytes(a, n, reg[i.rs2])
    BY <1>1, <1>2 DEF StoreTo
  <2> QED BY <2>1, <1>2, StoreWritten
<1>5. Goes(Following(i)) /\ UNCHANGED reg
  BY Leaves DEF StoreTo, Agrees
<1> QED BY <1>1, <1>3, <1>4, <1>5 DEF Store, a

LEMMA DoesJump ==
  ASSUME TypeOK, NEW x, NEW i, Agrees(x, i), i.size \in {Two, Four}, Jal(x) \/ Jalr(x),
         i.op = "jalr" => 0 \notin Plus(reg[i.rs1], i.imm)
  PROVE JumpTo(i)
<1>1. /\ i.op = x.op /\ i.op \in {"jal", "jalr"} /\ i.rd = Rd(x.raw)
  BY OpNames DEF Agrees, Jal, Jalr, Links
<1>2. Result(i.rd, Following(i))
  BY <1>1, Fields, SetRegResult DEF Jal, Jalr, Following, Agrees
<1>3. CASE Jal(x)
  <2>1. i.op = "jal" /\ Leave(Minus(Plus(pc, i.imm), i.size), x)
    BY <1>1, <1>3 DEF Jal, Jumped, Agrees
  <2>2. Goes(Plus(pc, i.imm))
    BY <2>1, WordOps, Leaves DEF Agrees
  <2> QED BY <1>1, <1>2, <1>3, <2>1, <2>2 DEF JumpTo, Jal
<1>4. CASE Jalr(x)
  <2>1. i.op = "jalr" /\ Leave(Minus(Plus(reg[i.rs1], i.imm), i.size), x)
    BY <1>1, <1>4, OpNames DEF Jalr, Agrees, Upper
  <2>2. Goes(Plus(reg[i.rs1], i.imm))
    BY <2>1, WordOps, Leaves DEF Agrees
  <2>3. Plus(reg[i.rs1], i.imm) \ {0} = Plus(reg[i.rs1], i.imm)
    BY <2>1
  <2> QED BY <1>1, <1>2, <1>4, <2>1, <2>2, <2>3 DEF JumpTo, Jalr
<1> QED BY <1>3, <1>4

LEMMA DoesBranch ==
  ASSUME TypeOK, NEW x, NEW i, Agrees(x, i), i.size \in {Two, Four}, BranchTo(x)
  PROVE Branch(i)
<1>1. /\ i.op = x.op /\ i.op \in DOMAIN Branches /\ i.rs1 = Rs1(x.raw) /\ i.rs2 = Rs2(x.raw)
      /\ i.imm = ImmSB(x.raw)
  BY OpNames DEF Agrees, BranchTo, Upper
<1>2. reg[i.rs1] \in Word /\ reg[i.rs2] \in Word
  BY <1>1, Fields DEF TypeOK
<1>3. Taken(x.op, reg[Rs1(x.raw)], reg[Rs2(x.raw)]) <=> Compared(i.op, reg[i.rs1], reg[i.rs2])
  BY <1>1, <1>2, TakenCompared
<1>4. Compared(i.op, reg[i.rs1], reg[i.rs2]) => Goes(Plus(pc, i.imm))
  <2>1. Compared(i.op, reg[i.rs1], reg[i.rs2]) => Leave(Minus(Plus(pc, i.imm), i.size), x)
    BY <1>1, <1>3 DEF BranchTo, Jumped, Agrees
  <2> QED BY <2>1, WordOps, Leaves DEF Agrees
<1>5. ~Compared(i.op, reg[i.rs1], reg[i.rs2]) => Goes(Following(i))
  BY <1>3, Leaves DEF BranchTo, Agrees
<1> QED BY <1>1, <1>4, <1>5 DEF Branch, BranchTo

LEMMA DoesTrap ==
  ASSUME TypeOK, NEW x, NEW i, Agrees(x, i), Forbidden(x)
  PROVE Trap(i)
<1> DEFINE a == Plus(reg[i.rs1], i.imm)
           n == Sizes[i.op]
<1>1. i.op = x.op /\ i.op \in DOMAIN Loads \cup DOMAIN Stores
  BY DEF Agrees, Forbidden
<1>2. Index0(x) = a /\ a \in Word /\ Width(x.op) = n /\ n \in {1, 2, 4} /\ i.op \in DOMAIN Sizes
  BY <1>1, Address, OpNames DEF Sizes
<1> HIDE DEF a
<1>3. ~Fits(a, n)
  BY <1>2, FitsAllowed DEF Forbidden
<1>4. ASSUME NEW b \in DOMAIN mem, mem'[b] # mem[b]
      PROVE \E k \in 0 .. 3 : b = Place(a, k)
  <2>1. StoreBytes(a, n, reg[Rs2(x.raw)]) /\ b \in Addresses
    BY <1>2, <1>4 DEF Forbidden, TypeOK
  <2>2. PICK k \in 0 .. n - 1 : Location(ByteIndex(a, k)) = b
    BY <2>1, <1>2, <1>4, StoreType
  <2> QED BY <2>2, <1>2, Places
<1> QED BY <1>1, <1>2, <1>3, <1>4 DEF Forbidden, Trap, a

(* So does whatever is executed.                                           *)
LEMMA ExecuteDoes ==
  ASSUME TypeOK, NEW x, NEW i, Agrees(x, i), i.size \in {Two, Four}, Execute(x),
         i.op = "lui" => Low(reg[i.rd], 12) = {},
         i.op = "jalr" => 0 \notin Plus(reg[i.rs1], i.imm)
  PROVE Does(i)
BY DoesAlu, DoesUpper, DoesLoad, DoesStore, DoesJump, DoesBranch, DoesTrap
   DEF Execute, Does

(* And so does a turn: an instruction that is fetched from memory, as a    *)
(* half word or as a word, is decoded to operands that agree.              *)
LEMMA TurnDoes ==
  ASSUME TypeOK, NextOpcode, ~Unspecified, ~Departs(Here)
  PROVE Does(Here)
<1> DEFINE r == Read(pc, 2)
<1>0. pc \in Word /\ (Fits(pc, 2) <=> HalfLoads) /\ (Fits(pc, 4) <=> Loads4)
  BY FitsAllowed DEF TypeOK, HalfLoads, Loads4
<1>1. CASE Fits(pc, 2) /\ Low(r, 2) # Three
  <2>1. r \in Half /\ LoadHalfWord(pc) = Short(r) /\ Here = CompressedMeaning(r)
    BY <1>0, <1>1, LoadsRead DEF Short, Here
  <2>2. ~Reserved(r) /\ ~DepartsHalfWord(r)
    BY <1>1 DEF Unspecified, Departs
  <2>3. Here.size = Two
    BY <2>1 DEF CompressedMeaning, Operands
  <2>4. Agrees(Compact, Here)
    <3>1. Here.op \in DOMAIN Branches => ~LosesBits(Here, 6)
      BY <2>3 DEF Departs
    <3> QED BY <2>1, <2>2, <3>1, <1>1, HalfAgrees DEF Compact
  <2>5. Compact # None
    <3>1. "none" \notin DOMAIN Opcodes
      BY OpcodeNames, OpNames DEF Upper
    <3> QED BY <2>4, <3>1 DEF Agrees, None, Instruction
  <2>6. Execute(Compact)
    BY <1>0, <1>1, <2>5 DEF NextOpcode, NoInstruction, Fetched
  <2> QED BY <2>3, <2>4, <2>6, ExecuteDoes DEF Departs
<1>2. CASE Fits(pc, 2) /\ Low(r, 2) = Three
  <2>1. r \in Half /\ LoadHalfWord(pc) = Short(r)
    BY <1>0, <1>2, LoadsRead DEF Short
  <2>2. Low(Short(r), 2) = Three
    BY <1>2, <2>1, HalfFields
  <2>3. Compact = None
    BY <2>1, <2>2, Distinct DEF Compact, DecodeCompressed
  <2>4. CASE ~Fits(pc, 4)
    <3>1. Here.op = "none"
      BY <1>2, <2>4 DEF Here, Operands
    <3>2. NoInstruction
      BY <1>0, <2>3, <2>4 DEF NextOpcode
    <3> QED BY <3>1, <3>2, OpNames DEF Does, Trap, NoInstruction
  <2>5. CASE Fits(pc, 4)
    <3>1. Here = Meaning(Read(pc, 4)) /\ Fetched = Decode(Read(pc, 4))
      BY <1>0, <1>2, <2>3, <2>5, LoadsRead DEF Here, Fetched
    <3>2. CASE Here.op \in DOMAIN Opcodes
      <4>1. Here.size = Four
        BY <3>1 DEF Meaning, Operands
      <4>2. Here.op \in DOMAIN Branches => ~LosesBits(Here, 8)
        BY <4>1 DEF Departs, Two, Four
      <4>3. Agrees(Fetched, Here)
        BY <3>1, <3>2, <4>2, AgreesWord
      <4>4. Fetched # None
        <5>1. "none" \notin DOMAIN Opcodes
          BY OpcodeNames, OpNames DEF Upper
        <5> QED BY <4>3, <5>1 DEF Agrees, None, Instruction
      <4>5. Execute(Fetched)
        BY <1>0, <1>2, <2>5, <4>4 DEF NextOpcode, NoInstruction
      <4> QED BY <4>1, <4>3, <4>5, ExecuteDoes DEF Departs
    <3>3. CASE Here.op \notin DOMAIN Opcodes
      <4>1. Here.op = Operation(Read(pc, 4)) /\ Here.op \in Environment
        <5>1. Here.op = Operation(Read(pc, 4))
          BY <3>1 DEF Meaning, Operands
        <5>2. DOMAIN Listing = DOMAIN Opcodes \cup {"fence"} \cup Environment
          BY OpcodeNames, OpNames DEF Listing, Environment, Upper
        <5>3. Here.op \in DOMAIN Listing \cup {"reserved"}
          BY <5>1 DEF Operation
        <5> QED BY <3>3, <5>1, <5>2, <5>3 DEF Unspecified, Departs
      <4>2. Fetched = None
        BY <3>1, <4>1, DecodesListed
      <4>3. NoInstruction
        <5>1. ~Execute(None)
          BY OpNames DEF Execute, None, Instruction, Alu, Lui, Auipc, LoadFrom, StoreTo,
                         Jal, Jalr, BranchTo, Forbidden
        <5> QED BY <4>2, <5>1 DEF NextOpcode
      <4> QED BY <4>1, <4>3, OpNames DEF Does, Trap, NoInstruction, Environment
    <3> QED BY <3>2, <3>3
  <2> QED BY <2>4, <2>5
<1>3. CASE ~Fits(pc, 2)
  <2>1. ~Fits(pc, 4)
    BY <1>3 DEF Fits
  <2>2. Here.op = "none"
    BY <1>3, <2>1 DEF Here, Operands
  <2>3. NoInstruction
    BY <1>0, <1>3 DEF NextOpcode
  <2> QED BY <2>2, <2>3, OpNames DEF Does, Trap, NoInstruction
<1> QED BY <1>1, <1>2, <1>3

(* Whatever the code, the registers and the memory, a turn does what the   *)
(* comments say of the instruction at the pc, but for the departures that  *)
(* are named: among all halfwords and words there is no other.             *)
(* (InstructionDecoderRv32c, InstructionDecoder, the formats,              *)
(* InstructionRunner, CpuRiscV.nextOpcode and Memory)                      *)
THEOREM EveryTurnAsDocumented == Spec => AsDocumented
<1>1. TypeOK /\ [Next]_vars =>
        [turns' # turns /\ ~Unspecified /\ ~Departs(Here) => Does(Here)]_vars
  BY TurnDoes DEF Next, vars
<1> QED BY <1>1, TypeCorrect, PTL DEF Spec, AsDocumented
=============================================================================
