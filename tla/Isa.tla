-------------------------------- MODULE Isa --------------------------------
(***************************************************************************)
(* What the instructions are to do, as the comments at the runner and the  *)
(* decoders say, or the manual of RISC-V they quote.  An instruction is    *)
(* here its operands: which it is, is looked up in the manual's listing,   *)
(* immediates are gathered from the code bit by bit, and no word is packed *)
(* in between.  Of Decoder only names and kinds of instructions are used.  *)
(***************************************************************************)
EXTENDS Compressed, Sequences

CONSTANTS
  ArenaBits,      (* the arena is the memory a pc may be in: 2^ArenaBits   *)
  Allowed         (* the addresses a warrior may use                       *)

VARIABLES
  reg, pc,        (* of the warrior                                        *)
  mem,            (* the core                                              *)
  trapped,        (* the warrior has met an exception, which ends it       *)
  useNewMemory    (* it is to keep to Allowed, or else loops around        *)

Arena == SUBSET (0 .. ArenaBits - 1)

(* Byte k from a on: all memory loops around to the arena in the old mode. *)
Place(a, k) ==
  LET x == Plus(a, <<{}, One, Two, Three>>[k + 1])
  IN IF useNewMemory THEN x ELSE Low(x, ArenaBits)

Fits(a, n) == useNewMemory => \A k \in 0 .. n - 1 : Place(a, k) \in Allowed
Read(a, n) == UNION {Shl(mem[Place(a, k)], 8 * k) : k \in 0 .. n - 1}
Written(a, n, w) ==
  [x \in DOMAIN mem |-> IF \E k \in 0 .. n - 1 : Place(a, k) = x
                        THEN Field(w, 8 * (CHOOSE k \in 0 .. n - 1 : Place(a, k) = x), 8)
                        ELSE mem[x]]

(* The bits of c that the sequence names, from position low upwards.       *)
Gather(c, low, bits) ==
  {i \in Bits : i - low + 1 \in DOMAIN bits /\ bits[i - low + 1] \in c}
Signed(c, low, bits) == SignFrom(Gather(c, low, bits), low + Len(bits) - 1)

Register(c, low) == Gather(c, 0, [i \in 1 .. 5 |-> low + i - 1])
ShortRegister(c, low) == Gather(c, 0, [i \in 1 .. 3 |-> low + i - 1]) \cup {3}
From(low, high) == [i \in 1 .. high - low + 1 |-> low + i - 1]

Operands(op, rd, rs1, rs2, imm, size) ==
  [op |-> op, rd |-> rd, rs1 |-> rs1, rs2 |-> rs2, imm |-> imm, size |-> size]

(* RV32I as the manual lists it: the ones of every instruction among the   *)
(* bits that tell it from others, which are the opcode, in most the three  *)
(* bits of funct3, in some the seven of funct7, in two the whole word.     *)
Listing ==
  [lui |-> {0, 1, 2, 4, 5}, auipc |-> {0, 1, 2, 4}, jal |-> {0, 1, 2, 3, 5, 6},
   jalr |-> {0, 1, 2, 5, 6},
   beq |-> {0, 1, 5, 6}, bne |-> {0, 1, 5, 6, 12}, blt |-> {0, 1, 5, 6, 14},
   bge |-> {0, 1, 5, 6, 12, 14}, bltu |-> {0, 1, 5, 6, 13, 14},
   bgeu |-> {0, 1, 5, 6, 12, 13, 14},
   lb |-> {0, 1}, lh |-> {0, 1, 12}, lw |-> {0, 1, 13}, lbu |-> {0, 1, 14},
   lhu |-> {0, 1, 12, 14},
   sb |-> {0, 1, 5}, sh |-> {0, 1, 5, 12}, sw |-> {0, 1, 5, 13},
   addi |-> {0, 1, 4}, slti |-> {0, 1, 4, 13}, sltiu |-> {0, 1, 4, 12, 13},
   xori |-> {0, 1, 4, 14}, ori |-> {0, 1, 4, 13, 14}, andi |-> {0, 1, 4, 12, 13, 14},
   slli |-> {0, 1, 4, 12}, srli |-> {0, 1, 4, 12, 14}, srai |-> {0, 1, 4, 12, 14, 30},
   add |-> {0, 1, 4, 5}, sub |-> {0, 1, 4, 5, 30}, sll |-> {0, 1, 4, 5, 12},
   slt |-> {0, 1, 4, 5, 13}, sltu |-> {0, 1, 4, 5, 12, 13}, xor |-> {0, 1, 4, 5, 14},
   srl |-> {0, 1, 4, 5, 12, 14}, sra |-> {0, 1, 4, 5, 12, 14, 30},
   or |-> {0, 1, 4, 5, 13, 14}, and |-> {0, 1, 4, 5, 12, 13, 14},
   fence |-> {0, 1, 2, 3}, ecall |-> {0, 1, 4, 5, 6}, ebreak |-> {0, 1, 4, 5, 6, 20}]

Environment == {"ecall", "ebreak"}

Selecting(op) ==
  IF op \in Environment THEN Bits
  ELSE 0 .. 6 \cup (IF op \in Upper \cup {"jal"} THEN {} ELSE 12 .. 14)
       \cup (IF op \in DOMAIN Registers \cup {"slli", "srli", "srai"} THEN 25 .. 31 ELSE {})

Listed(op, w) == w \cap Selecting(op) = Listing[op]

(* What no row has is reserved, or left to extensions.                     *)
Operation(w) ==
  IF \E op \in DOMAIN Listing : Listed(op, w)
  THEN CHOOSE op \in DOMAIN Listing : Listed(op, w) ELSE "reserved"

Meaning(w) ==
  LET op == Operation(w)
  IN Operands(op, Register(w, 7), Register(w, 15), Register(w, 20),
       IF op \in DOMAIN Stores THEN Signed(w, 0, From(7, 11) \o From(25, 31))
       ELSE IF op \in DOMAIN Branches
       THEN Signed(w, 1, From(8, 11) \o From(25, 30) \o <<7, 31>>)
       ELSE IF op \in Upper THEN Gather(w, 12, From(12, 31))
       ELSE IF op = "jal"
       THEN Signed(w, 1, From(21, 30) \o <<20>> \o From(12, 19) \o <<31>>)
       ELSE Signed(w, 0, From(20, 31)), Four)

(* Compressed instructions.  With(c, q, f) is a row of the table: the      *)
(* quadrant, in the lower two bits, and the upper three.                   *)
With(c, q, f) == Low(c, 2) = q /\ CFunct3(c) = f

Short1(c) == ShortRegister(c, 7)
Short2(c) == ShortRegister(c, 2)
Full1(c) == Register(c, 7)
Full2(c) == Register(c, 2)
Six(c) == Signed(c, 0, From(2, 6) \o <<12>>)
Offset(c) == Signed(c, 1, <<3, 4, 5, 11, 2, 7, 6, 9, 10, 8, 12>>)
BranchOffset(c) == Signed(c, 1, <<3, 4, 10, 11, 2, 5, 6, 12>>)
WordOffset(c) == Gather(c, 2, <<6, 10, 11, 12, 5>>)

ImmediateOp(c) ==
  IF CFunct2(c) = {} THEN "srli" ELSE IF CFunct2(c) = One THEN "srai" ELSE "andi"
RegisterOp(c) ==
  IF c \cap {5, 6} = {} THEN "sub" ELSE IF c \cap {5, 6} = {5} THEN "xor"
  ELSE IF c \cap {5, 6} = {6} THEN "or" ELSE "and"

IsEbreak(c) ==
  With(c, Two, Four) /\ Full1(c) = X0 /\ Full2(c) = X0 /\ 12 \in c

CompressedMeaning(c) ==
  IF With(c, {}, {}) THEN
    Operands("addi", Short2(c), SP, X0, Gather(c, 2, <<6, 5, 11, 12, 7, 8, 9, 10>>), Two)
  ELSE IF With(c, {}, Two) THEN Operands("lw", Short2(c), Short1(c), X0, WordOffset(c), Two)
  ELSE IF With(c, {}, {1, 2}) THEN Operands("sw", X0, Short1(c), Short2(c), WordOffset(c), Two)
  ELSE IF With(c, One, {}) THEN Operands("addi", Full1(c), Full1(c), X0, Six(c), Two)
  ELSE IF With(c, One, One) THEN Operands("jal", RA, X0, X0, Offset(c), Two)
  ELSE IF With(c, One, Two) THEN Operands("addi", Full1(c), X0, X0, Six(c), Two)
  ELSE IF With(c, One, Three) /\ Full1(c) = SP THEN
    Operands("addi", SP, SP, X0, Signed(c, 4, <<6, 2, 5, 3, 4, 12>>), Two)
  ELSE IF With(c, One, Three) THEN
    Operands("lui", Full1(c), X0, X0, Signed(c, 12, From(2, 6) \o <<12>>), Two)
  ELSE IF With(c, One, Four) /\ CFunct2(c) # Three THEN
    Operands(ImmediateOp(c), Short1(c), Short1(c), X0, Six(c), Two)
  ELSE IF With(c, One, Four) THEN
    Operands(RegisterOp(c), Short1(c), Short1(c), Short2(c), {}, Two)
  ELSE IF With(c, One, {0, 2}) THEN Operands("jal", X0, X0, X0, Offset(c), Two)
  ELSE IF With(c, One, {1, 2}) THEN
    Operands("beq", X0, Short1(c), X0, BranchOffset(c), Two)
  ELSE IF With(c, One, {0, 1, 2}) THEN
    Operands("bne", X0, Short1(c), X0, BranchOffset(c), Two)
  ELSE IF With(c, Two, {}) THEN Operands("slli", Full1(c), Full1(c), X0, Six(c), Two)
  ELSE IF With(c, Two, Two) THEN
    Operands("lw", Full1(c), SP, X0, Gather(c, 2, <<4, 5, 6, 12, 2, 3>>), Two)
  ELSE IF With(c, Two, Four) /\ Full2(c) # X0 THEN
    Operands("add", Full1(c), IF 12 \in c THEN Full1(c) ELSE X0, Full2(c), {}, Two)
  ELSE IF IsEbreak(c) THEN Operands("ebreak", X0, X0, X0, {}, Two)
  ELSE IF With(c, Two, Four) THEN
    Operands("jalr", IF 12 \in c THEN RA ELSE X0, Full1(c), X0, {}, Two)
  ELSE IF With(c, Two, {1, 2}) THEN
    Operands("sw", X0, SP, Full2(c), Gather(c, 2, <<9, 10, 11, 12, 7, 8>>), Two)
  ELSE Operands("none", X0, X0, X0, {}, Two)

(* Codes that the manual reserves, or has no effect for, and the comments  *)
(* exclude where they speak of them.                                       *)
Reserved(c) ==
  \/ With(c, {}, {}) /\ c \cap 5 .. 12 = {}
  \/ Low(c, 2) = {} /\ CFunct3(c) \notin {{}, Two, {1, 2}}
  \/ With(c, One, {}) /\ Full1(c) = X0 /\ Six(c) # {}
  \/ With(c, One, Three) /\ (Full1(c) = X0 \/ Six(c) = {})
  \/ With(c, One, Four) /\ CFunct2(c) \in {{}, One, Three} /\ 12 \in c
  \/ With(c, Two, {}) /\ 12 \in c
  \/ With(c, Two, Two) /\ Full1(c) = X0
  \/ With(c, Two, Four) /\ Full1(c) = X0 /\ ~IsEbreak(c)
  \/ Low(c, 2) = Two /\ CFunct3(c) \notin {{}, Two, Four, {1, 2}}

(* Halfwords that the decoder is known to take otherwise: C.NOP falls      *)
(* through to C.JAL and C.EBREAK to C.SWSP, and the immediates of C.ANDI   *)
(* and C.ADDI16SP are not extended.                                        *)
DepartsHalfWord(c) ==
  \/ With(c, One, {}) /\ Full1(c) = X0
  \/ IsEbreak(c)
  \/ With(c, One, Four) /\ CFunct2(c) = Two /\ 12 \in c
  \/ With(c, One, Three) /\ Full1(c) = SP /\ 12 \in c

(* An immediate that needs more than so many bits.                         *)
LosesBits(i, bits) == i.imm # SignFrom(i.imm, bits - 1)

-----------------------------------------------------------------------------
(***************************************************************************)
(* A step.  i is what the code at pc means.                                *)
(***************************************************************************)

Result(r, v) ==
  reg' = [x \in DOMAIN reg |-> IF x = X0 THEN {} ELSE IF x = r THEN v ELSE reg[x]]
Following(i) == Plus(pc, i.size)

(* A warrior dies of a pc outside the arena.                               *)
Goes(p) == pc' = p /\ trapped' = (p \notin Arena)
Truth(p) == IF p THEN One ELSE {}

Unsigned(v, w) == \E k \in w \ v : \A j \in Xor(v, w) : j <= k

Compared(op, v, w) ==
  \/ op = "beq" /\ v = w
  \/ op = "bne" /\ v # w
  \/ op = "blt" /\ Less(v, w)
  \/ op = "bge" /\ ~Less(v, w)
  \/ op = "bltu" /\ Unsigned(v, w)
  \/ op = "bgeu" /\ ~Unsigned(v, w)

Computed(op, v, w) ==
  IF op \in {"add", "addi"} THEN Plus(v, w) ELSE IF op = "sub" THEN Minus(v, w)
  ELSE IF op \in {"and", "andi"} THEN v \cap w
  ELSE IF op \in {"or", "ori"} THEN v \cup w
  ELSE IF op \in {"xor", "xori"} THEN Xor(v, w)
  ELSE IF op \in {"sll", "slli"} THEN Shl(v, Amount(w))
  ELSE IF op \in {"srl", "srli"} THEN ShrU(v, Amount(w))
  ELSE IF op \in {"sra", "srai"} THEN Shr(v, Amount(w))
  ELSE Truth(IF op \in {"slt", "slti"} THEN Less(v, w) ELSE Unsigned(v, w))

Compute(i) ==
  /\ i.op \in DOMAIN Immediates \cup DOMAIN Registers
  /\ Result(i.rd, Computed(i.op, reg[i.rs1],
                        IF i.op \in DOMAIN Registers THEN reg[i.rs2] ELSE i.imm))
  /\ Goes(Following(i)) /\ UNCHANGED mem

(* LUI places the immediate in the top 20 bits, "filling in the lowest 12  *)
(* bits with zeros"; AUIPC adds such a one to the pc.                      *)
LoadUpper(i) ==
  /\ i.op \in Upper
  /\ Result(i.rd, IF i.op = "lui" THEN i.imm ELSE Plus(pc, i.imm))
  /\ Goes(Following(i)) /\ UNCHANGED mem

Sizes == [lb |-> 1, lbu |-> 1, sb |-> 1, lh |-> 2, lhu |-> 2, sh |-> 2, lw |-> 4, sw |-> 4]

Load(i) ==
  LET a == Plus(reg[i.rs1], i.imm)
      n == Sizes[i.op]
  IN /\ i.op \in DOMAIN Loads /\ Fits(a, n)
     /\ Result(i.rd, IF i.op \in {"lb", "lh"} THEN SignFrom(Read(a, n), 8 * n - 1)
                  ELSE Read(a, n))
     /\ Goes(Following(i)) /\ UNCHANGED mem

Store(i) ==
  LET a == Plus(reg[i.rs1], i.imm)
      n == Sizes[i.op]
  IN /\ i.op \in DOMAIN Stores /\ Fits(a, n)
     /\ mem' = Written(a, n, reg[i.rs2])
     /\ Goes(Following(i)) /\ UNCHANGED reg

(* JAL goes to the pc and the offset, JALR to the register and the offset, *)
(* "setting the least-significant bit of the result to zero"; both leave   *)
(* "the address of the instruction following the jump".                    *)
JumpTo(i) ==
  /\ i.op \in {"jal", "jalr"}
  /\ Result(i.rd, Following(i))
  /\ Goes(IF i.op = "jal" THEN Plus(pc, i.imm) ELSE Plus(reg[i.rs1], i.imm) \ {0})
  /\ UNCHANGED mem

Branch(i) ==
  /\ i.op \in DOMAIN Branches
  /\ Goes(IF Compared(i.op, reg[i.rs1], reg[i.rs2]) THEN Plus(pc, i.imm) ELSE Following(i))
  /\ UNCHANGED <<reg, mem>>

(* FENCE orders accesses to memory, and here they are in order.            *)
Fence(i) ==
  /\ i.op = "fence"
  /\ Goes(Following(i)) /\ UNCHANGED <<reg, mem>>

(* Nothing to execute, a call of an environment that there is not, or a    *)
(* forbidden access: the registers and the pc stay; of a store, some first *)
(* bytes may have been written.                                            *)
Trap(i) ==
  /\ \/ i.op \in Environment \cup {"none"}
     \/ i.op \in DOMAIN Sizes /\ ~Fits(Plus(reg[i.rs1], i.imm), Sizes[i.op])
  /\ trapped' = TRUE /\ UNCHANGED <<reg, pc>>
  /\ i.op \notin DOMAIN Stores => UNCHANGED mem
  /\ \A a \in DOMAIN mem : mem'[a] # mem[a] =>
       \E k \in 0 .. 3 : a = Place(Plus(reg[i.rs1], i.imm), k)

Does(i) == Compute(i) \/ LoadUpper(i) \/ Load(i) \/ Store(i) \/ JumpTo(i) \/ Branch(i)
           \/ Fence(i) \/ Trap(i)

(* The code at pc: a halfword, unless its lower two bits are set.          *)
Here ==
  IF Fits(pc, 2) /\ Low(Read(pc, 2), 2) # Three THEN CompressedMeaning(Read(pc, 2))
  ELSE IF Fits(pc, 4) /\ Low(Read(pc, 2), 2) = Three THEN Meaning(Read(pc, 4))
  ELSE Operands("none", X0, X0, X0, {}, Two)

Unspecified == (Fits(pc, 2) /\ Reserved(Read(pc, 2))) \/ Here.op = "reserved"
=============================================================================
