----------------------------- MODULE Isa_proofs -----------------------------
(***************************************************************************)
(* What the decoders make of a word and of a half word is what the manual  *)
(* says of it. A field of the code, cut and joined by shifts and masks, is *)
(* first shown to be the documented list of bits; then an expansion, packed*)
(* into a 32-bit format and unpacked again, to keep its operands; and then *)
(* each row of the table of compressed instructions to be the right one.   *)
(***************************************************************************)
EXTENDS Isa, Words_proofs

Reg5 == SUBSET (0 .. 4)

(* The register fields of a 32-bit instruction are bits 7, 15 and 20 on.   *)
LEMMA WordFields ==
  ASSUME NEW w
  PROVE /\ Rd(w) = Register(w, 7) /\ Rs1(w) = Register(w, 15) /\ Rs2(w) = Register(w, 20)
BY DEF Rd, Rs1, Rs2, Field, Low, Shr, Register, Gather, Bits

(* The immediate of format I is bits 20 to 31, sign-extended.              *)
LEMMA WordI ==
  ASSUME NEW w
  PROVE ImmI(w) = Signed(w, 0, From(20, 31))
BY DEF ImmI, Signed, From, Gather, SignFrom, Short, Shr, Bits

(* The immediate of format S joins bits 7 to 11 and 25 to 31.              *)
LEMMA WordS ==
  ASSUME NEW w
  PROVE ImmS(w) = Signed(w, 0, From(7, 11) \o From(25, 31))
BY DEF ImmS, Signed, From, Gather, SignFrom, Shl, Shr, Field, Low, Bits

(* The offset of a branch is the documented one, cut to eight bits:        *)
(* FormatSB casts it to a byte.                                            *)
LEMMA WordSB ==
  ASSUME NEW w
  PROVE ImmSB(w) = SignFrom(Signed(w, 1, From(8, 11) \o From(25, 30) \o <<7, 31>>), 7)
BY DEF ImmSB, Signed, From, Gather, SignFrom, Shl, Shr, Field, Low, Byte, Bits

(* The upper immediate, moved back to its place, is bits 12 to 31.         *)
LEMMA WordU ==
  ASSUME NEW w
  PROVE Shl(ImmU(w), 12) = Gather(w, 12, From(12, 31))
BY DEF ImmU, Signed, From, Gather, SignFrom, Shl, Shr, Field, Low, Byte, Bits

(* The offset of a jump joins the four groups of bits of format UJ.        *)
LEMMA WordUJ ==
  ASSUME NEW w
  PROVE ImmUJ(w) = Signed(w, 1, From(21, 30) \o <<20>> \o From(12, 19) \o <<31>>)
BY DEF ImmUJ, Signed, From, Gather, SignFrom, Shl, Shr, Field, Low, Byte, Bits

-----------------------------------------------------------------------------
(***************************************************************************)
(* Formats: packing and unpacking.                                         *)
(***************************************************************************)

(* A register number fits the five bits of its field.                      *)
LEMMA LowFive ==
  ASSUME NEW r \in Reg5
  PROVE Low(r, 5) = r
<1>1. r \subseteq 0 .. 5 - 1
  BY DEF Reg5
<1> QED BY <1>1 DEF Low

(* What the constructor of format I packs, its getters give back.          *)
LEMMA PackedI ==
  ASSUME NEW o, NEW f, NEW rd \in Reg5, NEW rs1 \in Reg5, NEW imm
  PROVE LET w == PackI(o, rd, f, rs1, imm)
        IN Rd(w) = rd /\ Rs1(w) = rs1 /\ ImmI(w) = SignFrom(imm, 11)
<1> DEFINE w == PackI(o, rd, f, rs1, imm)
<1>1. Rd(w) = Low(rd, 5)
  BY DEF PackI, Header, PackRd, PackRs1, Rd, Field, Low, Shr, Shl, Bits
<1>2. Rs1(w) = Low(rs1, 5)
  BY DEF PackI, Header, PackRd, PackRs1, Rs1, Field, Low, Shr, Shl, Bits
<1>3. ImmI(w) = SignFrom(imm, 11)
  BY DEF PackI, Header, PackRd, PackRs1, ImmI, Field, Low, Shr, Shl, Bits, Short, SignFrom
<1> QED BY LowFive, <1>1, <1>2, <1>3

(* What the constructor of format R packs, its getters give back.          *)
LEMMA PackedR ==
  ASSUME NEW o, NEW f, NEW g, NEW rd \in Reg5, NEW rs1 \in Reg5, NEW rs2 \in Reg5
  PROVE LET w == PackR(o, rd, f, rs1, rs2, g)
        IN Rd(w) = rd /\ Rs1(w) = rs1 /\ Rs2(w) = rs2
<1> DEFINE w == PackR(o, rd, f, rs1, rs2, g)
<1>1. Rd(w) = Low(rd, 5)
  BY DEF PackR, Header, PackRd, PackRs1, PackRs2, Rd, Field, Low, Shr, Shl, Bits
<1>2. Rs1(w) = Low(rs1, 5)
  BY DEF PackR, Header, PackRd, PackRs1, PackRs2, Rs1, Field, Low, Shr, Shl, Bits
<1>3. Rs2(w) = Low(rs2, 5)
  BY DEF PackR, Header, PackRd, PackRs1, PackRs2, Rs2, Field, Low, Shr, Shl, Bits
<1> QED BY LowFive, <1>1, <1>2, <1>3

(* What the constructor of format S packs, its getters give back.          *)
LEMMA PackedS ==
  ASSUME NEW o, NEW f, NEW rs1 \in Reg5, NEW rs2 \in Reg5, NEW imm
  PROVE LET w == PackS(o, f, rs1, rs2, imm)
        IN Rs1(w) = rs1 /\ Rs2(w) = rs2 /\ ImmS(w) = SignFrom(imm, 11)
<1> DEFINE w == PackS(o, f, rs1, rs2, imm)
<1>1. Rs1(w) = Low(rs1, 5)
  BY DEF PackS, Header, PackRs1, PackRs2, Rs1, Field, Low, Shr, Shl, Bits
<1>2. Rs2(w) = Low(rs2, 5)
  BY DEF PackS, Header, PackRs1, PackRs2, Rs2, Field, Low, Shr, Shl, Bits
<1>3. ImmS(w) = SignFrom(imm, 11)
  BY DEF PackS, Header, PackRs1, PackRs2, ImmS, Field, Low, Shr, Shl, Bits, SignFrom
<1> QED BY LowFive, <1>1, <1>2, <1>3

(* What the constructor of format SB packs, its getters give back; the     *)
(* offset only if it is even and fits six bits.                            *)
LEMMA PackedSB ==
  ASSUME NEW o, NEW f, NEW rs1 \in Reg5, NEW rs2 \in Reg5, NEW imm
  PROVE LET w == PackSB(o, f, rs1, rs2, imm)
        IN /\ Rs1(w) = rs1 /\ Rs2(w) = rs2
           /\ imm = SignFrom(imm, 5) \ {0} => ImmSB(w) = imm
<1> DEFINE w == PackSB(o, f, rs1, rs2, imm)
<1>1. Rs1(w) = Low(rs1, 5)
  BY DEF PackSB, Header, PackRs1, PackRs2, Rs1, Field, Low, Shr, Shl, Bits
<1>2. Rs2(w) = Low(rs2, 5)
  BY DEF PackSB, Header, PackRs1, PackRs2, Rs2, Field, Low, Shr, Shl, Bits
<1>3. ASSUME imm = SignFrom(imm, 5) \ {0} PROVE ImmSB(w) = imm
  BY <1>3 DEF PackSB, Header, PackRs1, PackRs2, ImmSB, Field, Low, Shr, Shl, Bits,
     SignFrom, Byte
<1> QED BY LowFive, <1>1, <1>2, <1>3

(* What the constructor of format U packs, its getters give back, once the *)
(* runner has moved the immediate by 12 bits.                              *)
LEMMA PackedU ==
  ASSUME NEW o, NEW rd \in Reg5, NEW imm \in Word
  PROVE LET w == PackU(o, rd, imm)
        IN Rd(w) = rd /\ Shl(ImmU(w), 12) = Shl(imm, 12)
<1> DEFINE w == PackU(o, rd, imm)
<1>1. Rd(w) = Low(rd, 5)
  BY DEF PackU, PackRd, Rd, Field, Low, Shr, Shl, Bits
<1>2. Shl(ImmU(w), 12) = Shl(imm, 12)
  BY DEF PackU, PackRd, ImmU, Low, Shr, Shl, Bits, Word
<1> QED BY LowFive, <1>1, <1>2

(* What the constructor of format UJ packs, its getters give back.         *)
LEMMA PackedUJ ==
  ASSUME NEW o, NEW rd \in Reg5, NEW imm
  PROVE LET w == PackUJ(o, rd, imm)
        IN Rd(w) = rd /\ ImmUJ(w) = SignFrom(imm, 20) \ {0}
<1> DEFINE w == PackUJ(o, rd, imm)
<1>1. Rd(w) = Low(rd, 5)
  BY DEF PackUJ, PackRd, Rd, Field, Low, Shr, Shl, Bits
<1>2. ImmUJ(w) = SignFrom(imm, 20) \ {0}
  BY DEF PackUJ, PackRd, ImmUJ, Field, Low, Shr, Shl, Bits, SignFrom
<1> QED BY LowFive, <1>1, <1>2

-----------------------------------------------------------------------------
(***************************************************************************)
(* Half words: fields and immediates.                                      *)
(***************************************************************************)

Half == SUBSET (0 .. 15)

(* The fields that select and address a compressed instruction are not     *)
(* disturbed by the sign extension of the half word (Java's short).        *)
LEMMA HalfFields ==
  ASSUME NEW r \in Half
  PROVE LET c == Short(r)
        IN /\ Low(c, 2) = Low(r, 2) /\ CFunct3(c) = CFunct3(r) /\ CFunct2(c) = CFunct2(r)
           /\ Field(c, 5, 2) = Field(r, 5, 2) /\ (12 \in c <=> 12 \in r)
           /\ Low(Shr(Funct6(c), 2), 1) = (IF 12 \in r THEN {0} ELSE {})
           /\ Low(Funct4(c), 1) = (IF 12 \in r THEN {0} ELSE {})
           /\ CRs1(c) = Full1(r) /\ CRs2(c) = Full2(r)
           /\ ShortRs1(c) = Short1(r) /\ ShortRs2(c) = Short2(r)
<1> DEFINE c == Short(r)
<1>1. Low(c, 2) = Low(r, 2) /\ (12 \in c <=> 12 \in r)
  BY DEF Low, Short, SignFrom, Bits, Half
<1>2. CFunct3(c) = CFunct3(r)
  BY DEF CFunct3, Field, Low, Shr, Short, SignFrom, Bits, Half
<1>3. CFunct2(c) = CFunct2(r)
  BY DEF CFunct2, Field, Low, Shr, Short, SignFrom, Bits, Half
<1>4. Field(c, 5, 2) = Field(r, 5, 2)
  BY DEF Field, Low, Shr, Short, SignFrom, Bits, Half
<1>5. Low(Shr(Funct6(c), 2), 1) = (IF 12 \in r THEN {0} ELSE {})
  BY DEF Funct6, Field, Low, Shr, Short, SignFrom, Bits, Half
<1>6. Low(Funct4(c), 1) = (IF 12 \in r THEN {0} ELSE {})
  BY DEF Funct4, Field, Low, Shr, Short, SignFrom, Bits, Half
<1>7. CRs1(c) = Full1(r)
  BY DEF CRs1, Full1, Register, Gather, Field, Low, Shr, Short, SignFrom, Bits, Half
<1>8. CRs2(c) = Full2(r)
  BY DEF CRs2, Full2, Register, Gather, Field, Low, Shr, Short, SignFrom, Bits, Half
<1>9. ShortRs1(c) = Short1(r)
  BY DEF ShortRs1, Short1, ShortRegister, Eight, Gather, Field, Low, Shr, Short,
     SignFrom, Bits, Half
<1>10. ShortRs2(c) = Short2(r)
  BY DEF ShortRs2, Short2, ShortRegister, Eight, Gather, Field, Low, Shr, Short,
     SignFrom, Bits, Half
<1> QED BY <1>1, <1>2, <1>3, <1>4, <1>5, <1>6, <1>7, <1>8, <1>9, <1>10

(* The registers of a compressed instruction are five-bit numbers.         *)
LEMMA HalfRegisters ==
  ASSUME NEW r
  PROVE /\ Full1(r) \in Reg5 /\ Full2(r) \in Reg5
        /\ Short1(r) \in Reg5 /\ Short2(r) \in Reg5
        /\ X0 \in Reg5 /\ RA \in Reg5 /\ SP \in Reg5
<1>1. Full1(r) \in Reg5 /\ Full2(r) \in Reg5
  BY DEF Full1, Full2, Register, Gather, Reg5, Bits
<1>2. Short1(r) \in Reg5 /\ Short2(r) \in Reg5
  BY DEF Short1, Short2, ShortRegister, Gather, Reg5, Bits
<1> QED BY <1>1, <1>2 DEF X0, RA, SP, Reg5

(* The six-bit immediate is as documented in format CI, and in format CB   *)
(* (shifts, C.ANDI) when it is not negative: CB does not sign-extend.      *)
LEMMA ImmediateOfSix ==
  ASSUME NEW r \in Half
  PROVE /\ CIImmediate(Short(r)) = Six(r)
        /\ 12 \notin r => CBImmediate(Short(r)) = Six(r)
<1>1. CIImmediate(Short(r)) = Six(r)
  BY DEF CIImmediate, CIUnsigned, Three, Six, Signed, From, Gather, Field, Low, Shr,
     Shl, Byte, Short, SignFrom, Bits, Half
<1>2. ASSUME 12 \notin r PROVE CBImmediate(Short(r)) = Six(r)
  BY <1>2 DEF CBImmediate, Six, Signed, From, Gather, Field, Low, Shr, Shl, Short,
     SignFrom, Bits, Half
<1> QED BY <1>1, <1>2

(* The offset of a compressed branch, when it fits six bits, is as         *)
(* documented.                                                             *)
LEMMA ImmediateOfBranch ==
  ASSUME NEW r \in Half, BranchOffset(r) = SignFrom(BranchOffset(r), 5)
  PROVE CBBranch(Short(r)) = BranchOffset(r)
BY DEF CBBranch, BranchOffset, Signed, Gather, Field, Low, Shr, Shl, Byte, Short,
   SignFrom, Bits, Half

(* The offset of a compressed jump, after its way through format UJ.       *)
LEMMA ImmediateOfJump ==
  ASSUME NEW r \in Half
  PROVE SignFrom(CJImmediate(Short(r)), 20) \ {0} = Offset(r)
BY DEF CJImmediate, Offset, Signed, Gather, Field, Low, Shr, Shl, Byte, Short,
   SignFrom, Bits, Half

(* The offset of C.LW and C.SW.                                            *)
LEMMA ImmediateOfLoad ==
  ASSUME NEW r \in Half
  PROVE SignFrom(CLImmediate(Short(r)), 11) = WordOffset(r)
BY DEF CLImmediate, WordOffset, Gather, Field, Low, Shr, Shl, Byte, Short, SignFrom,
   Bits, Half

(* The scaled immediate of C.ADDI4SPN.                                     *)
LEMMA ImmediateOfAddi4spn ==
  ASSUME NEW r \in Half
  PROVE SignFrom(Addi4spnImmediate(Short(r)), 11) = Gather(r, 2, <<6, 5, 11, 12, 7, 8, 9, 10>>)
BY DEF Addi4spnImmediate, CIWImmediate, Gather, Field, Low, Shr, Shl, Byte, Short,
   SignFrom, Bits, Half

(* The scaled immediate of C.ADDI16SP, when it is not negative.            *)
LEMMA ImmediateOfAddi16sp ==
  ASSUME NEW r \in Half, 12 \notin r
  PROVE SignFrom(Addi16spImmediate(Short(r)), 11) = Signed(r, 4, <<6, 2, 5, 3, 4, 12>>)
BY DEF Addi16spImmediate, CIImmediate, CIUnsigned, Signed, Gather, Field, Low, Shr,
   Shl, Byte, Short, SignFrom, Bits, Half

(* The offset of C.LWSP.                                                   *)
LEMMA ImmediateOfLwsp ==
  ASSUME NEW r \in Half
  PROVE SignFrom(LwspImmediate(Short(r)), 11) = Gather(r, 2, <<4, 5, 6, 12, 2, 3>>)
BY DEF LwspImmediate, CIUnsigned, Gather, Field, Low, Shr, Shl, Byte, Short,
   SignFrom, Bits, Half

(* The offset of C.SWSP.                                                   *)
LEMMA ImmediateOfSwsp ==
  ASSUME NEW r \in Half
  PROVE SignFrom(CSSWord(Short(r)), 11) = Gather(r, 2, <<9, 10, 11, 12, 7, 8>>)
BY DEF CSSWord, CSSImmediate, Gather, Field, Low, Shr, Shl, Byte, Short, SignFrom,
   Bits, Half

(* The immediate of C.LUI, moved to its place.                             *)
LEMMA ImmediateOfLui ==
  ASSUME NEW r \in Half
  PROVE Shl(Six(r), 12) = Signed(r, 12, From(2, 6) \o <<12>>)
BY DEF Six, Signed, From, Gather, Shl, SignFrom, Bits, Half

-----------------------------------------------------------------------------
(***************************************************************************)
(* Operands.                                                               *)
(***************************************************************************)

(* The instructions of each kind.                                          *)
LEMMA OpNames ==
  /\ DOMAIN Loads = {"lb", "lh", "lw", "lbu", "lhu"}
  /\ DOMAIN Stores = {"sb", "sh", "sw"}
  /\ DOMAIN Branches = {"beq", "bne", "blt", "bge", "bltu", "bgeu"}
  /\ DOMAIN Immediates = {"addi", "slli", "slti", "sltiu", "xori", "srli", "srai", "ori", "andi"}
  /\ DOMAIN Registers = {"add", "sub", "sll", "slt", "sltu", "xor", "srl", "sra", "or", "and"}
BY DEF Loads, Stores, Branches, Immediates, Registers

(* There are no others.                                                    *)
LEMMA OpcodeNames ==
  DOMAIN Opcodes = DOMAIN Loads \cup DOMAIN Stores \cup DOMAIN Branches
                   \cup DOMAIN Immediates \cup DOMAIN Registers \cup Upper
                   \cup {"jal", "jalr"}
BY DEF Opcodes

(* Only SUB, SRA and SRAI have a bit in funct7.                            *)
LEMMA Funct7Of ==
  ASSUME NEW op \in DOMAIN Opcodes
  PROVE Opcodes[op].funct7 = IF op \in Alternate THEN {5} ELSE {}
BY DEF Opcodes, Info

(* Every kind has an opcode of its own.                                    *)
LEMMA TypeOf ==
  ASSUME NEW op \in DOMAIN Opcodes
  PROVE /\ op \in DOMAIN Loads <=> Opcodes[op].type = LOAD
        /\ op \in DOMAIN Stores <=> Opcodes[op].type = STORE
        /\ op \in DOMAIN Branches <=> Opcodes[op].type = BRANCH
        /\ op \in DOMAIN Immediates <=> Opcodes[op].type = OP_IMM
        /\ op \in DOMAIN Registers <=> Opcodes[op].type = OP
        /\ op = "lui" <=> Opcodes[op].type = LUI
        /\ op = "auipc" <=> Opcodes[op].type = AUIPC
        /\ op = "jal" <=> Opcodes[op].type = JAL
        /\ op = "jalr" <=> Opcodes[op].type = JALR
<1>1. Opcodes[op].type =
        IF op \in DOMAIN Loads THEN LOAD ELSE IF op \in DOMAIN Stores THEN STORE
        ELSE IF op \in DOMAIN Branches THEN BRANCH ELSE IF op \in DOMAIN Immediates THEN OP_IMM
        ELSE IF op \in DOMAIN Registers THEN OP
        ELSE [lui |-> LUI, auipc |-> AUIPC, jal |-> JAL, jalr |-> JALR][op]
  BY DEF Opcodes, Info
<1>2. /\ LOAD \notin {STORE, BRANCH, OP_IMM, OP, LUI, AUIPC, JAL, JALR}
      /\ STORE \notin {BRANCH, OP_IMM, OP, LUI, AUIPC, JAL, JALR}
      /\ BRANCH \notin {OP_IMM, OP, LUI, AUIPC, JAL, JALR}
      /\ OP_IMM \notin {OP, LUI, AUIPC, JAL, JALR} /\ OP \notin {LUI, AUIPC, JAL, JALR}
      /\ LUI \notin {AUIPC, JAL, JALR} /\ AUIPC \notin {JAL, JALR} /\ JAL # JALR
  <2>1. 2 \in AUIPC /\ 2 \in LUI /\ 2 \in JALR /\ 2 \in JAL
        /\ 2 \notin LOAD /\ 2 \notin STORE /\ 2 \notin OP_IMM /\ 2 \notin OP /\ 2 \notin BRANCH
    BY DEF LOAD, STORE, BRANCH, OP, OP_IMM, LUI, AUIPC, JAL, JALR
  <2>2. 4 \in AUIPC /\ 4 \in LUI /\ 4 \in OP_IMM /\ 4 \in OP
        /\ 4 \notin LOAD /\ 4 \notin STORE /\ 4 \notin BRANCH /\ 4 \notin JALR /\ 4 \notin JAL
    BY DEF LOAD, STORE, BRANCH, OP, OP_IMM, LUI, AUIPC, JAL, JALR
  <2>3. 5 \notin AUIPC /\ 5 \in LUI /\ 5 \notin OP_IMM /\ 5 \in OP
        /\ 5 \notin LOAD /\ 5 \in STORE /\ 5 \in BRANCH /\ 6 \notin STORE /\ 6 \in BRANCH
        /\ 3 \notin JALR /\ 3 \in JAL
    BY DEF LOAD, STORE, BRANCH, OP, OP_IMM, LUI, AUIPC, JAL, JALR
  <2>4. LOAD \notin {STORE, BRANCH, OP_IMM, OP, LUI, AUIPC, JAL, JALR}
        /\ STORE \notin {BRANCH, OP_IMM, OP, LUI, AUIPC, JAL, JALR}
    BY <2>1, <2>2, <2>3
  <2>5. BRANCH \notin {OP_IMM, OP, LUI, AUIPC, JAL, JALR}
        /\ OP_IMM \notin {OP, LUI, AUIPC, JAL, JALR} /\ OP \notin {LUI, AUIPC, JAL, JALR}
    BY <2>1, <2>2, <2>3
  <2>6. LUI \notin {AUIPC, JAL, JALR} /\ AUIPC \notin {JAL, JALR} /\ JAL # JALR
    BY <2>1, <2>2, <2>3
  <2> QED BY <2>4, <2>5, <2>6
<1> QED BY <1>1, <1>2, OpNames, OpcodeNames DEF Upper

(* The function that tells the instructions of one kind apart.             *)
LEMMA Funct3Of ==
  ASSUME NEW op \in DOMAIN Opcodes
  PROVE /\ op \in DOMAIN Loads => Opcodes[op].funct3 = Loads[op]
        /\ op \in DOMAIN Stores => Opcodes[op].funct3 = Stores[op]
        /\ op \in DOMAIN Branches => Opcodes[op].funct3 = Branches[op]
        /\ op \in DOMAIN Immediates => Opcodes[op].funct3 = Immediates[op]
        /\ op \in DOMAIN Registers => Opcodes[op].funct3 = Registers[op]
<1>1. Opcodes[op].funct3 =
        IF op \in DOMAIN Loads THEN Loads[op] ELSE IF op \in DOMAIN Stores THEN Stores[op]
        ELSE IF op \in DOMAIN Branches THEN Branches[op]
        ELSE IF op \in DOMAIN Immediates THEN Immediates[op]
        ELSE IF op \in DOMAIN Registers THEN Registers[op] ELSE {}
  BY DEF Opcodes, Info
<1> QED BY <1>1, OpNames

Shifts == {"slli", "srli", "srai"}
Links == {"jal", "jalr"}

(* The decoded instruction x has the operation of i, and every operand     *)
(* that this operation reads from it is the operand of i.                  *)
Agrees(x, i) ==
  /\ i.op \in DOMAIN Opcodes /\ x.op = i.op /\ x.size = i.size
  /\ i.op \in DOMAIN Loads \cup DOMAIN Immediates \cup DOMAIN Registers \cup Upper \cup Links =>
       Rd(x.raw) = i.rd
  /\ i.op \notin Upper \cup {"jal"} => Rs1(x.raw) = i.rs1
  /\ i.op \in DOMAIN Stores \cup DOMAIN Branches \cup DOMAIN Registers => Rs2(x.raw) = i.rs2
  /\ i.op \in (DOMAIN Immediates \ Shifts) \cup DOMAIN Loads \cup {"jalr"} => ImmI(x.raw) = i.imm
  /\ i.op \in Shifts => Amount(ImmI(x.raw)) = Amount(i.imm)
  /\ i.op \in DOMAIN Stores => ImmS(x.raw) = i.imm
  /\ i.op \in DOMAIN Branches => ImmSB(x.raw) = i.imm
  /\ i.op \in Upper => Shl(ImmU(x.raw), 12) = i.imm
  /\ i.op = "jal" => ImmUJ(x.raw) = i.imm

(* An expansion to format I agrees with the operands it was made of, and   *)
(* likewise for the other formats below.                                   *)
LEMMA AgreesI ==
  ASSUME NEW op \in (DOMAIN Immediates \ Shifts) \cup DOMAIN Loads \cup {"jalr"},
         NEW rd \in Reg5, NEW rs1 \in Reg5, NEW rs2, NEW imm
  PROVE Agrees(ExpandI(op, rd, rs1, imm), Operands(op, rd, rs1, rs2, SignFrom(imm, 11), Two))
<1>1. op \in DOMAIN Opcodes /\ op \notin Alternate
  BY OpcodeNames, OpNames DEF Alternate, Shifts
<1>2. imm \cup Shl(Opcodes[op].funct7, 5) = imm
  BY <1>1, Funct7Of DEF Shl
<1> QED BY <1>2, PackedI, OpNames, OpcodeNames DEF Agrees, ExpandI, Expanded,
       Instruction, Operands, Shifts, Upper, Links

(* Shifts by an immediate: funct7 shares its bits with the immediate, the  *)
(* shift amount does not see it.                                           *)
LEMMA AgreesShift ==
  ASSUME NEW op \in Shifts, NEW rd \in Reg5, NEW rs1 \in Reg5, NEW rs2, NEW imm
  PROVE Agrees(ExpandI(op, rd, rs1, imm), Operands(op, rd, rs1, rs2, imm, Two))
<1>1. op \in DOMAIN Opcodes
  BY OpcodeNames, OpNames DEF Shifts
<1> DEFINE f == Opcodes[op].funct7
<1>2. f = {5} \/ f = {}
  BY <1>1, Funct7Of
<1>3. Amount(SignFrom(imm \cup Shl(f, 5), 11)) = Amount(imm)
  BY <1>2 DEF Amount, SignFrom, Shl, Bits
<1> HIDE DEF f
<1> QED BY <1>3, PackedI, OpNames, OpcodeNames DEF Agrees, ExpandI, Expanded,
       Instruction, Operands, Shifts, Upper, Links, f

(* Format R.                                                               *)
LEMMA AgreesR ==
  ASSUME NEW op \in DOMAIN Registers,
         NEW rd \in Reg5, NEW rs1 \in Reg5, NEW rs2 \in Reg5, NEW imm
  PROVE Agrees(ExpandR(op, rd, rs1, rs2), Operands(op, rd, rs1, rs2, imm, Two))
BY PackedR, OpNames, OpcodeNames DEF Agrees, ExpandR, Expanded, Instruction,
   Operands, Shifts, Upper, Links

(* Format S.                                                               *)
LEMMA AgreesS ==
  ASSUME NEW op \in DOMAIN Stores,
         NEW rd, NEW rs1 \in Reg5, NEW rs2 \in Reg5, NEW imm
  PROVE Agrees(ExpandS(op, rs1, rs2, imm), Operands(op, rd, rs1, rs2, SignFrom(imm, 11), Two))
BY PackedS, OpNames, OpcodeNames DEF Agrees, ExpandS, Expanded, Instruction,
   Operands, Shifts, Upper, Links

(* Format SB, for offsets of six bits.                                     *)
LEMMA AgreesSB ==
  ASSUME NEW op \in DOMAIN Branches,
         NEW rd, NEW rs1 \in Reg5, NEW rs2 \in Reg5, NEW imm, imm = SignFrom(imm, 5) \ {0}
  PROVE Agrees(ExpandSB(op, rs1, rs2, imm), Operands(op, rd, rs1, rs2, imm, Two))
BY PackedSB, OpNames, OpcodeNames DEF Agrees, ExpandSB, Expanded, Instruction,
   Operands, Shifts, Upper, Links

(* Format U.                                                               *)
LEMMA AgreesU ==
  ASSUME NEW op \in Upper, NEW rd \in Reg5, NEW rs1, NEW rs2, NEW imm \in Word
  PROVE Agrees(ExpandU(op, rd, imm), Operands(op, rd, rs1, rs2, Shl(imm, 12), Two))
BY PackedU, OpNames, OpcodeNames DEF Agrees, ExpandU, Expanded, Instruction,
   Operands, Shifts, Upper, Links

(* Format UJ.                                                              *)
LEMMA AgreesUJ ==
  ASSUME NEW rd \in Reg5, NEW rs1, NEW rs2, NEW imm
  PROVE Agrees(ExpandUJ("jal", rd, imm),
               Operands("jal", rd, rs1, rs2, SignFrom(imm, 20) \ {0}, Two))
BY PackedUJ, OpNames, OpcodeNames DEF Agrees, ExpandUJ, Expanded, Instruction,
   Operands, Shifts, Upper, Links

(* The bits that the manual's listing looks at are what the decoder's      *)
(* switches look at, and more: a listed word matches.                      *)
LEMMA ListedMatches ==
  ASSUME NEW w, NEW op \in DOMAIN Opcodes, Listed(op, w)
  PROVE Matches(op, w)
<1>1. /\ op \in DOMAIN Listing /\ op \notin Environment
      /\ Selecting(op) = 0 .. 6 \cup (IF op \in Upper \cup {"jal"} THEN {} ELSE 12 .. 14)
           \cup (IF op \in DOMAIN Registers \cup {"slli", "srli", "srai"} THEN 25 .. 31 ELSE {})
  BY OpcodeNames, OpNames DEF Selecting, Listing, Environment, Upper
<1> DEFINE l == Listing[op]
<1>2. w \cap Selecting(op) = l
  BY DEF Listed
<1> HIDE DEF l
<1>3. Low(w, 7) = l \cap 0 .. 6
  BY <1>1, <1>2 DEF Low
<1>4. op \notin Upper \cup {"jal"} => Funct3(w) = {i \in 0 .. 2 : i + 12 \in l}
  BY <1>1, <1>2 DEF Funct3, Field, Low, Shr, Bits
<1>5. op \in DOMAIN Registers \cup {"srli", "srai"} =>
        \A i \in 25 .. 31 : i \in w <=> i \in l
  BY <1>1, <1>2
<1>6. l \cap 0 .. 6 = Opcodes[op].type
  BY OpcodeNames, OpNames DEF l, Listing, Opcodes, Info, LOAD, STORE, BRANCH, OP, OP_IMM,
     LUI, AUIPC, JAL, JALR, Upper
<1>7. op \notin Upper \cup {"jal", "jalr"} =>
        {i \in 0 .. 2 : i + 12 \in l} = Opcodes[op].funct3
  <2>1. CASE op \in DOMAIN Loads
    BY <2>1, Funct3Of, OpNames DEF l, Listing, Loads
  <2>2. CASE op \in DOMAIN Stores
    BY <2>2, Funct3Of, OpNames DEF l, Listing, Stores
  <2>3. CASE op \in DOMAIN Branches
    BY <2>3, Funct3Of, OpNames DEF l, Listing, Branches
  <2>4. CASE op \in DOMAIN Immediates
    BY <2>4, Funct3Of, OpNames DEF l, Listing, Immediates
  <2>5. CASE op \in DOMAIN Registers
    BY <2>5, Funct3Of, OpNames DEF l, Listing, Registers
  <2> QED BY <2>1, <2>2, <2>3, <2>4, <2>5, OpcodeNames
<1>8. op \in HasFunct7 \cup {"srli", "srai"} =>
        l \cap 25 .. 31 = (IF op \in Alternate THEN {30} ELSE {})
  BY DEF l, Listing, HasFunct7, Alternate
<1>9. op \in HasFunct7 \cup {"srli", "srai"} =>
        w \cap 25 .. 31 = (IF op \in Alternate THEN {30} ELSE {})
  BY <1>5, <1>8, OpNames DEF HasFunct7
<1>10. /\ w \cap 25 .. 31 = {} => Funct7(w) = {} /\ Shr(ImmI(w), 5) = {}
       /\ w \cap 25 .. 31 = {30} => Funct7(w) = {5} /\ Shr(ImmI(w), 5) = {5}
  <2>1. ASSUME w \cap 25 .. 31 = {} PROVE Funct7(w) = {}
    BY <2>1 DEF Funct7, Byte, Shr, SignFrom, Bits
  <2>2. ASSUME w \cap 25 .. 31 = {} PROVE Shr(ImmI(w), 5) = {}
    BY <2>2 DEF ImmI, Short, Shr, SignFrom, Bits
  <2>3. ASSUME w \cap 25 .. 31 = {30} PROVE Funct7(w) = {5}
    BY <2>3 DEF Funct7, Byte, Shr, SignFrom, Bits
  <2>4. ASSUME w \cap 25 .. 31 = {30} PROVE Shr(ImmI(w), 5) = {5}
    BY <2>4 DEF ImmI, Short, Shr, SignFrom, Bits
  <2> QED BY <2>1, <2>2, <2>3, <2>4
<1>11. op \in HasFunct7 \cup {"srli", "srai"} =>
         Funct7(w) = Opcodes[op].funct7 /\ Shr(ImmI(w), 5) = Opcodes[op].funct7
  BY <1>9, <1>10, Funct7Of
<1> QED BY <1>3, <1>4, <1>6, <1>7, <1>11 DEF Matches

(* No word matches two instructions.                                       *)
LEMMA MatchesOne ==
  ASSUME NEW w, NEW op \in DOMAIN Opcodes, NEW p \in DOMAIN Opcodes,
         Matches(op, w), Matches(p, w)
  PROVE op = p
<1>1. Opcodes[op].type = Opcodes[p].type
  BY DEF Matches
<1>2. op \notin Upper \cup Links => Opcodes[op].funct3 = Opcodes[p].funct3
  <2>1. p \in Upper \cup Links <=> op \in Upper \cup Links
    BY <1>1, TypeOf DEF Upper, Links
  <2> QED BY <2>1 DEF Matches, Links
<1>3. CASE op \in Upper \cup Links
  BY <1>1, <1>3, TypeOf DEF Upper, Links
<1>4. CASE op \in DOMAIN Loads
  <2>1. p \in DOMAIN Loads
    BY <1>1, <1>4, TypeOf
  <2>2. Loads[op] = Loads[p]
    BY <1>2, <1>4, <2>1, Funct3Of, OpNames DEF Upper, Links
  <2> QED BY <1>4, <2>1, <2>2 DEF Loads
<1>5. CASE op \in DOMAIN Stores
  <2>1. p \in DOMAIN Stores
    BY <1>1, <1>5, TypeOf
  <2>2. Stores[op] = Stores[p]
    BY <1>2, <1>5, <2>1, Funct3Of, OpNames DEF Upper, Links
  <2> QED BY <1>5, <2>1, <2>2 DEF Stores
<1>6. CASE op \in DOMAIN Branches
  <2>1. p \in DOMAIN Branches
    BY <1>1, <1>6, TypeOf
  <2>2. Branches[op] = Branches[p]
    BY <1>2, <1>6, <2>1, Funct3Of, OpNames DEF Upper, Links
  <2> QED BY <1>6, <2>1, <2>2 DEF Branches
<1>7. CASE op \in DOMAIN Immediates
  <2>1. p \in DOMAIN Immediates
    BY <1>1, <1>7, TypeOf
  <2>2. Immediates[op] = Immediates[p]
    BY <1>2, <1>7, <2>1, Funct3Of, OpNames DEF Upper, Links
  <2>3. {op, p} \subseteq {"srli", "srai"} => op \in Alternate <=> p \in Alternate
    BY Funct7Of DEF Matches
  <2> QED BY <1>7, <2>1, <2>2, <2>3 DEF Immediates, Alternate
<1>8. CASE op \in DOMAIN Registers
  <2>1. p \in DOMAIN Registers
    BY <1>1, <1>8, TypeOf
  <2>2. Registers[op] = Registers[p]
    BY <1>2, <1>8, <2>1, Funct3Of, OpNames DEF Upper, Links
  <2>3. {op, p} \subseteq HasFunct7 => op \in Alternate <=> p \in Alternate
    BY Funct7Of DEF Matches
  <2> QED BY <1>8, <2>1, <2>2, <2>3 DEF Registers, Alternate, HasFunct7
<1> QED BY <1>3, <1>4, <1>5, <1>6, <1>7, <1>8, OpcodeNames DEF Links

(* So the decoder finds what the manual lists, and nothing for a call of   *)
(* the environment.                                                        *)
LEMMA DecodesListed ==
  ASSUME NEW w
  PROVE /\ Operation(w) \in DOMAIN Opcodes =>
             Decode(w) = Instruction(Operation(w), w, Four)
        /\ Operation(w) \in Environment => Decode(w) = None
<1>1. Operation(w) # "reserved" =>
        Operation(w) \in DOMAIN Listing /\ Listed(Operation(w), w)
  BY DEF Operation
<1>2. ASSUME Operation(w) \in DOMAIN Opcodes
      PROVE Decode(w) = Instruction(Operation(w), w, Four)
  <2>1. Matches(Operation(w), w)
    <3>1. "reserved" \notin DOMAIN Opcodes
      BY OpcodeNames, OpNames DEF Upper
    <3> QED BY <1>1, <1>2, <3>1, ListedMatches
  <2>2. \A p \in DOMAIN Opcodes : Matches(p, w) => p = Operation(w)
    BY <1>2, <2>1, MatchesOne
  <2> QED BY <1>2, <2>1, <2>2 DEF Decode
<1>3. ASSUME Operation(w) \in Environment PROVE Decode(w) = None
  <2>1. Low(w, 7) = {0, 1, 4, 5, 6}
    <3>1. w \cap Bits = Listing[Operation(w)]
      BY <1>1, <1>3 DEF Listed, Selecting, Environment
    <3>2. Listing[Operation(w)] \cap 0 .. 6 = {0, 1, 4, 5, 6}
      BY <1>3 DEF Listing, Environment
    <3> QED BY <3>1, <3>2 DEF Low, Bits
  <2>2. \A p \in DOMAIN Opcodes : Opcodes[p].type # {0, 1, 4, 5, 6}
    BY OpcodeNames, TypeOf DEF LOAD, STORE, BRANCH, OP, OP_IMM, LUI, AUIPC, JAL, JALR, Upper
  <2> QED BY <2>1, <2>2 DEF Decode, Matches
<1> QED BY <1>2, <1>3

(* Every 32-bit word that the manual lists as an instruction of RV32I is   *)
(* decoded as the manual has it, but for branch offsets of more than eight *)
(* bits. (InstructionDecoder.decode)                                       *)
LEMMA AgreesWord ==
  ASSUME NEW w, LET i == Meaning(w) IN i.op \in DOMAIN Branches => ~LosesBits(i, 8),
         Meaning(w).op \in DOMAIN Opcodes
  PROVE Agrees(Decode(w), Meaning(w))
<1> DEFINE op == Operation(w)
           i == Meaning(w)
<1>1. op \in DOMAIN Opcodes /\ i.op = op
  BY DEF Meaning, Operands
<1>2. Decode(w).raw = w /\ Decode(w).size = Four /\ Decode(w).op = op
  BY <1>1, DecodesListed DEF Instruction
<1>3. i.size = Four /\ i.rd = Rd(w) /\ i.rs1 = Rs1(w) /\ i.rs2 = Rs2(w)
  BY WordFields DEF Meaning, Operands
<1> DEFINE S == Signed(w, 0, From(7, 11) \o From(25, 31))
           SB == Signed(w, 1, From(8, 11) \o From(25, 30) \o <<7, 31>>)
           U == Gather(w, 12, From(12, 31))
           UJ == Signed(w, 1, From(21, 30) \o <<20>> \o From(12, 19) \o <<31>>)
           I == Signed(w, 0, From(20, 31))
<1>4. i.imm = IF op \in DOMAIN Stores THEN S ELSE IF op \in DOMAIN Branches THEN SB
              ELSE IF op \in Upper THEN U ELSE IF op = "jal" THEN UJ ELSE I
  BY DEF Meaning, Operands
<1>5. S = ImmS(w) /\ U = Shl(ImmU(w), 12) /\ UJ = ImmUJ(w) /\ I = ImmI(w)
      /\ SignFrom(SB, 7) = ImmSB(w)
  BY WordS, WordSB, WordU, WordUJ, WordI
<1>6. op \in DOMAIN Branches => i.imm = SignFrom(i.imm, 7)
  BY <1>1 DEF LosesBits
<1> HIDE DEF S, SB, U, UJ, I
<1>7. /\ op \in DOMAIN Stores => i.imm = ImmS(w)
      /\ op \in DOMAIN Branches => i.imm = SB
      /\ op \in Upper => i.imm = Shl(ImmU(w), 12)
      /\ op = "jal" => i.imm = ImmUJ(w)
      /\ op \in DOMAIN Immediates \cup DOMAIN Loads \cup {"jalr"} => i.imm = ImmI(w)
  <2> HIDE DEF op, i
  <2> QED BY <1>4, <1>5, OpNames DEF Upper
<1>8. op \in DOMAIN Branches => i.imm = ImmSB(w)
  BY <1>5, <1>6, <1>7
<1> HIDE DEF op, i
<1> QED BY <1>1, <1>2, <1>3, <1>4, <1>5, <1>6, <1>7, <1>8, OpNames,
       OpcodeNames DEF Agrees, Shifts, Links, i

-----------------------------------------------------------------------------
(***************************************************************************)
(* Rows of the table of compressed instructions.                           *)
(***************************************************************************)

(* The values of the fields differ from each other.                        *)
LEMMA Distinct ==
  /\ {} # One /\ {} # Two /\ {} # Three /\ {} # Four
  /\ {} # {0, 2} /\ {} # {1, 2} /\ {} # {0, 1, 2}
  /\ One # Two /\ One # Three /\ One # Four /\ One # {0, 2} /\ One # {1, 2} /\ One # {0, 1, 2}
  /\ Two # Three /\ Two # Four /\ Two # {0, 2} /\ Two # {1, 2} /\ Two # {0, 1, 2}
  /\ Three # Four /\ Three # {0, 2} /\ Three # {1, 2} /\ Three # {0, 1, 2}
  /\ Four # {0, 2} /\ Four # {1, 2} /\ Four # {0, 1, 2}
  /\ {0, 2} # {1, 2} /\ {0, 2} # {0, 1, 2} /\ {1, 2} # {0, 1, 2}
BY DEF One, Two, Three, Four

(* Every 16-bit half word is expanded to the instruction the manual gives  *)
(* it, except those that the manual reserves and those at which the code   *)
(* departs. One case per row of the manual's table.                        *)
(* (InstructionDecoderRv32c.decode)                                        *)
LEMMA HalfAgrees ==
  ASSUME NEW r \in Half, ~Reserved(r), ~DepartsHalfWord(r), Low(r, 2) # Three,
         LET i == CompressedMeaning(r) IN i.op \in DOMAIN Branches => ~LosesBits(i, 6)
  PROVE Agrees(DecodeCompressed(Short(r)), CompressedMeaning(r))
<1> DEFINE c == Short(r)
<1>0. /\ Low(c, 2) = Low(r, 2) /\ CFunct3(c) = CFunct3(r) /\ CFunct2(c) = CFunct2(r)
      /\ Field(c, 5, 2) = Field(r, 5, 2) /\ (12 \in c <=> 12 \in r)
      /\ Low(Shr(Funct6(c), 2), 1) = (IF 12 \in r THEN {0} ELSE {})
      /\ Low(Funct4(c), 1) = (IF 12 \in r THEN {0} ELSE {})
      /\ CRs1(c) = Full1(r) /\ CRs2(c) = Full2(r)
      /\ ShortRs1(c) = Short1(r) /\ ShortRs2(c) = Short2(r)
  BY HalfFields
<1>a. SignFrom(Six(r), 11) = Six(r) /\ Six(r) \in Word /\ SignFrom({}, 11) = {}
  BY DEF Six, Signed, From, Gather, SignFrom, Bits, Word
<1>b. /\ {"addi", "andi", "lw", "jalr"} \subseteq
           (DOMAIN Immediates \ Shifts) \cup DOMAIN Loads \cup {"jalr"}
      /\ {"slli", "srli", "srai"} \subseteq Shifts /\ "sw" \in DOMAIN Stores
      /\ {"add", "sub", "xor", "or", "and"} \subseteq DOMAIN Registers
      /\ {"beq", "bne"} \subseteq DOMAIN Branches /\ "lui" \in Upper
  BY OpNames DEF Shifts, Upper
<1>c. CIWImmediate(c) = {} => r \cap 5 .. 12 = {}
  <2>1. \A k \in 5 .. 12 : k \in r => k - 5 \in CIWImmediate(c)
    BY DEF CIWImmediate, Field, Low, Shr, Byte, Short, SignFrom, Bits, Half
  <2> HIDE DEF c
  <2> QED BY <2>1
<1>h. /\ Field(r, 5, 2) = {} <=> r \cap {5, 6} = {}
      /\ Field(r, 5, 2) = One <=> r \cap {5, 6} = {5}
      /\ Field(r, 5, 2) = Two <=> r \cap {5, 6} = {6}
      /\ Field(r, 5, 2) = Three <=> r \cap {5, 6} = {5, 6}
  <2>1. Field(r, 5, 2) = {i \in {0, 1} : i + 5 \in r}
    BY DEF Field, Low, Shr, Bits, Half
  <2> QED BY <2>1 DEF One, Two, Three
<1> HIDE DEF c
<1>g. /\ CFunct2(r) \in {{}, One, Two, Three} /\ Field(r, 5, 2) \in {{}, One, Two, Three}
      /\ Low(r, 2) \in {{}, One, Two, Three}
      /\ CFunct3(r) \in {{}, One, Two, Three, Four, {0, 2}, {1, 2}, {0, 1, 2}}
  <2>1. \A x : Low(x, 2) \in {{}, {0}, {1}, {0, 1}}
    BY DEF Low
  <2>2. \A x : Low(x, 3) \in {{}, {0}, {1}, {0, 1}, {2}, {0, 2}, {1, 2}, {0, 1, 2}}
    BY DEF Low
  <2> QED BY <2>1, <2>2 DEF CFunct2, CFunct3, Field, One, Two, Three, Four
<1>1. CASE With(r, {}, {})
  <2>1. CompressedMeaning(r) = Operands("addi", Short2(r), SP, X0,
                                   Gather(r, 2, <<6, 5, 11, 12, 7, 8, 9, 10>>), Two)
    BY <1>1, Distinct DEF CompressedMeaning, With
  <2>2. DecodeCompressed(c) = ExpandI("addi", Short2(r), SP, Addi4spnImmediate(c))
    BY <1>1, <1>c, <1>0, Distinct DEF DecodeCompressed, With, C0, Reserved
  <2> QED BY <2>1, <2>2, AgreesI, ImmediateOfAddi4spn, HalfRegisters, <1>a, <1>b DEF c
<1>2. CASE With(r, {}, Two)
  <2>1. CompressedMeaning(r) = Operands("lw", Short2(r), Short1(r), X0, WordOffset(r), Two)
    BY <1>2, Distinct DEF CompressedMeaning, With
  <2>2. DecodeCompressed(c) = ExpandI("lw", Short2(r), Short1(r), CLImmediate(c))
    BY <1>2, <1>0, Distinct DEF DecodeCompressed, With, C0
  <2> QED BY <2>1, <2>2, AgreesI, ImmediateOfLoad, HalfRegisters, <1>a, <1>b DEF c
<1>3. CASE With(r, {}, {1, 2})
  <2>1. CompressedMeaning(r) = Operands("sw", X0, Short1(r), Short2(r), WordOffset(r), Two)
    BY <1>3, Distinct DEF CompressedMeaning, With
  <2>2. DecodeCompressed(c) = ExpandS("sw", Short1(r), Short2(r), CLImmediate(c))
    BY <1>3, <1>0, Distinct DEF DecodeCompressed, With, C0
  <2> QED BY <2>1, <2>2, AgreesS, ImmediateOfLoad, HalfRegisters, <1>a, <1>b DEF c
<1>4. CASE With(r, One, {})
  <2>1. CompressedMeaning(r) = Operands("addi", Full1(r), Full1(r), X0, Six(r), Two)
    BY <1>4, Distinct DEF CompressedMeaning, With
  <2>2. DecodeCompressed(c) = ExpandI("addi", Full1(r), Full1(r), CIImmediate(c))
    BY <1>4, <1>0, Distinct DEF DecodeCompressed, With, C1, DepartsHalfWord
  <2> QED BY <2>1, <2>2, AgreesI, ImmediateOfSix, HalfRegisters, <1>a, <1>b DEF c
<1>5. CASE With(r, One, One)
  <2>1. CompressedMeaning(r) = Operands("jal", RA, X0, X0, Offset(r), Two)
    BY <1>5, Distinct DEF CompressedMeaning, With
  <2>2. DecodeCompressed(c) = ExpandUJ("jal", RA, CJImmediate(c))
    BY <1>5, <1>0, Distinct DEF DecodeCompressed, With, C1, JumpAndLink
  <2> QED BY <2>1, <2>2, AgreesUJ, ImmediateOfJump, HalfRegisters, <1>a, <1>b DEF c
<1>6. CASE With(r, One, Two)
  <2>1. CompressedMeaning(r) = Operands("addi", Full1(r), X0, X0, Six(r), Two)
    BY <1>6, Distinct DEF CompressedMeaning, With
  <2>2. DecodeCompressed(c) = ExpandI("addi", Full1(r), X0, CIImmediate(c))
    BY <1>6, <1>0, Distinct DEF DecodeCompressed, With, C1
  <2> QED BY <2>1, <2>2, AgreesI, ImmediateOfSix, HalfRegisters, <1>a, <1>b DEF c
<1>d. With(r, One, Three) /\ Full1(r) = SP =>
        SignFrom(Addi16spImmediate(c), 11) = Signed(r, 4, <<6, 2, 5, 3, 4, 12>>)
  BY ImmediateOfAddi16sp DEF DepartsHalfWord, c
<1>7. CASE With(r, One, Three) /\ Full1(r) = SP
  <2>1. CompressedMeaning(r) = Operands("addi", SP, SP, X0,
                                   Signed(r, 4, <<6, 2, 5, 3, 4, 12>>), Two)
    BY <1>7, Distinct DEF CompressedMeaning, With
  <2>2. DecodeCompressed(c) = ExpandI("addi", SP, SP, Addi16spImmediate(c))
    BY <1>7, <1>0, Distinct DEF DecodeCompressed, With, C1, X0, SP
  <2>3. SignFrom(Addi16spImmediate(c), 11) = Signed(r, 4, <<6, 2, 5, 3, 4, 12>>)
    BY <1>7, <1>d
  <2> QED BY <2>1, <2>2, AgreesI, <2>3, HalfRegisters, <1>a, <1>b DEF c
<1>8. CASE With(r, One, Three) /\ Full1(r) # SP
  <2>1. CompressedMeaning(r) = Operands("lui", Full1(r), X0,
                                   X0, Signed(r, 12, From(2, 6) \o <<12>>), Two)
    BY <1>8, Distinct DEF CompressedMeaning, With
  <2>2. DecodeCompressed(c) = ExpandU("lui", Full1(r), CIImmediate(c))
    BY <1>8, <1>0, Distinct DEF DecodeCompressed, With, C1, Reserved, X0, SP
  <2> QED BY <2>1, <2>2, AgreesU, ImmediateOfSix, ImmediateOfLui, HalfRegisters,
         <1>a, <1>b DEF c
<1>e. With(r, One, Four) /\ CFunct2(r) # Three => CBImmediate(c) = Six(r)
  <2>1. ASSUME With(r, One, Four), CFunct2(r) # Three PROVE 12 \notin r
    BY <2>1, <1>g DEF DepartsHalfWord, Reserved
  <2> QED BY <2>1, ImmediateOfSix DEF c
<1>9. CASE With(r, One, Four) /\ CFunct2(r) = {}
  <2>1. CompressedMeaning(r) = Operands("srli", Short1(r), Short1(r), X0, Six(r), Two)
    BY <1>9, Distinct DEF CompressedMeaning, With, ImmediateOp
  <2>2. DecodeCompressed(c) = ExpandI("srli", Short1(r), Short1(r), CBImmediate(c))
    BY <1>9, <1>0, Distinct DEF DecodeCompressed, With, C1, Arithmetic
  <2>3. CBImmediate(c) = Six(r)
    BY <1>9, <1>e, Distinct
  <2> QED BY <2>1, <2>2, AgreesShift, <2>3, HalfRegisters, <1>a, <1>b DEF c
<1>10. CASE With(r, One, Four) /\ CFunct2(r) = One
  <2>1. CompressedMeaning(r) = Operands("srai", Short1(r), Short1(r), X0, Six(r), Two)
    BY <1>10, Distinct DEF CompressedMeaning, With, ImmediateOp
  <2>2. DecodeCompressed(c) = ExpandI("srai", Short1(r), Short1(r), CBImmediate(c))
    BY <1>10, <1>0, Distinct DEF DecodeCompressed, With, C1, Arithmetic
  <2>3. CBImmediate(c) = Six(r)
    BY <1>10, <1>e, Distinct
  <2> QED BY <2>1, <2>2, AgreesShift, <2>3, HalfRegisters, <1>a, <1>b DEF c
<1>11. CASE With(r, One, Four) /\ CFunct2(r) = Two
  <2>1. CompressedMeaning(r) = Operands("andi", Short1(r), Short1(r), X0, Six(r), Two)
    BY <1>11, Distinct DEF CompressedMeaning, With, ImmediateOp
  <2>2. DecodeCompressed(c) = ExpandI("andi", Short1(r), Short1(r), CBImmediate(c))
    BY <1>11, <1>0, Distinct DEF DecodeCompressed, With, C1, Arithmetic
  <2>3. CBImmediate(c) = Six(r)
    BY <1>11, <1>e, Distinct
  <2> QED BY <2>1, <2>2, AgreesI, <2>3, HalfRegisters, <1>a, <1>b DEF c
<1>12. CASE With(r, One, Four) /\ CFunct2(r) = Three /\ Field(r, 5, 2) = {}
  <2>1. CompressedMeaning(r) = Operands("sub", Short1(r), Short1(r), Short2(r), {}, Two)
    BY <1>12, <1>h, Distinct DEF CompressedMeaning, With, RegisterOp
  <2>2. DecodeCompressed(c) = ExpandR("sub", Short1(r), Short1(r), Short2(r))
    BY <1>12, <1>0, Distinct DEF DecodeCompressed, With, C1, Arithmetic, PairOp, Reserved
  <2> QED BY <2>1, <2>2, AgreesR, HalfRegisters, <1>a, <1>b DEF c
<1>13. CASE With(r, One, Four) /\ CFunct2(r) = Three /\ Field(r, 5, 2) = One
  <2>1. CompressedMeaning(r) = Operands("xor", Short1(r), Short1(r), Short2(r), {}, Two)
    BY <1>13, <1>h, Distinct DEF CompressedMeaning, With, RegisterOp
  <2>2. DecodeCompressed(c) = ExpandR("xor", Short1(r), Short1(r), Short2(r))
    BY <1>13, <1>0, Distinct DEF DecodeCompressed, With, C1, Arithmetic, PairOp, Reserved
  <2> QED BY <2>1, <2>2, AgreesR, HalfRegisters, <1>a, <1>b DEF c
<1>14. CASE With(r, One, Four) /\ CFunct2(r) = Three /\ Field(r, 5, 2) = Two
  <2>1. CompressedMeaning(r) = Operands("or", Short1(r), Short1(r), Short2(r), {}, Two)
    BY <1>14, <1>h, Distinct DEF CompressedMeaning, With, RegisterOp
  <2>2. DecodeCompressed(c) = ExpandR("or", Short1(r), Short1(r), Short2(r))
    BY <1>14, <1>0, Distinct DEF DecodeCompressed, With, C1, Arithmetic, PairOp, Reserved
  <2> QED BY <2>1, <2>2, AgreesR, HalfRegisters, <1>a, <1>b DEF c
<1>15. CASE With(r, One, Four) /\ CFunct2(r) = Three /\ Field(r, 5, 2) = Three
  <2>1. CompressedMeaning(r) = Operands("and", Short1(r), Short1(r), Short2(r), {}, Two)
    BY <1>15, <1>h, Distinct DEF CompressedMeaning, With, RegisterOp
  <2>2. DecodeCompressed(c) = ExpandR("and", Short1(r), Short1(r), Short2(r))
    BY <1>15, <1>0, Distinct DEF DecodeCompressed, With, C1, Arithmetic, PairOp, Reserved
  <2> QED BY <2>1, <2>2, AgreesR, HalfRegisters, <1>a, <1>b DEF c
<1>16. CASE With(r, One, {0, 2})
  <2>1. CompressedMeaning(r) = Operands("jal", X0, X0, X0, Offset(r), Two)
    BY <1>16, Distinct DEF CompressedMeaning, With
  <2>2. DecodeCompressed(c) = ExpandUJ("jal", X0, CJImmediate(c))
    BY <1>16, <1>0, Distinct DEF DecodeCompressed, With, C1, Jump
  <2> QED BY <2>1, <2>2, AgreesUJ, ImmediateOfJump, HalfRegisters, <1>a, <1>b DEF c
<1>f. CompressedMeaning(r).op \in DOMAIN Branches /\ CompressedMeaning(r).imm = BranchOffset(r)
      =>
        CBBranch(c) = BranchOffset(r) /\ BranchOffset(r) = SignFrom(BranchOffset(r), 5) \ {0}
  <2>1. 0 \notin BranchOffset(r)
    BY DEF BranchOffset, Signed, Gather, SignFrom
  <2> QED BY <2>1, ImmediateOfBranch DEF c, LosesBits
<1>17. CASE With(r, One, {1, 2})
  <2>1. CompressedMeaning(r) = Operands("beq", X0, Short1(r), X0, BranchOffset(r), Two)
    BY <1>17, Distinct DEF CompressedMeaning, With
  <2>2. DecodeCompressed(c) = ExpandSB("beq", Short1(r), X0, CBBranch(c))
    BY <1>17, <1>0, Distinct DEF DecodeCompressed, With, C1
  <2>3. CBBranch(c) = BranchOffset(r) /\ BranchOffset(r) = SignFrom(BranchOffset(r), 5) \ {0}
    BY <2>1, <1>f, <1>b DEF Operands
  <2> QED BY <2>1, <2>2, AgreesSB, <2>3, HalfRegisters, <1>a, <1>b DEF c
<1>18. CASE With(r, One, {0, 1, 2})
  <2>1. CompressedMeaning(r) = Operands("bne", X0, Short1(r), X0, BranchOffset(r), Two)
    BY <1>18, Distinct DEF CompressedMeaning, With
  <2>2. DecodeCompressed(c) = ExpandSB("bne", Short1(r), X0, CBBranch(c))
    BY <1>18, <1>0, Distinct DEF DecodeCompressed, With, C1
  <2>3. CBBranch(c) = BranchOffset(r) /\ BranchOffset(r) = SignFrom(BranchOffset(r), 5) \ {0}
    BY <2>1, <1>f, <1>b DEF Operands
  <2> QED BY <2>1, <2>2, AgreesSB, <2>3, HalfRegisters, <1>a, <1>b DEF c
<1>19. CASE With(r, Two, {})
  <2>1. CompressedMeaning(r) = Operands("slli", Full1(r), Full1(r), X0, Six(r), Two)
    BY <1>19, Distinct DEF CompressedMeaning, With
  <2>2. DecodeCompressed(c) = ExpandI("slli", Full1(r), Full1(r), CIImmediate(c))
    BY <1>19, <1>0, Distinct DEF DecodeCompressed, With, C2
  <2> QED BY <2>1, <2>2, AgreesShift, ImmediateOfSix, HalfRegisters, <1>a, <1>b DEF c
<1>20. CASE With(r, Two, Two)
  <2>1. CompressedMeaning(r) = Operands("lw", Full1(r), SP, X0,
                                   Gather(r, 2, <<4, 5, 6, 12, 2, 3>>), Two)
    BY <1>20, Distinct DEF CompressedMeaning, With
  <2>2. DecodeCompressed(c) = ExpandI("lw", Full1(r), SP, LwspImmediate(c))
    BY <1>20, <1>0, Distinct DEF DecodeCompressed, With, C2
  <2> QED BY <2>1, <2>2, AgreesI, ImmediateOfLwsp, HalfRegisters, <1>a, <1>b DEF c
<1>21. CASE With(r, Two, Four) /\ Full2(r) # X0
  <2>1. CompressedMeaning(r) = Operands("add",
                                   Full1(r), IF 12 \in r THEN Full1(r) ELSE X0, Full2(r), {}, Two)
    BY <1>21, Distinct DEF CompressedMeaning, With
  <2>2. DecodeCompressed(c) = ExpandR("add", Full1(r), IF 12 \in r THEN Full1(r) ELSE X0, Full2(r))
    <3>1. Full1(r) # X0
      BY <1>21 DEF Reserved, IsEbreak
    <3> QED BY <1>21, <1>0, <3>1, Distinct DEF DecodeCompressed, With, C2, RegisterPair, One
  <2> QED BY <2>1, <2>2, AgreesR, HalfRegisters, <1>a, <1>b DEF c
<1>22. CASE With(r, Two, Four) /\ Full2(r) = X0
  <2>0. Full1(r) # X0
    BY <1>22 DEF Reserved, DepartsHalfWord
  <2>1. CompressedMeaning(r) = Operands("jalr",
                                   IF 12 \in r THEN RA ELSE X0, Full1(r), X0, {}, Two)
    BY <1>22, <2>0, Distinct DEF CompressedMeaning, With, IsEbreak
  <2>2. DecodeCompressed(c) = ExpandI("jalr", IF 12 \in r THEN RA ELSE X0, Full1(r), {})
    BY <1>22, <1>0, <2>0, Distinct DEF DecodeCompressed, With, C2, RegisterPair, One
  <2> QED BY <2>1, <2>2, AgreesI, HalfRegisters, <1>a, <1>b DEF c
<1>23. CASE With(r, Two, {1, 2})
  <2>1. CompressedMeaning(r) = Operands("sw", X0,
                                   SP, Full2(r), Gather(r, 2, <<9, 10, 11, 12, 7, 8>>), Two)
    BY <1>23, Distinct DEF CompressedMeaning, With, IsEbreak
  <2>2. DecodeCompressed(c) = ExpandS("sw", SP, Full2(r), CSSWord(c))
    BY <1>23, <1>0, Distinct DEF DecodeCompressed, With, C2, StoreToStack
  <2> QED BY <2>1, <2>2, AgreesS, ImmediateOfSwsp, HalfRegisters, <1>a, <1>b DEF c
<1> QED
  BY <1>1, <1>2, <1>3, <1>4, <1>5, <1>6, <1>7, <1>8, <1>9, <1>10, <1>11, <1>12,
     <1>13, <1>14, <1>15, <1>16, <1>17, <1>18, <1>19, <1>20, <1>21, <1>22, <1>23, <1>g,
     Distinct DEF With, Reserved
=============================================================================
