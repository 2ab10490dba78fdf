------------------------------ MODULE Decoder ------------------------------
(***************************************************************************)
(* How code becomes instructions.  A halfword may be a compressed one: it  *)
(* is packed into the word of the RV32I instruction that it stands for,    *)
(* and the runner unpacks that word again.  Otherwise the word is decoded. *)
(*                                                                         *)
(* All numbers here are small literals or fields of code, so they are      *)
(* written as words: {} is 0, {0} is 1, {1} is 2, {0, 1} is 3, {2} is 4.   *)
(***************************************************************************)
EXTENDS Words

-----------------------------------------------------------------------------
(***************************************************************************)
(* The formats of RV32I: packing fields into a word, and getting them back.*)
(***************************************************************************)

Header(opcode, funct3) == Low(opcode, 7) \cup Shl(Low(funct3, 3), 12)
PackRd(rd) == Shl(Low(rd, 5), 7)
PackRs1(rs1) == Shl(Low(rs1, 5), 15)
PackRs2(rs2) == Shl(Low(rs2, 5), 20)

PackI(opcode, rd, funct3, rs1, imm) ==
  Header(opcode, funct3) \cup PackRd(rd) \cup PackRs1(rs1) \cup Shl(Low(imm, 12), 20)

PackR(opcode, rd, funct3, rs1, rs2, funct7) ==
  Header(opcode, funct3) \cup PackRd(rd) \cup PackRs1(rs1) \cup PackRs2(rs2)
  \cup Shl(Low(funct7, 7), 25)

PackS(opcode, funct3, rs1, rs2, imm) ==
  Header(opcode, funct3) \cup Shl(Low(imm, 5), 7) \cup PackRs1(rs1) \cup PackRs2(rs2)
  \cup Shl(Field(imm, 5, 7), 25)

(* The mask of bits 5 to 10 is shifted before it is applied, and so meets  *)
(* bits of the sign only.                                                  *)
PackSB(opcode, funct3, rs1, rs2, imm) ==
  Header(opcode, funct3) \cup Shl(Field(imm, 11, 1), 7) \cup Shl(Field(imm, 1, 4), 8)
  \cup PackRs1(rs1) \cup PackRs2(rs2) \cup (Shr(imm, 5) \cap 25 .. 30)
  \cup Shl(Field(imm, 12, 1), 31)

PackU(opcode, rd, imm) == Low(opcode, 7) \cup PackRd(rd) \cup Shl(Low(imm, 20), 12)

PackUJ(opcode, rd, imm) ==
  Low(opcode, 7) \cup PackRd(rd) \cup Shl(Field(imm, 20, 1), 31)
  \cup Shl(Field(imm, 1, 10), 21) \cup Shl(Field(imm, 11, 1), 20)
  \cup Shl(Field(imm, 12, 8), 12)

Rd(w) == Field(w, 7, 5)
Funct3(w) == Field(w, 12, 3)
Rs1(w) == Field(w, 15, 5)
Rs2(w) == Field(w, 20, 5)
Funct7(w) == Byte(Shr(w, 25))

ImmI(w) == Short(Shr(w, 20))
ImmS(w) == SignFrom(Field(w, 7, 5) \cup Shl(Field(w, 25, 7), 5), 11)
ImmSB(w) == Byte(Shl(Field(w, 8, 4), 1) \cup Shl(Field(w, 25, 6), 5)
                 \cup Shl(Field(w, 7, 1), 11) \cup Shl(Field(w, 31, 1), 12))
ImmU(w) == Shr(w, 12)
ImmUJ(w) == Shl(Field(w, 21, 10), 1) \cup Shl(Field(w, 20, 1), 11)
            \cup Shl(Field(w, 12, 8), 12) \cup Shl(Shr(w, 31), 20)

-----------------------------------------------------------------------------
(***************************************************************************)
(* The instructions of RV32I.                                              *)
(***************************************************************************)

LOAD == {0, 1}                 (* 0x03 *)
OP_IMM == {0, 1, 4}            (* 0x13 *)
AUIPC == {0, 1, 2, 4}          (* 0x17 *)
STORE == {0, 1, 5}             (* 0x23 *)
OP == {0, 1, 4, 5}             (* 0x33 *)
LUI == {0, 1, 2, 4, 5}         (* 0x37 *)
BRANCH == {0, 1, 5, 6}         (* 0x63 *)
JALR == {0, 1, 2, 5, 6}        (* 0x67 *)
JAL == {0, 1, 2, 3, 5, 6}      (* 0x6f *)

Info(type, funct3, funct7) == [type |-> type, funct3 |-> funct3, funct7 |-> funct7]

Loads == [lb |-> {}, lh |-> {0}, lw |-> {1}, lbu |-> {2}, lhu |-> {0, 2}]
Stores == [sb |-> {}, sh |-> {0}, sw |-> {1}]
Branches == [beq |-> {}, bne |-> {0}, blt |-> {2}, bge |-> {0, 2},
             bltu |-> {1, 2}, bgeu |-> {0, 1, 2}]
Immediates == [addi |-> {}, slli |-> {0}, slti |-> {1}, sltiu |-> {0, 1}, xori |-> {2},
               srli |-> {0, 2}, srai |-> {0, 2}, ori |-> {1, 2}, andi |-> {0, 1, 2}]
Registers == [add |-> {}, sub |-> {}, sll |-> {0}, slt |-> {1}, sltu |-> {0, 1},
              xor |-> {2}, srl |-> {0, 2}, sra |-> {0, 2}, or |-> {1, 2},
              and |-> {0, 1, 2}]
Upper == {"lui", "auipc"}

(* Those with a 32 in funct7, or in the upper bits of the immediate.       *)
Alternate == {"sub", "sra", "srai"}
HasFunct7 == {"add", "sub", "srl", "sra"}

Opcodes == [op \in DOMAIN Loads \cup DOMAIN Stores \cup DOMAIN Branches
                   \cup DOMAIN Immediates \cup DOMAIN Registers \cup Upper
                   \cup {"jal", "jalr"} |->
  Info(IF op \in DOMAIN Loads THEN LOAD
       ELSE IF op \in DOMAIN Stores THEN STORE
       ELSE IF op \in DOMAIN Branches THEN BRANCH
       ELSE IF op \in DOMAIN Immediates THEN OP_IMM
       ELSE IF op \in DOMAIN Registers THEN OP
       ELSE [lui |-> LUI, auipc |-> AUIPC, jal |-> JAL, jalr |-> JALR][op],
       IF op \in DOMAIN Loads THEN Loads[op]
       ELSE IF op \in DOMAIN Stores THEN Stores[op]
       ELSE IF op \in DOMAIN Branches THEN Branches[op]
       ELSE IF op \in DOMAIN Immediates THEN Immediates[op]
       ELSE IF op \in DOMAIN Registers THEN Registers[op] ELSE {},
       IF op \in Alternate THEN {5} ELSE {})]

(* What the switches of the decoder look at: bits no case names are free.  *)
Matches(op, w) ==
  /\ Low(w, 7) = Opcodes[op].type
  /\ op \notin Upper \cup {"jal", "jalr"} => Funct3(w) = Opcodes[op].funct3
  /\ op \in HasFunct7 => Funct7(w) = Opcodes[op].funct7
  /\ op \in {"srli", "srai"} => Shr(ImmI(w), 5) = Opcodes[op].funct7

(* An instruction with the word that the runner unpacks, and its size.     *)
Instruction(op, raw, size) == [op |-> op, raw |-> raw, size |-> size]
None == Instruction("none", {}, {})
Two == {1}
Four == {2}

Decode(w) ==
  IF \E op \in DOMAIN Opcodes : Matches(op, w)
  THEN Instruction(CHOOSE op \in DOMAIN Opcodes : Matches(op, w), w, Four)
  ELSE None
=============================================================================
