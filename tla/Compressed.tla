----------------------------- MODULE Compressed -----------------------------
(***************************************************************************)
(* The decoder of compressed instructions.  c is a halfword of code, with  *)
(* its sign extended, as it comes from the memory.  Where a switch of the  *)
(* source has no case that returns, it falls through to the next, and so   *)
(* do the operators here.                                                  *)
(***************************************************************************)
EXTENDS Decoder

X0 == {}
RA == {0}                      (* x1 *)
SP == {1}                      (* x2 *)
One == {0}
Three == {0, 1}
Eight == {3}

-----------------------------------------------------------------------------
(***************************************************************************)
(* The formats.  A register of three bits is one of x8 to x15.             *)
(***************************************************************************)

CFunct3(c) == Field(c, 13, 3)
CFunct2(c) == Field(c, 10, 2)
Funct4(c) == Field(c, 12, 4)
Funct6(c) == Field(c, 10, 6)
CRs1(c) == Field(c, 7, 5)
CRs2(c) == Field(c, 2, 5)
ShortRs1(c) == Field(c, 7, 3) \cup Eight
ShortRs2(c) == Field(c, 2, 3) \cup Eight         (* also the rd of CIW and CL *)

CIUnsigned(c) == Shl(Field(c, 12, 1), 5) \cup Field(c, 2, 5)
CIImmediate_Unsigned(c) == CIUnsigned(c)
CIImmediate(c) ==
  IF 12 \in c THEN Byte(CIUnsigned(c) \cup Shl(Three, 6)) ELSE CIUnsigned(c)
CBImmediate(c) == Field(c, 2, 5) \cup Shl(Field(c, 12, 1), 5)
CBBranch(c) ==
  Byte(Shl(Field(c, 3, 2), 1) \cup Shl(Field(c, 10, 2), 3) \cup Shl(Field(c, 2, 1), 5)
       \cup Shl(Field(c, 5, 2), 6) \cup Shl(Field(c, 12, 1), 8))
CIWImmediate(c) == Byte(Field(c, 5, 8))
CLImmediate(c) ==
  Byte(Shl(Field(c, 6, 1) \cup Shl(Field(c, 10, 3), 1) \cup Shl(Field(c, 5, 1), 4), 2))
CSSImmediate(c) == Field(c, 7, 6)
CSSWord(c) ==
  LET imm == CSSImmediate(c)
  IN Low(Shl(Field(imm, 2, 4) \cup Shl(Low(imm, 2), 4), 2), 8)
CJImmediate(c) ==
  LET imm == Shl(Field(c, 3, 3) \cup Shl(Field(c, 11, 1), 3) \cup Shl(Field(c, 2, 1), 4)
                 \cup Shl(Field(c, 7, 1), 5) \cup Shl(Field(c, 6, 1), 6)
                 \cup Shl(Field(c, 9, 2), 7) \cup Shl(Field(c, 8, 1), 9)
                 \cup Shl(Field(c, 12, 1), 10), 1)
  IN IF 11 \in imm THEN Short(imm \cup 12 .. 15) ELSE imm

(* The bits of the immediates that are permuted by the decoder itself.     *)
Addi4spnImmediate(c) ==
  LET imm == CIWImmediate(c)
  IN Shl(Field(imm, 1, 1) \cup Shl(Low(imm, 1), 1) \cup Shl(Field(imm, 6, 2), 2)
         \cup Shl(Field(imm, 2, 4), 4), 2)
Addi16spImmediate(c) ==
  LET imm == CIImmediate(c)
  IN Shl(Field(imm, 4, 1) \cup Shl(Low(imm, 1), 1) \cup Shl(Field(imm, 3, 1), 2)
         \cup Shl(Field(imm, 1, 2), 3) \cup Shl(Field(imm, 5, 1), 5), 4)
LwspImmediate(c) ==
  LET imm == CIUnsigned(c)
  IN Shl(Field(imm, 2, 3) \cup Shl(Field(imm, 5, 1), 3) \cup Shl(Low(imm, 2), 4), 2)

-----------------------------------------------------------------------------
(***************************************************************************)
(* The words that the compressed instructions expand into.                 *)
(***************************************************************************)

Expanded(op, raw) == Instruction(op, raw, Two)

ExpandI(op, rd, rs1, imm) ==
  Expanded(op, PackI(Opcodes[op].type, rd, Opcodes[op].funct3, rs1,
                     imm \cup Shl(Opcodes[op].funct7, 5)))
ExpandR(op, rd, rs1, rs2) ==
  Expanded(op, PackR(Opcodes[op].type, rd, Opcodes[op].funct3, rs1, rs2,
                     Opcodes[op].funct7))
ExpandS(op, rs1, rs2, imm) ==
  Expanded(op, PackS(Opcodes[op].type, Opcodes[op].funct3, rs1, rs2, imm))
ExpandSB(op, rs1, rs2, imm) ==
  Expanded(op, PackSB(Opcodes[op].type, Opcodes[op].funct3, rs1, rs2, imm))
ExpandU(op, rd, imm) == Expanded(op, PackU(Opcodes[op].type, rd, imm))
ExpandUJ(op, rd, imm) == Expanded(op, PackUJ(Opcodes[op].type, rd, imm))

Jump(c) == ExpandUJ("jal", X0, CJImmediate(c))
JumpAndLink(c) == ExpandUJ("jal", RA, CJImmediate(c))
StoreToStack(c) == ExpandS("sw", SP, CRs2(c), CSSWord(c))

PairOp(field) ==
  IF field = {} THEN "sub" ELSE IF field = One THEN "xor"
  ELSE IF field = Two THEN "or" ELSE "and"

(* Shifts, and operations of two registers, or else a jump.                *)
Arithmetic(c) ==
  LET r == ShortRs1(c)
  IN IF CFunct2(c) = {} THEN ExpandI("srli", r, r, CBImmediate(c))
     ELSE IF CFunct2(c) = One THEN ExpandI("srai", r, r, CBImmediate(c))
     ELSE IF CFunct2(c) = Two THEN ExpandI("andi", r, r, CBImmediate(c))
     ELSE IF Low(Shr(Funct6(c), 2), 1) = {}
     THEN ExpandR(PairOp(Field(c, 5, 2)), r, r, ShortRs2(c))
     ELSE Jump(c)

C1(c) ==
  LET f == CFunct3(c)
      r == CRs1(c)
  IN IF f = {} /\ r # X0 THEN ExpandI("addi", r, r, CIImmediate(c))
     ELSE IF f \in {{}, One} THEN JumpAndLink(c)
     ELSE IF f = Two THEN ExpandI("addi", r, X0, CIImmediate(c))
     ELSE IF f = Three /\ r = SP THEN ExpandI("addi", SP, SP, Addi16spImmediate(c))
     ELSE IF f = Three /\ r # X0 THEN ExpandU("lui", r, CIImmediate(c))
     ELSE IF f \in {Three, Four} THEN Arithmetic(c)
     ELSE IF f = {0, 2} THEN Jump(c)
     ELSE ExpandSB(IF f = {1, 2} THEN "beq" ELSE "bne", ShortRs1(c), X0, CBBranch(c))

C0(c) ==
  IF CFunct3(c) = {} THEN
    IF CIWImmediate(c) = {} THEN None
    ELSE ExpandI("addi", ShortRs2(c), SP, Addi4spnImmediate(c))
  ELSE IF CFunct3(c) = Two THEN ExpandI("lw", ShortRs2(c), ShortRs1(c), CLImmediate(c))
  ELSE IF CFunct3(c) = {1, 2} THEN ExpandS("sw", ShortRs1(c), ShortRs2(c), CLImmediate(c))
  ELSE C1(c)

(* C.ADD, C.JALR, C.MV, C.JR, or else a store.                             *)
RegisterPair(c) ==
  LET r == CRs1(c)
      linked == Low(Funct4(c), 1) = One
  IN IF r = X0 THEN StoreToStack(c)
     ELSE IF CRs2(c) # X0
     THEN ExpandR("add", r, IF linked THEN r ELSE X0, CRs2(c))
     ELSE ExpandI("jalr", IF linked THEN RA ELSE X0, r, {})

C2(c) ==
  IF CFunct3(c) = {} THEN ExpandI("slli", CRs1(c), CRs1(c), CIImmediate(c))
  ELSE IF CFunct3(c) = Two THEN ExpandI("lw", CRs1(c), SP, LwspImmediate(c))
  ELSE IF CFunct3(c) = Four THEN RegisterPair(c)
  ELSE IF CFunct3(c) = {1, 2} THEN StoreToStack(c)
  ELSE None

DecodeCompressed(c) ==
  IF Low(c, 2) = {} THEN C0(c) ELSE IF Low(c, 2) = One THEN C1(c)
  ELSE IF Low(c, 2) = Two THEN C2(c) ELSE None
=============================================================================
