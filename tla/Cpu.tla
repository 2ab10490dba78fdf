-------------------------------- MODULE Cpu --------------------------------
(***************************************************************************)
(* The turns of one warrior: CpuRiscV fetches through the memory that is   *)
(* restricted to its regions, decodes, executes and moves the pc, and      *)
(* Warrior.nextOpcode checks where the pc got to.  What the instructions   *)
(* are to do is said apart, in Isa.                                        *)
(*                                                                         *)
(* Words are sets of the positions of their ones (Words); so are addresses,*)
(* bytes and the numbers of registers.  An exception ends the warrior, so  *)
(* it is the last thing that happens here.                                 *)
(***************************************************************************)
EXTENDS Isa

CONSTANTS
  AddressBits,    (* of the core: it has 2^AddressBits bytes               *)
  Files,          (* contents of the registers to start from               *)
  Cores,          (* contents of the memory to start from                  *)
  MaxTurns        (* bound: turns of the warrior                           *)

Index == SUBSET (0 .. 4)
Addresses == SUBSET (0 .. AddressBits - 1)
Octet == SUBSET (0 .. 7)

ASSUME CpuAssumption ==
  /\ ArenaBits \in Nat /\ AddressBits \in Nat /\ MaxTurns \in Nat
  /\ 2 <= ArenaBits /\ ArenaBits <= AddressBits /\ AddressBits <= 31
  /\ Arena \subseteq Allowed /\ Allowed \subseteq Addresses
  /\ \A file \in Files : file \in [Index -> Word] /\ file[X0] = {}
  /\ \A core \in Cores : core \in [Addresses -> Octet]

VARIABLE turns    (* taken; the others are those of Isa                    *)

vars == <<reg, pc, mem, useNewMemory, trapped, turns>>

Init ==
  /\ reg \in Files /\ mem \in Cores /\ pc = {}
  /\ useNewMemory \in BOOLEAN
  /\ trapped = FALSE /\ turns = 0

-----------------------------------------------------------------------------
(***************************************************************************)
(* The memory.                                                             *)
(***************************************************************************)

(* RestrictedMemory.  To test an address and to find its place in the core.*)
IsAddressAllowed_Raw(index) == useNewMemory => index \in Addresses
IsAddressAllowed(index) == useNewMemory => index \in Allowed
Location(index) == IF useNewMemory THEN index ELSE Low(index, ArenaBits)

(* The index of byte k of what is at index.                                *)
Next1(index) == Plus(index, One)
ByteIndex(index, k) ==
  IF k = 0 THEN index ELSE IF k = 1 THEN Next1(index)
  ELSE IF k = 2 THEN Plus(index, Two) ELSE Next1(Plus(index, Two))

AllAllowed(index, n) == \A k \in 0 .. n - 1 : IsAddressAllowed(ByteIndex(index, k))

LoadByte(index) == Byte(mem[Location(index)])
LoadHalfWord(index) == Short(Low(LoadByte(index), 8) \cup Shl(LoadByte(Next1(index)), 8))
LoadWord(index) ==
  Low(LoadHalfWord(index), 16) \cup Shl(LoadHalfWord(Plus(index, Two)), 16)

(* Byte by byte, up to the first that is not allowed.                      *)
StoreBytes(index, n, value) ==
  LET Stored(k) == \A j \in 0 .. k : IsAddressAllowed(ByteIndex(index, j))
      Into(a) == {k \in 0 .. n - 1 : Stored(k) /\ Location(ByteIndex(index, k)) = a}
  IN mem' = [a \in Addresses |->
               IF Into(a) = {} THEN mem[a]
               ELSE Field(value, 8 * (CHOOSE k \in Into(a) : \A j \in Into(a) : j <= k), 8)]

-----------------------------------------------------------------------------
(***************************************************************************)
(* InstructionRunner.  i is the instruction with its word, i.raw.          *)
(***************************************************************************)

SetReg_Plain(r, value) == reg' = [reg EXCEPT ![r] = value]
SetReg(r, value) == reg' = [reg EXCEPT ![r] = value, ![X0] = {}]

(* The pc when the runner is done, and then nextOpcode adds the size.      *)
Leave(p, i) ==
  /\ pc' = Plus(p, i.size)
  /\ trapped' = (pc' \notin Arena)

Jumped(imm, i) == Minus(Plus(pc, imm), i.size)

SignBit == {31}
LessUnsigned(v, w) == Less(Plus(v, SignBit), Plus(w, SignBit))
OneIf(p) == IF p THEN One ELSE {}

AluOp(op, v, w) ==
  IF op \in {"addi", "add"} THEN Plus(v, w)
  ELSE IF op = "sub" THEN Minus(v, w)
  ELSE IF op \in {"andi", "and"} THEN v \cap w
  ELSE IF op \in {"ori", "or"} THEN v \cup w
  ELSE IF op \in {"xori", "xor"} THEN Xor(v, w)
  ELSE IF op \in {"slli", "sll"} THEN Shl(v, Amount(w))
  ELSE IF op \in {"srli", "srl"} THEN ShrU(v, Amount(w))
  ELSE IF op \in {"srai", "sra"} THEN Shr(v, Amount(w))
  ELSE IF op \in {"slti", "slt"} THEN OneIf(Less(v, w))
  ELSE OneIf(LessUnsigned(v, w))

Alu(i) ==
  /\ i.op \in DOMAIN Immediates \cup DOMAIN Registers
  /\ SetReg(Rd(i.raw),
            AluOp(i.op, reg[Rs1(i.raw)],
                  IF i.op \in DOMAIN Immediates THEN ImmI(i.raw) ELSE reg[Rs2(i.raw)]))
  /\ Leave(pc, i)
  /\ UNCHANGED mem

Lui(i) ==
  /\ i.op = "lui"
  /\ SetReg(Rd(i.raw), Low(reg[Rd(i.raw)], 12) \cup Shl(ImmU(i.raw), 12))
  /\ Leave(pc, i)
  /\ UNCHANGED mem

Auipc(i) ==
  /\ i.op = "auipc"
  /\ SetReg(Rd(i.raw), Plus(pc, Shl(ImmU(i.raw), 12)))
  /\ Leave(pc, i)
  /\ UNCHANGED mem

Width(op) ==
  IF op \in {"lb", "lbu", "sb"} THEN 1 ELSE IF op \in {"lh", "lhu", "sh"} THEN 2 ELSE 4

Loaded(op, index) ==
  IF op = "lb" THEN LoadByte(index)
  ELSE IF op = "lbu" THEN Low(LoadByte(index), 8)
  ELSE IF op = "lh" THEN LoadHalfWord(index)
  ELSE IF op = "lhu" THEN Low(LoadHalfWord(index), 16)
  ELSE LoadWord(index)

Index0(i) ==
  Plus(reg[Rs1(i.raw)], IF i.op \in DOMAIN Stores THEN ImmS(i.raw) ELSE ImmI(i.raw))

LoadFrom(i) ==
  /\ i.op \in DOMAIN Loads
  /\ AllAllowed(Index0(i), Width(i.op))
  /\ SetReg(Rd(i.raw), Loaded(i.op, Index0(i)))
  /\ Leave(pc, i)
  /\ UNCHANGED mem

StoreTo(i) ==
  /\ i.op \in DOMAIN Stores
  /\ AllAllowed(Index0(i), Width(i.op))
  /\ StoreBytes(Index0(i), Width(i.op), reg[Rs2(i.raw)])
  /\ Leave(pc, i)
  /\ UNCHANGED reg

Jal(i) ==
  /\ i.op = "jal"
  /\ SetReg(Rd(i.raw), Plus(pc, i.size))
  /\ Leave(Jumped(ImmUJ(i.raw), i), i)
  /\ UNCHANGED mem

(* The target is taken from rs1 before rd, maybe the same, is written.     *)
Jalr(i) ==
  /\ i.op = "jalr"
  /\ SetReg(Rd(i.raw), Plus(pc, i.size))
  /\ Leave(Minus(Plus(reg[Rs1(i.raw)], ImmI(i.raw)), i.size), i)
  /\ UNCHANGED mem

Taken(op, v, w) ==
  \/ op = "beq" /\ v = w
  \/ op = "bne" /\ v # w
  \/ op = "blt" /\ Less(v, w)
  \/ op = "bltu" /\ LessUnsigned(v, w)
  \/ op = "bge" /\ ~Less(v, w)
  \/ op = "bgeu" /\ ~LessUnsigned(v, w)

BranchTo(i) ==
  /\ i.op \in DOMAIN Branches
  /\ Leave(IF Taken(i.op, reg[Rs1(i.raw)], reg[Rs2(i.raw)])
           THEN Jumped(ImmSB(i.raw), i) ELSE pc, i)
  /\ UNCHANGED <<reg, mem>>

(* A load or store that is not allowed; its first bytes may be.            *)
Forbidden(i) ==
  /\ i.op \in DOMAIN Loads \cup DOMAIN Stores
  /\ ~AllAllowed(Index0(i), Width(i.op))
  /\ IF i.op \in DOMAIN Stores
     THEN StoreBytes(Index0(i), Width(i.op), reg[Rs2(i.raw)]) ELSE UNCHANGED mem
  /\ trapped' = TRUE
  /\ UNCHANGED <<reg, pc>>

-----------------------------------------------------------------------------
(***************************************************************************)
(* A turn.                                                                 *)
(***************************************************************************)

(* tryRv32cSet first; then the word, of which the lower half was loaded.   *)
Compact == DecodeCompressed(LoadHalfWord(pc))
Fetched == IF Compact # None THEN Compact ELSE Decode(LoadWord(pc))

HalfLoads == AllAllowed(pc, 2)
Loads4 == AllAllowed(pc, 4)

Execute(i) ==
  \/ Alu(i) \/ Lui(i) \/ Auipc(i) \/ LoadFrom(i) \/ StoreTo(i)
  \/ Jal(i) \/ Jalr(i) \/ BranchTo(i) \/ Forbidden(i)

(* No code can be loaded, or it is no instruction.                         *)
NoInstruction ==
  /\ \/ ~HalfLoads
     \/ HalfLoads /\ Compact = None /\ (~Loads4 \/ Fetched = None)
  /\ trapped' = TRUE
  /\ UNCHANGED <<reg, pc, mem>>

NextOpcode ==
  /\ ~trapped /\ turns < MaxTurns
  /\ \/ /\ HalfLoads /\ (Compact # None \/ Loads4)
        /\ Execute(Fetched)
     \/ NoInstruction
  /\ turns' = turns + 1
  /\ UNCHANGED useNewMemory

Next == NextOpcode
Spec == Init /\ [][Next]_vars

-----------------------------------------------------------------------------
(***************************************************************************)
(* What is promised.                                                       *)
(***************************************************************************)

(* Words have 32 bits, bytes 8, and x0 is zero whatever was written to it, *)
(* as in CpuStateRiscV.setReg.                                             *)
TypeOK ==
  /\ reg \in [Index -> Word] /\ reg[X0] = {}
  /\ pc \in Word
  /\ mem \in [Addresses -> Octet]
  /\ useNewMemory \in BOOLEAN /\ trapped \in BOOLEAN
  /\ turns \in 0 .. MaxTurns

(* A warrior that may go on is in the arena, where its next code begins:   *)
(* Warrior.nextOpcode throws as soon as a turn has left it elsewhere.      *)
PcInArena == ~trapped => pc \in Arena

(* No turn, not even one that ends in an exception half way through a word,*)
(* changes the memory outside the regions of the warrior, or outside the   *)
(* arena in the old mode: RestrictedMemory is asked for every byte.        *)
KeepsToRegions ==
  [][\A a \in Addresses : mem'[a] # mem[a] =>
       a \in IF useNewMemory THEN Allowed ELSE Arena]_vars

(* Where the code is known to do otherwise than the comments say, besides  *)
(* DepartsHalfWord: offsets of branches lose bits between the formats, LUI *)
(* keeps the lower twelve bits of rd, JALR the lowest of the target, and   *)
(* FENCE is no instruction.                                                *)
Departs(i) ==
  \/ Fits(pc, 2) /\ DepartsHalfWord(Read(pc, 2))
  \/ i.op \in DOMAIN Branches /\ LosesBits(i, IF i.size = Two THEN 6 ELSE 8)
  \/ i.op = "lui" /\ Low(reg[i.rd], 12) # {}
  \/ i.op = "jalr" /\ 0 \in Plus(reg[i.rs1], i.imm)
  \/ i.op = "fence"

(* Else every turn does what the comments say of the instruction at pc,    *)
(* looked up in the manual's listing and with its operands read off the    *)
(* code: that the decoder tells instructions apart by the right bits; that *)
(* the immediates survive being picked from the halfword, permuted, packed *)
(* into a word of RV32I, and picked from that again; that the cases of the *)
(* decoder fall through only where there is nothing to decode; that the    *)
(* size taken off by a jump and added by the turn agree.                   *)
(* (InstructionDecoder, InstructionDecoderRv32c, the formats,              *)
(* InstructionRunner and CpuRiscV.nextOpcode)                              *)
AsDocumented ==
  [][turns' # turns /\ ~Unspecified /\ ~Departs(Here) => Does(Here)]_vars

(* "C.BEQZ performs conditional control transfers.  The offset is          *)
(* sign-extended and added to the pc ...  It can therefore target a +-256B *)
(* range" (InstructionDecoderRv32c, at C.BEQZ, and C.BNEZ is analogous.)   *)
CompressedBranchesReach ==
  [][LET i == Here
     IN turns' # turns /\ i.op \in {"beq", "bne"} /\ i.size = Two =>
          pc' \in {Plus(pc, i.imm), Plus(pc, Two)}]_vars
=============================================================================
