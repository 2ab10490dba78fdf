-------------------------------- MODULE War --------------------------------
(***************************************************************************)
(* One war: War.loadWarriorGroups puts the warriors into the arena, then   *)
(* War.nextRound lets every living warrior execute one opcode, in the      *)
(* order they were loaded.  Both are synchronous calls; each action below  *)
(* is one turn of their loops.                                             *)
(*                                                                         *)
(* The memory keeps, for every byte, not its value but who wrote it last.  *)
(* What an opcode computes is left open: it may jump anywhere, store to    *)
(* any address, or be illegal.  The warriors' energy is left out: the code *)
(* has it at 0 for everyone, so that nobody ever earns a second opcode.    *)
(***************************************************************************)
EXTENDS Integers, FiniteSets

CONSTANTS
  Warriors,       (* all that enter, zombies included                      *)
  Groups,         (* the groups they may belong to                         *)
  NoOne,          (* nobody's byte, no group                               *)
  ArenaSize,      (* ARENA_SIZE: bytes 0 .. ArenaSize - 1 are the arena    *)
  MemorySize,     (* MEMORY_SIZE: bytes of the whole core                  *)
  MinGap,         (* MIN_GAP                                               *)
  StackSize,      (* STACK_SIZE                                            *)
  SharedSize,     (* GROUP_SHARED_MEMORY_SIZE                              *)
  MaxWarriorSize, (* MAX_WARRIOR_SIZE: longer code is cut off              *)
  Lengths,        (* lengths of the code the players hand in               *)
  OpcodeSizes,    (* 2 and 4: compressed and full opcodes                  *)
  Widths,         (* 1, 2 and 4: what a store instruction writes           *)
  Targets,        (* addresses a store may be aimed at                     *)
  MaxRounds       (* bound: rounds that are run                            *)

ASSUME WarAssumption ==
  /\ IsFiniteSet(Warriors)
  /\ NoOne \notin Warriors /\ NoOne \notin Groups
  /\ ArenaSize \in Nat \ {0} /\ MemorySize \in Nat /\ ArenaSize <= MemorySize
  /\ MinGap \in Nat
  /\ StackSize \in Nat \ {0} /\ SharedSize \in Nat \ {0}
  /\ MaxWarriorSize \in Nat \ {0}
  /\ Lengths \subseteq Nat \ {0}
  /\ OpcodeSizes \subseteq Nat \ {0}
  /\ Widths \subseteq Nat \ {0}
  /\ Targets \subseteq Int
  /\ MaxRounds \in Nat

VARIABLES
  data,           (* the WarriorData of everyone; fixed is -1 for a random *)
                  (* load address                                          *)
  newMemory,      (* useNewMemory: private memories and protection         *)
  phase,          (* "loading", "fighting", or "failed" when it threw      *)
  groupsLeft,     (* groupsLeftToLoad, without the group being loaded      *)
  group,          (* the group being loaded                                *)
  groupShared,    (* groupSharedMemory of that group                       *)
  warrior,        (* m_warriors by name; index -1 when not loaded yet      *)
  numWarriors, numAlive, nextFree, currentWarrior, core, round

vars == << data, newMemory, phase, groupsLeft, group, groupShared, warrior,
           numWarriors, numAlive, nextFree, currentWarrior, core, round >>
input == <<data, newMemory>>
loading == <<phase, groupsLeft, group, groupShared, numWarriors, nextFree>>

Addresses == 0 .. MemorySize - 1
Arena == 0 .. ArenaSize - 1

(* truncToSize: the code that is loaded.                                   *)
CodeSize(w) == IF data[w].length > MaxWarriorSize THEN MaxWarriorSize
               ELSE data[w].length

IsFixed(w) == data[w].fixed >= 0
Loaded(w) == warrior[w].index >= 0

(* Ranges are given by their first address and their length.               *)
Overlap(a, m, b, n) == a <= b + n - 1 /\ b <= a + m - 1

(***************************************************************************)
(* FixedLoadAddressChecker.addCheck accepted every fixed address: the code *)
(* fits below the end of the arena, and no two fixed ranges overlap.  The  *)
(* ranges have the length of the code as it was handed in, before it is    *)
(* cut off.                                                                *)
(***************************************************************************)
FixedAccepted(d) ==
  \A w \in Warriors : d[w].fixed >= 0 =>
    /\ d[w].fixed <= ArenaSize - d[w].length
    /\ \A v \in Warriors \ {w} : d[v].fixed >= 0 =>
         ~Overlap(d[w].fixed, d[w].length, d[v].fixed, d[v].length)

Unloaded ==
  [ index |-> -1, offset |-> 0, stack |-> 0, shared |-> 0, pc |-> 0,
    alive |-> FALSE ]

Init ==
  /\ data \in [Warriors -> [group : Groups, length : Lengths,
                            fixed : {-1} \cup Arena]]
  /\ FixedAccepted(data)
  /\ newMemory \in BOOLEAN
  /\ phase = "loading"
  /\ groupsLeft = {data[w].group : w \in Warriors}
  /\ group = NoOne /\ groupShared = 0
  /\ warrior = [w \in Warriors |-> Unloaded]
  /\ numWarriors = 0 /\ numAlive = 0
  /\ nextFree = ArenaSize
  /\ currentWarrior = 0
  /\ core = [x \in Addresses |-> NoOne]
  /\ round = 0

-----------------------------------------------------------------------------
(***************************************************************************)
(* Loading.  The groups are taken in random order; a group gets its shared *)
(* memory, then its warriors are loaded one after the other.               *)
(***************************************************************************)
Pending == {w \in Warriors : data[w].group = group /\ ~Loaded(w)}

BeginGroup ==
  /\ phase = "loading" /\ Pending = {}
  /\ \E g \in groupsLeft : group' = g /\ groupsLeft' = groupsLeft \ {g}
  /\ groupShared' = nextFree
  /\ nextFree' = nextFree + SharedSize
  /\ UNCHANGED <<data, newMemory, phase, warrior, numWarriors, numAlive,
                 currentWarrior, core, round>>

(* A mutant: the last byte of the code may lie on a fixed place.           *)
ClearOfFixed_ButLast(w, a) ==
  \A v \in Warriors : IsFixed(v) =>
    ~Overlap(a, CodeSize(w) - 1, data[v].fixed, data[v].length)

(* checkOverlap: the warriors with a fixed address keep their place free,  *)
(* loaded or not.                                                          *)
ClearOfFixed(w, a) ==
  \A v \in Warriors : IsFixed(v) =>
    ~Overlap(a, CodeSize(w), data[v].fixed, data[v].length)

(* A mutant: the last warrior that was loaded is not looked at.            *)
ClearOfLoaded_ButLast(w, a) ==
  \A v \in Warriors : Loaded(v) /\ warrior[v].index < numWarriors - 1 =>
    ~ /\ a + CodeSize(w) >= warrior[v].offset - MinGap
      /\ a < warrior[v].offset + CodeSize(v) + MinGap

ClearOfLoaded(w, a) ==
  \A v \in Warriors : Loaded(v) =>
    ~ /\ a + CodeSize(w) >= warrior[v].offset - MinGap
      /\ a < warrior[v].offset + CodeSize(v) + MinGap

(* A mutant: no gap is left at the end of the arena.                       *)
Suitable_NoEndGap(w, a) ==
  /\ a >= MinGap
  /\ a + CodeSize(w) <= ArenaSize
  /\ ClearOfFixed(w, a)
  /\ ClearOfLoaded(w, a)

(* getLoadOffset: is the random address a good one?                        *)
Suitable(w, a) ==
  /\ a >= MinGap
  /\ a + CodeSize(w) <= ArenaSize - MinGap
  /\ ClearOfFixed(w, a)
  /\ ClearOfLoaded(w, a)

Cell(x) == x % ArenaSize

Load(w, a) ==
  /\ warrior' = [warrior EXCEPT ![w] =
       [ index |-> numWarriors, offset |-> a, stack |-> nextFree,
         shared |-> groupShared, pc |-> Cell(a), alive |-> TRUE ]]
  /\ core' = [x \in Addresses |->
       IF \E i \in 0 .. CodeSize(w) - 1 : x = Cell(a + i) THEN w ELSE core[x]]
  /\ nextFree' = nextFree + StackSize
  /\ numWarriors' = numWarriors + 1
  /\ numAlive' = numAlive + 1
  /\ currentWarrior' = currentWarrior + 1
  /\ UNCHANGED <<data, newMemory, phase, groupsLeft, group, groupShared, round>>

LoadWarrior ==
  /\ phase = "loading"
  /\ \E w \in Pending :
       IF IsFixed(w) THEN Load(w, data[w].fixed)
       ELSE \E a \in Arena : Suitable(w, a) /\ Load(w, a)

(* A mutant: it never gives up.                                            *)
LoadFails_TriesAgain ==
  /\ phase = "loading"
  /\ \E w \in Pending : ~IsFixed(w) /\ \E a \in Arena : ~Suitable(w, a)
  /\ UNCHANGED vars

(* All of the MAX_LOADING_TRIES random addresses were bad ones.            *)
LoadFails ==
  /\ phase = "loading"
  /\ \E w \in Pending : ~IsFixed(w) /\ \E a \in Arena : ~Suitable(w, a)
  /\ phase' = "failed"
  /\ UNCHANGED <<data, newMemory, groupsLeft, group, groupShared, warrior,
                 numWarriors, numAlive, nextFree, currentWarrior, core, round>>

LoadingDone ==
  /\ phase = "loading" /\ Pending = {} /\ groupsLeft = {}
  /\ phase' = "fighting"
  /\ group' = NoOne
  /\ currentWarrior' = -1
  /\ UNCHANGED <<data, newMemory, groupsLeft, groupShared, warrior,
                 numWarriors, numAlive, nextFree, core, round>>

-----------------------------------------------------------------------------
(***************************************************************************)
(* Memory as a warrior sees it.  With the new memory an access outside the *)
(* arena, its stack and its group's memory is an exception; with the old   *)
(* one every address is wrapped around into the arena.                     *)
(***************************************************************************)
Region(start, size) == start .. start + size - 1
Stack(w) == Region(warrior[w].stack, StackSize)
Shared(w) == Region(warrior[w].shared, SharedSize)

(* A mutant: every byte of the memory is allowed.                          *)
Allowed_All(w, x) == newMemory => x \in Addresses

Allowed(w, x) ==
  newMemory => x \in Addresses /\ x \in Shared(w) \cup Stack(w) \cup Arena

Physical(x) == IF newMemory THEN x ELSE Cell(x)

Accessible(w, a, width) == \A i \in 0 .. width - 1 : Allowed(w, a + i)

(* A store goes byte by byte, upwards, and stops at the first bad byte;    *)
(* the bytes before it stay written.                                       *)
Written(w, a, width) ==
  { Physical(a + i) :
      i \in {j \in 0 .. width - 1 : \A k \in 0 .. j : Allowed(w, a + k)} }

Store(w, a, width) ==
  core' = [x \in Addresses |->
             IF x \in Written(w, a, width) THEN w ELSE core[x]]

-----------------------------------------------------------------------------
(***************************************************************************)
(* A round.                                                                *)
(***************************************************************************)
StartRound ==
  /\ phase = "fighting" /\ currentWarrior = -1 /\ round < MaxRounds
  /\ currentWarrior' = 0
  /\ UNCHANGED <<input, loading, warrior, numAlive, core, round>>

(* A mutant: the round ends before the last warrior's turn.                *)
NextWarrior_ButLast ==
  IF currentWarrior + 2 < numWarriors
  THEN /\ currentWarrior' = currentWarrior + 1
       /\ UNCHANGED round
  ELSE /\ currentWarrior' = -1
       /\ round' = round + 1

(* The next warrior, or the end of the round.                              *)
NextWarrior ==
  IF currentWarrior + 1 < numWarriors
  THEN /\ currentWarrior' = currentWarrior + 1
       /\ UNCHANGED round
  ELSE /\ currentWarrior' = -1
       /\ round' = round + 1

(* A mutant: m_currentWarrior is moved on only after the next one's turn.  *)
OnTurn_Late(w) ==
  phase = "fighting" /\ Loaded(w) /\ warrior[w].index = currentWarrior + 1

OnTurn(w) ==
  phase = "fighting" /\ Loaded(w) /\ warrior[w].index = currentWarrior

Lives(w, p) ==
  /\ warrior' = [warrior EXCEPT ![w].pc = p]
  /\ UNCHANGED numAlive

(* A mutant: the dead are not counted.                                     *)
Dies_Uncounted(w) ==
  /\ warrior' = [warrior EXCEPT ![w].alive = FALSE]
  /\ UNCHANGED numAlive

(* The pc is put back to where the opcode began.                           *)
Dies(w) ==
  /\ warrior' = [warrior EXCEPT ![w].alive = FALSE]
  /\ numAlive' = numAlive - 1

SkipDead(w) ==
  /\ OnTurn(w) /\ ~warrior[w].alive
  /\ NextWarrior
  /\ UNCHANGED <<input, loading, warrior, numAlive, core>>

Fetches(w, size) == Accessible(w, warrior[w].pc, size)

(* An opcode that stores nothing and ends with the pc inside the arena.    *)
Computes(w) ==
  /\ OnTurn(w) /\ warrior[w].alive
  /\ \E size \in OpcodeSizes : Fetches(w, size)
  /\ \E p \in Arena : Lives(w, p)
  /\ NextWarrior
  /\ UNCHANGED <<input, loading, core>>

(* An opcode that cannot be fetched or decoded, loads from a forbidden     *)
(* address or jumps out of the arena.                                      *)
Faults(w) ==
  /\ OnTurn(w) /\ warrior[w].alive
  /\ Dies(w)
  /\ NextWarrior
  /\ UNCHANGED <<input, loading, core>>

(* A mutant: the pc may run out of the arena.                              *)
Stores_AnyNext(w) ==
  /\ OnTurn(w) /\ warrior[w].alive
  /\ \E size \in OpcodeSizes, a \in Targets, width \in Widths :
       /\ Fetches(w, size)
       /\ Store(w, a, width)
       /\ IF Accessible(w, a, width) THEN Lives(w, warrior[w].pc + size)
          ELSE Dies(w)
  /\ NextWarrior
  /\ UNCHANGED <<input, loading>>

(* A store; after it the pc moves on to the next opcode.                   *)
Stores(w) ==
  /\ OnTurn(w) /\ warrior[w].alive
  /\ \E size \in OpcodeSizes, a \in Targets, width \in Widths :
       LET next == warrior[w].pc + size IN
       /\ Fetches(w, size)
       /\ Store(w, a, width)
       /\ IF Accessible(w, a, width) /\ next \in Arena
          THEN Lives(w, next) ELSE Dies(w)
  /\ NextWarrior
  /\ UNCHANGED <<input, loading>>

Round ==
  \E w \in Warriors : SkipDead(w) \/ Computes(w) \/ Faults(w) \/ Stores(w)

Next ==
  BeginGroup \/ LoadWarrior \/ LoadFails \/ LoadingDone \/ StartRound \/ Round

(* Loading is one call, which runs on; whether and when a round is run is  *)
(* for the caller to decide.                                               *)
Fairness == WF_vars(BeginGroup \/ LoadWarrior \/ LoadFails \/ LoadingDone)

Spec == Init /\ [][Next]_vars
FairSpec == Spec /\ Fairness

-----------------------------------------------------------------------------
(***************************************************************************)
(* Safety.                                                                 *)
(***************************************************************************)
TypeOK ==
  /\ data \in [Warriors -> [group : Groups, length : Lengths,
                            fixed : {-1} \cup Arena]]
  /\ newMemory \in BOOLEAN
  /\ phase \in {"loading", "fighting", "failed"}
  /\ groupsLeft \subseteq Groups
  /\ group \in Groups \cup {NoOne}
  /\ groupShared \in Nat
  /\ warrior \in [Warriors ->
       [ index : {-1} \cup Nat, offset : Arena, stack : Nat, shared : Nat,
         pc : Arena, alive : BOOLEAN ]]
  /\ numWarriors \in Nat /\ numAlive \in Nat /\ nextFree \in Nat
  /\ currentWarrior \in {-1} \cup Nat
  /\ core \in [Addresses -> Warriors \cup {NoOne}]
  /\ round \in 0 .. MaxRounds

(* m_numWarriorsAlive, which ends the war and divides the points, is       *)
(* counted up and down by hand; it stays the number of those alive.        *)
AliveCounted == numAlive = Cardinality({w \in Warriors : warrior[w].alive})

(* No warrior is loaded over the code of another one, nor over a place     *)
(* that a fixed address keeps for one that is still to come.               *)
CodeApart ==
  \A w, v \in Warriors : w # v /\ Loaded(w) =>
    /\ Loaded(v) =>
         ~Overlap(warrior[w].offset, CodeSize(w), warrior[v].offset, CodeSize(v))
    /\ IsFixed(v) =>
         ~Overlap(warrior[w].offset, CodeSize(w), data[v].fixed, CodeSize(v))

(* Until the first round every warrior's code is there, byte for byte.     *)
CodeIntact ==
  phase = "loading" \/ (phase = "fighting" /\ round = 0 /\ currentWarrior = -1)
    => \A w \in Warriors : Loaded(w) =>
         \A i \in 0 .. CodeSize(w) - 1 : core[warrior[w].offset + i] = w

(* Warriors at random addresses are MIN_GAP bytes from the ends of the     *)
(* arena and from each other, whatever the order they were loaded in.      *)
RandomKeepsGap ==
  \A w \in Warriors : Loaded(w) /\ ~IsFixed(w) =>
    /\ warrior[w].offset >= MinGap
    /\ warrior[w].offset + CodeSize(w) + MinGap <= ArenaSize
    /\ \A v \in Warriors : Loaded(v) /\ ~IsFixed(v) /\ v # w =>
         \/ warrior[w].offset >= warrior[v].offset + CodeSize(v) + MinGap
         \/ warrior[v].offset >= warrior[w].offset + CodeSize(w) + MinGap

(* The private memories: nobody but a warrior writes its stack, nobody but *)
(* its group the group's memory, and with the old memory nobody writes     *)
(* outside the arena.                                                      *)
PrivateMemory ==
  /\ \A w \in Warriors, x \in Addresses : Loaded(w) =>
       /\ x \in Stack(w) => core[x] \in {NoOne, w}
       /\ x \in Shared(w) => core[x] = NoOne \/ data[core[x]].group = data[w].group
  /\ ~newMemory => \A x \in Addresses \ Arena : core[x] = NoOne

(* A byte of the core changes only to belong to the warrior that           *)
(* getCurrentWarrior names: the canvas paints it in that warrior's colour. *)
PaintedByWriter ==
  [][ \A x \in Addresses : core'[x] # core[x] =>
        core'[x] # NoOne /\ warrior'[core'[x]].index = currentWarrior ]_vars

(* The dead stay dead and stay where they died, and only the warrior whose *)
(* turn it is ever moves or dies.                                          *)
OnlyTheCurrentMoves ==
  [][ \A w \in Warriors : Loaded(w) /\ warrior'[w] # warrior[w] =>
        warrior[w].alive /\ warrior[w].index = currentWarrior ]_vars

(* What a war promises: seen through this mapping it is a Battle.  Nobody  *)
(* is left out when it begins, and the loop of nextRound over m_warriors   *)
(* gives everyone alive one turn, whoever dies or is dead before or after. *)
B == INSTANCE Battle WITH
  Fighters <- Warriors,
  stage    <- IF phase = "loading" THEN "gathering"
              ELSE IF phase = "failed" THEN "broken off"
              ELSE IF currentWarrior = -1 THEN "rest" ELSE "round",
  living   <- {w \in Warriors : warrior[w].alive},
  toMove   <- IF phase = "fighting" /\ currentWarrior # -1
              THEN {w \in Warriors : warrior[w].alive /\ warrior[w].index >= currentWarrior}
              ELSE {},
  rounds   <- round

BattleSpec == B!Spec

(***************************************************************************)
(* Liveness.                                                               *)
(***************************************************************************)

(* Loading comes to an end, one way or the other.                          *)
LoadingEnds == phase = "loading" ~> phase # "loading"
=============================================================================
