----------------------------- MODULE War_proofs -----------------------------
(***************************************************************************)
(* Proofs about one war, for any set of warriors and groups, any code      *)
(* lengths and fixed addresses that addCheck accepts, and any sizes of the *)
(* arena, the gap and the private memories.                                *)
(***************************************************************************)
EXTENDS War, FiniteSetTheorems, TLAPS

USE WarAssumption

WarriorType ==
  [ index : {-1} \cup Nat, offset : Arena, stack : Nat, shared : Nat,
    pc : Arena, alive : BOOLEAN ]

DataType == [group : Groups, length : Lengths, fixed : {-1} \cup Arena]

(***************************************************************************)
(* The inductive invariant, in parts.  Counts ties the indices and the     *)
(* current warrior to the phase; Places says where code may be; Regions    *)
(* lays out the private memories below nextFree; Untouched says that       *)
(* nothing but the arena is written before the fight begins.               *)
(***************************************************************************)
Counts ==
  /\ phase = "loading" => currentWarrior = numWarriors
  /\ phase = "fighting" /\ currentWarrior >= 0 => round < MaxRounds
  /\ \A w \in Warriors : warrior[w].alive => Loaded(w)

Places ==
  /\ FixedAccepted(data)
  /\ \A w \in Warriors : Loaded(w) =>
       /\ warrior[w].offset + CodeSize(w) <= ArenaSize
       /\ IsFixed(w) => warrior[w].offset = data[w].fixed

Regions ==
  /\ ArenaSize <= nextFree
  /\ group # NoOne => ArenaSize <= groupShared /\ groupShared + SharedSize <= nextFree
  /\ \A w \in Warriors : Loaded(w) =>
       /\ ArenaSize <= warrior[w].stack /\ warrior[w].stack + StackSize <= nextFree
       /\ ArenaSize <= warrior[w].shared /\ warrior[w].shared + SharedSize <= nextFree
       /\ group # NoOne =>
            \/ warrior[w].stack + StackSize <= groupShared
            \/ groupShared + SharedSize <= warrior[w].stack
       /\ group # NoOne /\ data[w].group # group =>
            warrior[w].shared + SharedSize <= groupShared
  /\ \A w, v \in Warriors : Loaded(w) /\ Loaded(v) =>
       /\ w # v => \/ warrior[w].stack + StackSize <= warrior[v].stack
                   \/ warrior[v].stack + StackSize <= warrior[w].stack
       /\ \/ warrior[w].stack + StackSize <= warrior[v].shared
          \/ warrior[v].shared + SharedSize <= warrior[w].stack
       /\ data[w].group # data[v].group =>
            \/ warrior[w].shared + SharedSize <= warrior[v].shared
            \/ warrior[v].shared + SharedSize <= warrior[w].shared

Untouched ==
  phase # "fighting" => \A x \in Addresses \ Arena : core[x] = NoOne

-----------------------------------------------------------------------------
(***************************************************************************)
(* The helpers.                                                            *)
(***************************************************************************)
LEMMA CellType ==
  ASSUME NEW x \in Int
  PROVE  Cell(x) \in Arena /\ (x \in Arena => Cell(x) = x)
  BY DEF Cell, Arena

LEMMA CodeSizeType ==
  ASSUME TypeOK, NEW w \in Warriors
  PROVE  /\ data[w].length \in Nat \ {0}
         /\ CodeSize(w) \in Nat \ {0}
         /\ CodeSize(w) <= data[w].length
<1>1. data[w].length \in Nat \ {0}
  BY DEF TypeOK
<1> QED
  BY <1>1 DEF CodeSize

(* Where a load puts the code: a cell is written by w exactly when it is   *)
(* one of the CodeSize(w) cells from a on, and these are in the arena.     *)
LEMMA LoadCells ==
  ASSUME TypeOK, NEW w \in Warriors, NEW a \in Arena,
         a + CodeSize(w) <= ArenaSize, Load(w, a),
         NEW x \in Addresses
  PROVE  /\ a <= x /\ x < a + CodeSize(w) => core'[x] = w
         /\ ~(a <= x /\ x < a + CodeSize(w)) => core'[x] = core[x]
<1>1. CodeSize(w) \in Nat \ {0}
  BY CodeSizeType
<1>2. \A i \in 0 .. CodeSize(w) - 1 : Cell(a + i) = a + i
  <2> TAKE i \in 0 .. CodeSize(w) - 1
  <2>1. a + i \in Arena
    BY <1>1 DEF Arena
  <2> QED
    BY <2>1, CellType DEF Arena
<1>3. core'[x] = IF \E i \in 0 .. CodeSize(w) - 1 : x = Cell(a + i)
                 THEN w ELSE core[x]
  BY DEF Load
<1>4. ASSUME a <= x, x < a + CodeSize(w)
      PROVE  \E i \in 0 .. CodeSize(w) - 1 : x = Cell(a + i)
  <2>1. x - a \in 0 .. CodeSize(w) - 1 /\ a + (x - a) = x
    BY <1>1, <1>4 DEF Addresses, Arena
  <2> QED
    BY <1>2, <2>1
<1>5. ASSUME NEW i \in 0 .. CodeSize(w) - 1, x = Cell(a + i)
      PROVE  a <= x /\ x < a + CodeSize(w)
  BY <1>1, <1>2, <1>5 DEF Arena
<1> QED
  BY <1>3, <1>4, <1>5

(* A warrior is loaded inside the arena.                                   *)
LEMMA LoadPlace ==
  ASSUME TypeOK, Places, NEW w \in Warriors, NEW a \in Arena,
         IF IsFixed(w) THEN a = data[w].fixed ELSE Suitable(w, a)
  PROVE  a + CodeSize(w) <= ArenaSize
<1>1. CodeSize(w) \in Nat /\ data[w].length \in Nat /\ CodeSize(w) <= data[w].length
  BY CodeSizeType
<1>2. CASE IsFixed(w)
  BY <1>1, <1>2 DEF Places, FixedAccepted, IsFixed, TypeOK, Arena
<1>3. CASE ~IsFixed(w)
  BY <1>1, <1>3 DEF Suitable, Arena
<1> QED
  BY <1>2, <1>3

LEMMA LoadFields ==
  ASSUME TypeOK, NEW w \in Warriors, NEW a \in Arena, ~Loaded(w), Load(w, a)
  PROVE  /\ warrior'[w] = [ index |-> numWarriors, offset |-> a,
              stack |-> nextFree, shared |-> groupShared, pc |-> a,
              alive |-> TRUE ]
         /\ \A v \in Warriors \ {w} : warrior'[v] = warrior[v]
         /\ Loaded(w)'
         /\ \A v \in Warriors \ {w} : Loaded(v)' = Loaded(v)
         /\ warrior' \in [Warriors -> WarriorType]
<1>1. Cell(a) = a
  BY CellType DEF Arena
<1>2. warrior' = [warrior EXCEPT ![w] =
       [ index |-> numWarriors, offset |-> a, stack |-> nextFree,
         shared |-> groupShared, pc |-> a, alive |-> TRUE ]]
  BY <1>1 DEF Load
<1>3. warrior \in [Warriors -> WarriorType]
  BY DEF TypeOK, WarriorType
<1>4. [ index |-> numWarriors, offset |-> a, stack |-> nextFree,
        shared |-> groupShared, pc |-> a, alive |-> TRUE ] \in WarriorType
  BY DEF TypeOK, WarriorType
<1>5. warrior' \in [Warriors -> WarriorType]
  BY <1>2, <1>3, <1>4
<1>6. /\ warrior'[w] = [ index |-> numWarriors, offset |-> a,
              stack |-> nextFree, shared |-> groupShared, pc |-> a,
              alive |-> TRUE ]
      /\ \A v \in Warriors \ {w} : warrior'[v] = warrior[v]
  BY <1>2, <1>3
<1>7. warrior'[w].index >= 0
  BY <1>6 DEF TypeOK
<1> QED
  BY <1>5, <1>6, <1>7 DEF Loaded

(***************************************************************************)
(* One warrior's turn: nothing moves but that warrior, and the bytes that  *)
(* change are bytes it may write.                                          *)
(***************************************************************************)
Turn(w) == SkipDead(w) \/ Computes(w) \/ Faults(w) \/ Stores(w)

LEMMA TurnCore ==
  ASSUME TypeOK, NEW w \in Warriors, Turn(w)
  PROVE  /\ core' \in [Addresses -> Warriors \cup {NoOne}]
         /\ \A x \in Addresses : core'[x] # core[x] =>
              /\ core'[x] = w
              /\ newMemory => x \in Shared(w) \cup Stack(w) \cup Arena
              /\ ~newMemory => x \in Arena
<1>1. CASE SkipDead(w) \/ Computes(w) \/ Faults(w)
  BY <1>1 DEF SkipDead, Computes, Faults, TypeOK
<1>2. CASE Stores(w)
  <2>1. PICK a \in Targets, width \in Widths : Store(w, a, width)
    BY <1>2 DEF Stores
  <2>2. core' = [x \in Addresses |->
                   IF x \in Written(w, a, width) THEN w ELSE core[x]]
    BY <2>1 DEF Store
  <2>3. ASSUME NEW x \in Written(w, a, width)
        PROVE  /\ newMemory => x \in Shared(w) \cup Stack(w) \cup Arena
               /\ ~newMemory => x \in Arena
    <3>1. width \in Nat \ {0} /\ a \in Int
      OBVIOUS
    <3>2. PICK i \in 0 .. width - 1 :
            x = Physical(a + i) /\ \A k \in 0 .. i : Allowed(w, a + k)
      BY <2>3 DEF Written
    <3>3. Allowed(w, a + i)
      BY <3>1, <3>2
    <3>4. Cell(a + i) \in Arena
      BY <3>1, CellType
    <3> QED
      BY <3>2, <3>3, <3>4 DEF Physical, Allowed
  <2> QED
    BY <2>2, <2>3 DEF TypeOK
<1> QED
  BY <1>1, <1>2 DEF Turn

LEMMA TurnWarrior ==
  ASSUME TypeOK, NEW w \in Warriors, Turn(w)
  PROVE  /\ UNCHANGED <<input, loading>>
         /\ OnTurn(w)
         /\ \/ warrior' = warrior /\ numAlive' = numAlive
            \/ /\ warrior[w].alive
               /\ \E p \in Arena : warrior' = [warrior EXCEPT ![w].pc = p]
               /\ numAlive' = numAlive
            \/ /\ warrior[w].alive
               /\ warrior' = [warrior EXCEPT ![w].alive = FALSE]
               /\ numAlive' = numAlive - 1
         /\ NextWarrior
<1>1. CASE SkipDead(w)
  BY <1>1 DEF SkipDead
<1>2. CASE Computes(w)
  BY <1>2 DEF Computes, Lives
<1>3. CASE Faults(w)
  BY <1>3 DEF Faults, Dies
<1>4. CASE Stores(w)
  BY <1>4 DEF Stores, Lives, Dies
<1> QED
  BY <1>1, <1>2, <1>3, <1>4 DEF Turn

LEMMA TurnFields ==
  ASSUME TypeOK, NEW w \in Warriors, Turn(w)
  PROVE  /\ warrior' \in [Warriors -> WarriorType]
         /\ \A v \in Warriors :
              /\ warrior'[v].index = warrior[v].index
              /\ warrior'[v].offset = warrior[v].offset
              /\ warrior'[v].stack = warrior[v].stack
              /\ warrior'[v].shared = warrior[v].shared
              /\ Loaded(v)' = Loaded(v)
              /\ warrior'[v].alive => warrior[v].alive
         /\ \A v \in Warriors \ {w} : warrior'[v] = warrior[v]
         /\ warrior' # warrior => warrior[w].alive
<1>1. warrior \in [Warriors -> WarriorType]
  BY DEF TypeOK, WarriorType
<1>2. CASE warrior' = warrior
  BY <1>1, <1>2 DEF Loaded
<1>3. ASSUME NEW p \in Arena, warrior' = [warrior EXCEPT ![w].pc = p]
      PROVE  /\ warrior' \in [Warriors -> WarriorType]
             /\ \A v \in Warriors :
                  /\ warrior'[v].index = warrior[v].index
                  /\ warrior'[v].offset = warrior[v].offset
                  /\ warrior'[v].stack = warrior[v].stack
                  /\ warrior'[v].shared = warrior[v].shared
                  /\ warrior'[v].alive = warrior[v].alive
             /\ \A v \in Warriors \ {w} : warrior'[v] = warrior[v]
  BY <1>1, <1>3 DEF WarriorType
<1>4. ASSUME warrior' = [warrior EXCEPT ![w].alive = FALSE]
      PROVE  /\ warrior' \in [Warriors -> WarriorType]
             /\ \A v \in Warriors :
                  /\ warrior'[v].index = warrior[v].index
                  /\ warrior'[v].offset = warrior[v].offset
                  /\ warrior'[v].stack = warrior[v].stack
                  /\ warrior'[v].shared = warrior[v].shared
             /\ warrior'[w].alive = FALSE
             /\ \A v \in Warriors \ {w} : warrior'[v] = warrior[v]
  BY <1>1, <1>4 DEF WarriorType
<1> QED
  BY <1>2, <1>3, <1>4, TurnWarrior DEF Loaded

-----------------------------------------------------------------------------
(***************************************************************************)
(* Loading a warrior keeps the invariant.                                  *)
(***************************************************************************)
Inv ==
  /\ TypeOK /\ Counts /\ Places /\ Regions /\ Untouched
  /\ AliveCounted /\ CodeApart /\ CodeIntact /\ RandomKeepsGap /\ PrivateMemory

LEMMA AliveFinite == IsFiniteSet({w \in Warriors : warrior[w].alive})
  BY FS_Subset

LEMMA LoadCounts ==
  ASSUME Inv, phase = "loading", NEW w \in Pending, NEW a \in Arena, Load(w, a)
  PROVE  TypeOK' /\ Counts' /\ AliveCounted'
<1>1. /\ w \in Warriors /\ ~Loaded(w) /\ TypeOK /\ Counts /\ AliveCounted
  BY DEF Pending, Inv
<1>2. /\ warrior'[w] = [ index |-> numWarriors, offset |-> a,
              stack |-> nextFree, shared |-> groupShared, pc |-> a,
              alive |-> TRUE ]
      /\ \A v \in Warriors \ {w} : warrior'[v] = warrior[v]
      /\ Loaded(w)'
      /\ \A v \in Warriors \ {w} : Loaded(v)' = Loaded(v)
      /\ warrior' \in [Warriors -> WarriorType]
  BY <1>1, LoadFields
<1>3. TypeOK'
  <2>1. core' \in [Addresses -> Warriors \cup {NoOne}]
    BY <1>1 DEF Load, TypeOK
  <2>2. /\ nextFree' \in Nat /\ numWarriors' \in Nat /\ numAlive' \in Nat
        /\ currentWarrior' \in {-1} \cup Nat
    BY <1>1 DEF Load, TypeOK
  <2>3. UNCHANGED <<data, newMemory, phase, groupsLeft, group, groupShared, round>>
    BY DEF Load
  <2> QED
    BY <1>1, <1>2, <2>1, <2>2, <2>3 DEF TypeOK, WarriorType
<1>4. Counts'
  BY <1>1, <1>2 DEF Counts, Load
<1>5. AliveCounted'
  <2> DEFINE alive == {v \in Warriors : warrior[v].alive}
  <2>1. w \notin alive
    BY <1>1 DEF Counts
  <2>2. alive' = alive \cup {w}
    BY <1>1, <1>2
  <2>3. Cardinality(alive') = Cardinality(alive) + 1
    BY <2>1, <2>2, AliveFinite, FS_AddElement
  <2> QED
    BY <1>1, <2>3 DEF AliveCounted, Load
<1> QED
  BY <1>3, <1>4, <1>5

LEMMA LoadPlaces ==
  ASSUME Inv, phase = "loading", NEW w \in Pending, NEW a \in Arena,
         IF IsFixed(w) THEN a = data[w].fixed ELSE Suitable(w, a),
         Load(w, a)
  PROVE  Places' /\ CodeApart' /\ RandomKeepsGap'
<1>1. /\ w \in Warriors /\ ~Loaded(w)
      /\ TypeOK /\ Places /\ CodeApart /\ RandomKeepsGap
  BY DEF Pending, Inv
<1>2. /\ warrior'[w].offset = a
      /\ \A v \in Warriors \ {w} : warrior'[v] = warrior[v]
      /\ Loaded(w)'
      /\ \A v \in Warriors \ {w} : Loaded(v)' = Loaded(v)
  <2>1. warrior'[w] = [ index |-> numWarriors, offset |-> a,
              stack |-> nextFree, shared |-> groupShared, pc |-> a,
              alive |-> TRUE ]
    BY <1>1, LoadFields
  <2>2. warrior'[w].offset = a
    BY <2>1
  <2> QED
    BY <1>1, <2>2, LoadFields
<1>3. /\ data' = data
      /\ \A v \in Warriors : CodeSize(v)' = CodeSize(v) /\ IsFixed(v)' = IsFixed(v)
  BY DEF Load, CodeSize, IsFixed
<1>4. \A v \in Warriors : /\ CodeSize(v) \in Nat \ {0}
                          /\ CodeSize(v) <= data[v].length
                          /\ data[v].length \in Nat
                          /\ data[v].fixed \in Int
                          /\ warrior[v].offset \in Nat
  BY <1>1, CodeSizeType DEF TypeOK, Arena
<1>5. a \in Nat /\ a + CodeSize(w) <= ArenaSize
  BY <1>1, LoadPlace DEF Arena
<1>6. Places'
  <2>1. FixedAccepted(data)'
    BY <1>1, <1>3 DEF Places, FixedAccepted, Overlap
  <2> QED
    BY <1>1, <1>2, <1>3, <1>5, <2>1 DEF Places
<1>7. ASSUME NEW v \in Warriors \ {w}
      PROVE  /\ Loaded(v) => ~Overlap(a, CodeSize(w), warrior[v].offset, CodeSize(v))
             /\ IsFixed(v) => ~Overlap(a, CodeSize(w), data[v].fixed, CodeSize(v))
  <2>0. /\ CodeSize(v) \in Nat \ {0} /\ data[v].length \in Nat
        /\ CodeSize(v) <= data[v].length
        /\ CodeSize(w) \in Nat \ {0} /\ data[w].length \in Nat
        /\ CodeSize(w) <= data[w].length
        /\ data[v].fixed \in Int /\ warrior[v].offset \in Nat
    BY <1>1, <1>4
  <2>1. CASE IsFixed(w)
    <3>1. Loaded(v) => ~Overlap(warrior[v].offset, CodeSize(v), a, CodeSize(w))
      BY <1>1, <2>1 DEF CodeApart
    <3>2. IsFixed(v) =>
            ~Overlap(a, data[w].length, data[v].fixed, data[v].length)
      BY <1>1, <2>1 DEF Places, FixedAccepted, IsFixed
    <3>3. a = data[w].fixed
      BY <2>1
    <3> QED
      BY <1>5, <2>0, <3>1, <3>2, <3>3 DEF Overlap
  <2>2. CASE ~IsFixed(w)
    <3>1. ClearOfFixed(w, a) /\ ClearOfLoaded(w, a)
      BY <2>2 DEF Suitable
    <3>2. IsFixed(v) => ~Overlap(a, CodeSize(w), data[v].fixed, CodeSize(v))
      <4>1. IsFixed(v) => ~Overlap(a, CodeSize(w), data[v].fixed, data[v].length)
        BY <3>1 DEF ClearOfFixed
      <4> QED
        BY <1>5, <2>0, <4>1 DEF Overlap
    <3>3. Loaded(v) => ~Overlap(a, CodeSize(w), warrior[v].offset, CodeSize(v))
      <4>1. Loaded(v) => ~ /\ a + CodeSize(w) >= warrior[v].offset - MinGap
                           /\ a < warrior[v].offset + CodeSize(v) + MinGap
        BY <3>1 DEF ClearOfLoaded
      <4> QED
        BY <1>5, <2>0, <4>1 DEF Overlap
    <3> QED
      BY <3>2, <3>3
  <2> QED
    BY <2>1, <2>2
<1>8. CodeApart'
  <2> SUFFICES ASSUME NEW u \in Warriors, NEW v \in Warriors, u # v, Loaded(u)'
               PROVE  /\ Loaded(v)' =>
                          ~Overlap(warrior'[u].offset, CodeSize(u),
                                   warrior'[v].offset, CodeSize(v))
                      /\ IsFixed(v) =>
                          ~Overlap(warrior'[u].offset, CodeSize(u),
                                   data[v].fixed, CodeSize(v))
    BY <1>3 DEF CodeApart, Overlap
  <2>1. CASE u = w
    BY <1>2, <1>7, <2>1
  <2>2. CASE v = w
    <3>1. Loaded(u) /\ warrior'[u] = warrior[u]
      BY <1>2, <2>2
    <3>2. ~Overlap(a, CodeSize(w), warrior[u].offset, CodeSize(u))
      BY <1>7, <2>2, <3>1
    <3>3. IsFixed(w) => ~Overlap(warrior[u].offset, CodeSize(u), data[w].fixed, CodeSize(w))
      BY <1>1, <2>2, <3>1 DEF CodeApart
    <3> QED
      BY <1>2, <1>4, <1>5, <2>2, <3>1, <3>2, <3>3 DEF Overlap
  <2>3. CASE u # w /\ v # w
    BY <1>1, <1>2, <2>3 DEF CodeApart
  <2> QED
    BY <2>1, <2>2, <2>3
<1>9. RandomKeepsGap'
  <2>1. ASSUME ~IsFixed(w)
        PROVE  /\ a >= MinGap /\ a + CodeSize(w) + MinGap <= ArenaSize
               /\ \A v \in Warriors \ {w} : Loaded(v) =>
                    \/ a >= warrior[v].offset + CodeSize(v) + MinGap
                    \/ warrior[v].offset >= a + CodeSize(w) + MinGap
    <3>1. Suitable(w, a)
      BY <2>1
    <3>2. /\ CodeSize(w) \in Nat
          /\ a >= MinGap /\ a + CodeSize(w) <= ArenaSize - MinGap
      BY <1>1, <1>4, <3>1 DEF Suitable
    <3>3. ASSUME NEW v \in Warriors \ {w}, Loaded(v)
          PROVE  \/ a >= warrior[v].offset + CodeSize(v) + MinGap
                 \/ warrior[v].offset >= a + CodeSize(w) + MinGap
      <4>1. ~ /\ a + CodeSize(w) >= warrior[v].offset - MinGap
              /\ a < warrior[v].offset + CodeSize(v) + MinGap
        BY <3>1, <3>3 DEF Suitable, ClearOfLoaded
      <4>2. warrior[v].offset \in Nat /\ CodeSize(v) \in Nat
        BY <1>4
      <4> QED
        BY <1>5, <3>2, <4>1, <4>2
    <3> QED
      BY <1>5, <3>2, <3>3
  <2> SUFFICES ASSUME NEW u \in Warriors, Loaded(u)', ~IsFixed(u)
               PROVE  /\ warrior'[u].offset >= MinGap
                      /\ warrior'[u].offset + CodeSize(u) + MinGap <= ArenaSize
                      /\ \A v \in Warriors : Loaded(v)' /\ ~IsFixed(v) /\ v # u =>
                           \/ warrior'[u].offset >= warrior'[v].offset + CodeSize(v) + MinGap
                           \/ warrior'[v].offset >= warrior'[u].offset + CodeSize(u) + MinGap
    BY <1>3 DEF RandomKeepsGap
  <2>2. CASE u = w
    BY <1>2, <2>1, <2>2
  <2>3. CASE u # w
    BY <1>1, <1>2, <2>1, <2>3 DEF RandomKeepsGap
  <2> QED
    BY <2>2, <2>3
<1> QED
  BY <1>6, <1>8, <1>9

LEMMA LoadRegions ==
  ASSUME Inv, phase = "loading", NEW w \in Pending, NEW a \in Arena, Load(w, a)
  PROVE  Regions'
<1>1. /\ w \in Warriors /\ ~Loaded(w) /\ data[w].group = group
      /\ TypeOK /\ Regions
  BY DEF Pending, Inv
<1>2. /\ warrior'[w].stack = nextFree
      /\ warrior'[w].shared = groupShared
      /\ \A v \in Warriors \ {w} : warrior'[v] = warrior[v]
      /\ \A v \in Warriors \ {w} : Loaded(v)' = Loaded(v)
  <2>1. warrior'[w] = [ index |-> numWarriors, offset |-> a,
              stack |-> nextFree, shared |-> groupShared, pc |-> a,
              alive |-> TRUE ]
    BY <1>1, LoadFields
  <2>2. warrior'[w].stack = nextFree /\ warrior'[w].shared = groupShared
    BY <2>1
  <2> QED
    BY <1>1, <2>2, LoadFields
<1>3. /\ data' = data /\ group' = group /\ groupShared' = groupShared
      /\ nextFree' = nextFree + StackSize
  BY DEF Load
<1>4. /\ nextFree \in Nat /\ groupShared \in Nat
      /\ ArenaSize <= nextFree
      /\ group # NoOne
      /\ ArenaSize <= groupShared /\ groupShared + SharedSize <= nextFree
  <2>1. group # NoOne
    BY <1>1 DEF TypeOK
  <2> QED
    BY <1>1, <2>1 DEF TypeOK, Regions
<1>5. \A v \in Warriors : warrior[v].stack \in Nat /\ warrior[v].shared \in Nat
  BY <1>1 DEF TypeOK
<1>6. ASSUME NEW v \in Warriors, Loaded(v)'
      PROVE  /\ ArenaSize <= warrior'[v].stack
             /\ warrior'[v].stack + StackSize <= nextFree'
             /\ ArenaSize <= warrior'[v].shared
             /\ warrior'[v].shared + SharedSize <= nextFree'
             /\ \/ warrior'[v].stack + StackSize <= groupShared
                \/ groupShared + SharedSize <= warrior'[v].stack
             /\ data[v].group # group =>
                  warrior'[v].shared + SharedSize <= groupShared
  <2>1. CASE v = w
    BY <1>1, <1>2, <1>3, <1>4, <2>1
  <2>2. CASE v # w
    <3>1. Loaded(v) /\ warrior'[v] = warrior[v]
      BY <1>2, <1>6, <2>2
    <3> QED
      BY <1>1, <1>3, <1>4, <1>5, <3>1 DEF Regions
  <2> QED
    BY <2>1, <2>2
<1>7. ASSUME NEW u \in Warriors, NEW v \in Warriors, Loaded(u)', Loaded(v)'
      PROVE  /\ u # v => \/ warrior'[u].stack + StackSize <= warrior'[v].stack
                         \/ warrior'[v].stack + StackSize <= warrior'[u].stack
             /\ \/ warrior'[u].stack + StackSize <= warrior'[v].shared
                \/ warrior'[v].shared + SharedSize <= warrior'[u].stack
             /\ data[u].group # data[v].group =>
                  \/ warrior'[u].shared + SharedSize <= warrior'[v].shared
                  \/ warrior'[v].shared + SharedSize <= warrior'[u].shared
  <2>1. CASE u = w /\ v = w
    BY <1>2, <1>4, <2>1
  <2>2. CASE u = w /\ v # w
    <3>1. Loaded(v) /\ warrior'[v] = warrior[v]
      BY <1>2, <1>7, <2>2
    <3>2. /\ warrior[v].stack + StackSize <= nextFree
          /\ warrior[v].shared + SharedSize <= nextFree
          /\ data[v].group # group => warrior[v].shared + SharedSize <= groupShared
      BY <1>1, <1>4, <3>1 DEF Regions
    <3> QED
      BY <1>1, <1>2, <1>4, <1>5, <2>2, <3>1, <3>2
  <2>3. CASE u # w /\ v = w
    <3>1. Loaded(u) /\ warrior'[u] = warrior[u]
      BY <1>2, <1>7, <2>3
    <3>2. /\ warrior[u].stack + StackSize <= nextFree
          /\ \/ warrior[u].stack + StackSize <= groupShared
             \/ groupShared + SharedSize <= warrior[u].stack
          /\ data[u].group # group => warrior[u].shared + SharedSize <= groupShared
      BY <1>1, <1>4, <3>1 DEF Regions
    <3> QED
      BY <1>1, <1>2, <1>4, <1>5, <2>3, <3>1, <3>2
  <2>4. CASE u # w /\ v # w
    <3>1. /\ Loaded(u) /\ warrior'[u] = warrior[u]
          /\ Loaded(v) /\ warrior'[v] = warrior[v]
      BY <1>2, <1>7, <2>4
    <3> QED
      BY <1>1, <3>1 DEF Regions
  <2> QED
    BY <2>1, <2>2, <2>3, <2>4
<1>8. ArenaSize <= nextFree' /\ groupShared + SharedSize <= nextFree'
  BY <1>3, <1>4
<1> QED
  BY <1>3, <1>4, <1>6, <1>7, <1>8 DEF Regions

LEMMA LoadMemory ==
  ASSUME Inv, phase = "loading", NEW w \in Pending, NEW a \in Arena,
         IF IsFixed(w) THEN a = data[w].fixed ELSE Suitable(w, a),
         Load(w, a)
  PROVE  Untouched' /\ CodeIntact' /\ PrivateMemory'
<1>1. /\ w \in Warriors /\ ~Loaded(w) /\ phase' = phase
      /\ TypeOK /\ Places /\ Regions /\ Untouched /\ CodeApart /\ CodeIntact
  BY DEF Pending, Inv, Load
<1>2. /\ warrior'[w].offset = a
      /\ \A v \in Warriors \ {w} : warrior'[v] = warrior[v]
      /\ \A v \in Warriors \ {w} : Loaded(v)' = Loaded(v)
  <2>1. warrior'[w] = [ index |-> numWarriors, offset |-> a,
              stack |-> nextFree, shared |-> groupShared, pc |-> a,
              alive |-> TRUE ]
    BY <1>1, LoadFields
  <2>2. warrior'[w].offset = a
    BY <2>1
  <2> QED
    BY <1>1, <2>2, LoadFields
<1>3. /\ a + CodeSize(w) <= ArenaSize
      /\ \A v \in Warriors : CodeSize(v) \in Nat \ {0} /\ CodeSize(v)' = CodeSize(v)
  BY <1>1, LoadPlace, CodeSizeType DEF Load, CodeSize
<1>4. \A x \in Addresses :
        /\ a <= x /\ x < a + CodeSize(w) => core'[x] = w
        /\ ~(a <= x /\ x < a + CodeSize(w)) => core'[x] = core[x]
  BY <1>1, <1>3, LoadCells
<1>5. \A x \in Addresses \ Arena : core'[x] = NoOne
  <2> TAKE x \in Addresses \ Arena
  <2>1. ~(a <= x /\ x < a + CodeSize(w))
    BY <1>1, <1>3 DEF Addresses, Arena
  <2>2. core[x] = NoOne
    BY <1>1 DEF Untouched
  <2> QED
    BY <1>4, <2>1, <2>2
<1>6. CodeIntact'
  <2> SUFFICES ASSUME NEW v \in Warriors, Loaded(v)',
                      NEW i \in 0 .. CodeSize(v) - 1
               PROVE  core'[warrior'[v].offset + i] = v
    BY <1>3 DEF CodeIntact
  <2>1. CASE v = w
    <3>1. /\ a + i \in Addresses /\ a <= a + i /\ a + i < a + CodeSize(w)
      BY <1>3, <2>1 DEF Addresses, Arena
    <3> QED
      BY <1>2, <1>4, <2>1, <3>1
  <2>2. CASE v # w
    <3>1. Loaded(v) /\ warrior'[v] = warrior[v]
      BY <1>2, <2>2
    <3>2. /\ warrior[v].offset \in Nat
          /\ warrior[v].offset + CodeSize(v) <= ArenaSize
      BY <1>1, <3>1 DEF Places, TypeOK, Arena
    <3>3. warrior[v].offset + i \in Addresses
      BY <1>3, <3>2 DEF Addresses
    <3>4. core[warrior[v].offset + i] = v
      BY <1>1, <3>1 DEF CodeIntact
    <3>5. ~Overlap(a, CodeSize(w), warrior[v].offset, CodeSize(v))
      <4>1. /\ CodeApart'
            /\ Loaded(w)'
        BY <1>1, LoadPlaces, LoadFields
      <4>2. ~Overlap(warrior'[w].offset, CodeSize(w)', warrior'[v].offset, CodeSize(v)')
        BY <1>1, <2>2, <4>1 DEF CodeApart, Overlap
      <4> QED
        BY <1>1, <1>2, <1>3, <3>1, <4>2 DEF Overlap
    <3>6. ~(a <= warrior[v].offset + i /\ warrior[v].offset + i < a + CodeSize(w))
      BY <1>1, <1>3, <3>2, <3>5 DEF Overlap, Arena
    <3> QED
      BY <1>4, <3>1, <3>3, <3>4, <3>6
  <2> QED
    BY <2>1, <2>2
<1>7. PrivateMemory'
  <2>1. /\ Regions' /\ TypeOK'
    BY LoadRegions, LoadCounts
  <2>2. ASSUME NEW v \in Warriors, Loaded(v)', NEW x \in Addresses,
               x \in Stack(v)' \/ x \in Shared(v)'
        PROVE  x \notin Arena
    <3>1. ArenaSize <= warrior'[v].stack /\ ArenaSize <= warrior'[v].shared
      BY <2>1, <2>2 DEF Regions
    <3>2. warrior'[v].stack \in Nat /\ warrior'[v].shared \in Nat
      BY <2>1 DEF TypeOK
    <3> QED
      BY <2>2, <3>1, <3>2 DEF Stack, Shared, Region, Arena
  <2> QED
    BY <1>5, <2>2 DEF PrivateMemory
<1> QED
  BY <1>1, <1>5, <1>6, <1>7 DEF Untouched

-----------------------------------------------------------------------------
(***************************************************************************)
(* A warrior's turn keeps the invariant.                                   *)
(***************************************************************************)
LEMMA TurnCounts ==
  ASSUME Inv, NEW w \in Warriors, Turn(w)
  PROVE  TypeOK' /\ Counts' /\ AliveCounted'
<1>1. TypeOK /\ Counts /\ AliveCounted
  BY DEF Inv
<1>2. /\ warrior' \in [Warriors -> WarriorType]
      /\ \A v \in Warriors : /\ Loaded(v)' = Loaded(v)
                             /\ warrior'[v].alive => warrior[v].alive
      /\ \A v \in Warriors \ {w} : warrior'[v] = warrior[v]
  BY <1>1, TurnFields
<1>3. /\ UNCHANGED <<input, loading>> /\ NextWarrior
      /\ phase = "fighting" /\ warrior[w].index = currentWarrior
      /\ currentWarrior >= 0
  BY <1>1, TurnWarrior DEF OnTurn, Loaded
<1>4. /\ currentWarrior \in Nat /\ round \in 0 .. MaxRounds /\ round < MaxRounds
  BY <1>1, <1>3 DEF Counts, TypeOK
<1>5. /\ currentWarrior' \in {-1} \cup Nat /\ round' \in 0 .. MaxRounds
      /\ currentWarrior' >= 0 => round' < MaxRounds
  BY <1>3, <1>4 DEF NextWarrior
<1>6. AliveCounted' /\ numAlive' \in Nat
  <2> DEFINE alive == {v \in Warriors : warrior[v].alive}
  <2>1. CASE warrior' = warrior /\ numAlive' = numAlive
    BY <1>1, <2>1 DEF AliveCounted, TypeOK
  <2>2. CASE /\ \E p \in Arena : warrior' = [warrior EXCEPT ![w].pc = p]
             /\ numAlive' = numAlive
    <3>1. \A v \in Warriors : warrior'[v].alive = warrior[v].alive
      BY <1>1, <2>2 DEF TypeOK
    <3>2. alive' = alive
      BY <3>1
    <3> QED
      BY <1>1, <2>2, <3>2 DEF AliveCounted, TypeOK
  <2>3. CASE /\ warrior[w].alive
             /\ warrior' = [warrior EXCEPT ![w].alive = FALSE]
             /\ numAlive' = numAlive - 1
    <3>1. /\ warrior'[w].alive = FALSE
          /\ \A v \in Warriors \ {w} : warrior'[v] = warrior[v]
      BY <1>1, <2>3 DEF TypeOK
    <3>2. w \in alive /\ alive' = alive \ {w}
      BY <2>3, <3>1
    <3>3. /\ Cardinality(alive') = Cardinality(alive) - 1
          /\ Cardinality(alive') \in Nat
      <4>1. IsFiniteSet(alive) /\ IsFiniteSet(alive')
        <5>1. IsFiniteSet(alive)
          BY AliveFinite
        <5> QED
          BY <3>2, <5>1, FS_RemoveElement
      <4>2. Cardinality(alive \ {w}) = Cardinality(alive) - 1
        <5> HIDE DEF alive
        <5> QED
          BY <3>2, <4>1, FS_RemoveElement
      <4>3. Cardinality(alive') \in Nat
        <5> DEFINE next == alive'
        <5>1. IsFiniteSet(next)
          BY <4>1
        <5> HIDE DEF next
        <5>2. Cardinality(next) \in Nat
          BY <5>1, FS_CardinalityType
        <5> QED
          BY <5>2 DEF next
      <4> QED
        BY <3>2, <4>2, <4>3
    <3> QED
      BY <1>1, <2>3, <3>3 DEF AliveCounted
  <2> QED
    BY <1>1, <2>1, <2>2, <2>3, TurnWarrior
<1>7. core' \in [Addresses -> Warriors \cup {NoOne}]
  BY <1>1, TurnCore
<1>8. TypeOK'
  BY <1>1, <1>2, <1>3, <1>5, <1>6, <1>7 DEF TypeOK, WarriorType, input, loading
<1>9. Counts'
  BY <1>1, <1>2, <1>3, <1>5 DEF Counts, input, loading
<1> QED
  BY <1>6, <1>8, <1>9

LEMMA TurnPlaces ==
  ASSUME Inv, NEW w \in Warriors, Turn(w)
  PROVE  Places' /\ Regions' /\ CodeApart' /\ RandomKeepsGap'
<1>1. TypeOK /\ Places /\ Regions /\ CodeApart /\ RandomKeepsGap
  BY DEF Inv
<1>2. \A v \in Warriors :
        /\ warrior'[v].offset = warrior[v].offset
        /\ warrior'[v].stack = warrior[v].stack
        /\ warrior'[v].shared = warrior[v].shared
        /\ Loaded(v)' = Loaded(v)
  BY <1>1, TurnFields
<1>3. /\ data' = data /\ group' = group /\ groupShared' = groupShared
      /\ nextFree' = nextFree
  BY <1>1, TurnWarrior DEF input, loading
<1>4. \A v \in Warriors : CodeSize(v)' = CodeSize(v) /\ IsFixed(v)' = IsFixed(v)
  BY <1>3 DEF CodeSize, IsFixed
<1>5. Places'
  <2>1. FixedAccepted(data)'
    BY <1>1, <1>3 DEF Places, FixedAccepted, Overlap
  <2> QED
    BY <1>1, <1>2, <1>3, <1>4, <2>1 DEF Places
<1>6. Regions'
  BY <1>1, <1>2, <1>3 DEF Regions
<1>7. CodeApart'
  BY <1>1, <1>2, <1>3, <1>4 DEF CodeApart, Overlap
<1>8. RandomKeepsGap'
  BY <1>1, <1>2, <1>4 DEF RandomKeepsGap
<1> QED
  BY <1>5, <1>6, <1>7, <1>8

LEMMA TurnMemory ==
  ASSUME Inv, NEW w \in Warriors, Turn(w)
  PROVE  Untouched' /\ CodeIntact' /\ PrivateMemory'
<1>1. TypeOK /\ Regions /\ PrivateMemory
  BY DEF Inv
<1>2. \A v \in Warriors :
        /\ warrior'[v].stack = warrior[v].stack
        /\ warrior'[v].shared = warrior[v].shared
        /\ Loaded(v)' = Loaded(v)
  BY <1>1, TurnFields
<1>3. /\ data' = data /\ newMemory' = newMemory /\ phase' = phase
      /\ phase = "fighting" /\ Loaded(w) /\ currentWarrior >= 0 /\ NextWarrior
  BY <1>1, TurnWarrior DEF input, loading, OnTurn, Loaded
<1>4. \A x \in Addresses : core'[x] # core[x] =>
        /\ core'[x] = w
        /\ newMemory => x \in Shared(w) \cup Stack(w) \cup Arena
        /\ ~newMemory => x \in Arena
  BY <1>1, TurnCore
<1>5. CodeIntact'
  <2>1. round' # 0 \/ currentWarrior' # -1
    BY <1>1, <1>3 DEF NextWarrior, TypeOK
  <2> QED
    BY <1>3, <2>1 DEF CodeIntact
<1>6. ASSUME NEW v \in Warriors, NEW x \in Addresses, Loaded(v)
      PROVE  /\ x \in Stack(v) => core'[x] \in {NoOne, v}
             /\ x \in Shared(v) =>
                  core'[x] = NoOne \/ data[core'[x]].group = data[v].group
  <2>1. /\ x \in Stack(v) => core[x] \in {NoOne, v}
        /\ x \in Shared(v) => core[x] = NoOne \/ data[core[x]].group = data[v].group
    BY <1>1, <1>6 DEF PrivateMemory
  <2>2. CASE core'[x] = core[x]
    BY <2>1, <2>2
  <2>3. CASE core'[x] # core[x]
    <3>1. /\ warrior[v].stack \in Nat /\ warrior[v].shared \in Nat
          /\ warrior[w].stack \in Nat /\ warrior[w].shared \in Nat
          /\ x \in Nat
      BY <1>1 DEF TypeOK, Addresses
    <3>2. /\ core'[x] = w
          /\ x \in Arena \/ x \in Shared(w) \/ x \in Stack(w)
      BY <1>1, <1>4, <2>3 DEF TypeOK
    <3>3. /\ ArenaSize <= warrior[v].stack /\ ArenaSize <= warrior[v].shared
          /\ w # v => \/ warrior[w].stack + StackSize <= warrior[v].stack
                      \/ warrior[v].stack + StackSize <= warrior[w].stack
          /\ \/ warrior[w].stack + StackSize <= warrior[v].shared
             \/ warrior[v].shared + SharedSize <= warrior[w].stack
          /\ \/ warrior[v].stack + StackSize <= warrior[w].shared
             \/ warrior[w].shared + SharedSize <= warrior[v].stack
          /\ data[w].group # data[v].group =>
               \/ warrior[w].shared + SharedSize <= warrior[v].shared
               \/ warrior[v].shared + SharedSize <= warrior[w].shared
      BY <1>1, <1>3, <1>6 DEF Regions
    <3>4. x \in Stack(v) => w = v
      BY <3>1, <3>2, <3>3 DEF Stack, Shared, Region, Arena
    <3>5. x \in Shared(v) => data[w].group = data[v].group
      BY <3>1, <3>2, <3>3 DEF Stack, Shared, Region, Arena
    <3> QED
      BY <3>2, <3>4, <3>5
  <2> QED
    BY <2>2, <2>3
<1>7. ~newMemory => \A x \in Addresses \ Arena : core'[x] = NoOne
  BY <1>1, <1>4 DEF PrivateMemory
<1>8. \A v \in Warriors : Stack(v)' = Stack(v) /\ Shared(v)' = Shared(v)
  BY <1>2 DEF Stack, Shared, Region
<1>9. PrivateMemory'
  BY <1>2, <1>3, <1>6, <1>7, <1>8 DEF PrivateMemory
<1> QED
  BY <1>3, <1>5, <1>9 DEF Untouched

-----------------------------------------------------------------------------
(***************************************************************************)
(* The steps between: no warrior and no byte of the core changes.          *)
(***************************************************************************)
LEMMA InitInv == Init => Inv
<1> SUFFICES ASSUME Init PROVE Inv
  OBVIOUS
<1>1. \A w \in Warriors : warrior[w] = Unloaded
  BY DEF Init
<1>2. \A w \in Warriors : ~Loaded(w) /\ warrior[w].alive = FALSE
  BY <1>1 DEF Unloaded, Loaded
<1>3. TypeOK
  <2>1. Unloaded \in [ index : {-1} \cup Nat, offset : Arena, stack : Nat,
                       shared : Nat, pc : Arena, alive : BOOLEAN ]
    BY DEF Unloaded, Arena
  <2>2. groupsLeft \subseteq Groups
    BY DEF Init
  <2> QED
    BY <2>1, <2>2 DEF Init, TypeOK
<1>4. AliveCounted
  <2>1. {w \in Warriors : warrior[w].alive} = {}
    BY <1>2
  <2> QED
    BY <2>1, FS_EmptySet DEF AliveCounted, Init
<1>5. Counts /\ Places /\ Untouched
  BY <1>2 DEF Init, Counts, Places, Untouched
<1>6. Regions
  BY <1>2 DEF Init, Regions
<1>7. CodeApart /\ CodeIntact /\ RandomKeepsGap
  BY <1>2 DEF CodeApart, CodeIntact, RandomKeepsGap
<1>8. PrivateMemory
  BY <1>2 DEF PrivateMemory, Init
<1> QED
  BY <1>3, <1>4, <1>5, <1>6, <1>7, <1>8 DEF Inv

(* What depends on the warriors, their data and the core alone.            *)
LEMMA StillHolds ==
  ASSUME Inv, UNCHANGED <<data, newMemory, warrior, numAlive, core>>
  PROVE  /\ Places' /\ AliveCounted' /\ CodeApart' /\ RandomKeepsGap'
         /\ PrivateMemory'
<1>1. \A w \in Warriors :
        /\ Loaded(w)' = Loaded(w)
        /\ CodeSize(w)' = CodeSize(w)
        /\ IsFixed(w)' = IsFixed(w)
        /\ Stack(w)' = Stack(w)
        /\ Shared(w)' = Shared(w)
  BY DEF Loaded, CodeSize, IsFixed, Stack, Shared, Region
<1>2. Places'
  BY <1>1 DEF Inv, Places, FixedAccepted, Overlap
<1>3. AliveCounted'
  BY DEF Inv, AliveCounted
<1>4. CodeApart'
  BY <1>1 DEF Inv, CodeApart, Overlap
<1>5. RandomKeepsGap'
  BY <1>1 DEF Inv, RandomKeepsGap
<1>6. PrivateMemory'
  BY <1>1 DEF Inv, PrivateMemory
<1> QED
  BY <1>2, <1>3, <1>4, <1>5, <1>6

(* The code stays intact as long as neither it nor the core changes and    *)
(* the fight has not begun.                                                *)
LEMMA StillIntact ==
  ASSUME Inv, UNCHANGED <<data, warrior, core>>,
         phase = "loading" \/ (phase = "fighting" /\ round = 0 /\ currentWarrior = -1)
  PROVE  CodeIntact'
<1>1. \A w \in Warriors : Loaded(w)' = Loaded(w) /\ CodeSize(w)' = CodeSize(w)
  BY DEF Loaded, CodeSize
<1>2. \A w \in Warriors : Loaded(w) =>
        \A i \in 0 .. CodeSize(w) - 1 : core[warrior[w].offset + i] = w
  BY DEF Inv, CodeIntact
<1> QED
  BY <1>1, <1>2 DEF CodeIntact

(* A group begins only when everyone of the group before is loaded, and    *)
(* takes its memory above all that is in use.                              *)
LEMMA BeginGroupInv ==
  ASSUME Inv, BeginGroup
  PROVE  Inv'
<1>1. /\ phase = "loading" /\ phase' = phase
      /\ UNCHANGED <<data, newMemory, warrior, numWarriors, numAlive,
                     currentWarrior, core, round>>
      /\ groupShared' = nextFree /\ nextFree' = nextFree + SharedSize
      /\ TypeOK /\ Counts /\ Regions /\ Untouched
  BY DEF BeginGroup, Inv
<1>2. group' \in groupsLeft /\ groupsLeft' \subseteq groupsLeft
  BY DEF BeginGroup
<1>3. TypeOK'
  BY <1>1, <1>2 DEF TypeOK
<1>4. Counts'
  BY <1>1 DEF Counts, Loaded
<1>5. \A w \in Warriors : Loaded(w)' = Loaded(w)
  BY <1>1 DEF Loaded
<1>6. ASSUME NEW w \in Warriors, Loaded(w)
      PROVE  /\ ArenaSize <= warrior[w].stack
             /\ warrior[w].stack + StackSize <= nextFree
             /\ ArenaSize <= warrior[w].shared
             /\ warrior[w].shared + SharedSize <= nextFree
             /\ warrior[w].stack \in Nat /\ warrior[w].shared \in Nat
  BY <1>1, <1>6 DEF Regions, TypeOK
<1>7. Regions'
  <2>1. nextFree \in Nat /\ ArenaSize <= nextFree
    BY <1>1 DEF Regions, TypeOK
  <2>2. ASSUME NEW w \in Warriors, Loaded(w)
        PROVE  /\ warrior[w].stack + StackSize <= nextFree'
               /\ warrior[w].shared + SharedSize <= nextFree'
               /\ warrior[w].stack + StackSize <= groupShared'
               /\ warrior[w].shared + SharedSize <= groupShared'
               /\ ArenaSize <= warrior[w].stack /\ ArenaSize <= warrior[w].shared
    BY <1>1, <1>6, <2>1, <2>2
  <2>3. ArenaSize <= nextFree' /\ ArenaSize <= groupShared'
        /\ groupShared' + SharedSize <= nextFree'
    BY <1>1, <2>1
  <2>4. \A w, v \in Warriors : Loaded(w) /\ Loaded(v) =>
         /\ w # v => \/ warrior[w].stack + StackSize <= warrior[v].stack
                     \/ warrior[v].stack + StackSize <= warrior[w].stack
         /\ \/ warrior[w].stack + StackSize <= warrior[v].shared
            \/ warrior[v].shared + SharedSize <= warrior[w].stack
         /\ data[w].group # data[v].group =>
              \/ warrior[w].shared + SharedSize <= warrior[v].shared
              \/ warrior[v].shared + SharedSize <= warrior[w].shared
    BY <1>1 DEF Regions
  <2>5. warrior' = warrior /\ data' = data
    BY <1>1
  <2> QED
    BY <1>5, <2>2, <2>3, <2>4, <2>5 DEF Regions
<1>8. CodeIntact'
  BY <1>1, StillIntact
<1>9. Untouched'
  BY <1>1 DEF Untouched
<1> QED
  BY <1>1, <1>3, <1>4, <1>7, <1>8, <1>9, StillHolds DEF Inv

LEMMA LoadFailsInv ==
  ASSUME Inv, LoadFails
  PROVE  Inv'
<1>1. /\ phase = "loading" /\ phase' = "failed"
      /\ UNCHANGED <<data, newMemory, groupsLeft, group, groupShared, warrior,
                 numWarriors, numAlive, nextFree, currentWarrior, core, round>>
  BY DEF LoadFails
<1>2. TypeOK' /\ Counts'
  BY <1>1 DEF Inv, TypeOK, Counts, Loaded
<1>3. Regions'
  BY <1>1 DEF Inv, Regions, Loaded
<1>4. Untouched'
  BY <1>1 DEF Inv, Untouched
<1> QED
  BY <1>1, <1>2, <1>3, <1>4, StillHolds, StillIntact DEF Inv

LEMMA LoadingDoneInv ==
  ASSUME Inv, LoadingDone
  PROVE  Inv'
<1>1. /\ phase = "loading" /\ phase' = "fighting" /\ group' = NoOne
      /\ currentWarrior' = -1
      /\ UNCHANGED <<data, newMemory, groupsLeft, groupShared, warrior,
                     numWarriors, numAlive, nextFree, core, round>>
  BY DEF LoadingDone
<1>2. TypeOK' /\ Counts'
  BY <1>1 DEF Inv, TypeOK, Counts, Loaded
<1>3. Regions'
  BY <1>1 DEF Inv, Regions, Loaded
<1>4. Untouched'
  BY <1>1 DEF Untouched
<1> QED
  BY <1>1, <1>2, <1>3, <1>4, StillHolds, StillIntact DEF Inv

LEMMA StartRoundInv ==
  ASSUME Inv, StartRound
  PROVE  Inv'
<1>1. /\ phase = "fighting" /\ currentWarrior = -1 /\ round < MaxRounds
      /\ currentWarrior' = 0
      /\ UNCHANGED <<data, newMemory, phase, groupsLeft, group, groupShared,
                     numWarriors, nextFree, warrior, numAlive, core, round>>
  BY DEF StartRound, input, loading
<1>2. TypeOK' /\ Counts'
  BY <1>1 DEF Inv, TypeOK, Counts, Loaded
<1>3. Regions'
  BY <1>1 DEF Inv, Regions, Loaded
<1>4. Untouched' /\ CodeIntact'
  BY <1>1 DEF Inv, Untouched, CodeIntact
<1> QED
  BY <1>1, <1>2, <1>3, <1>4, StillHolds DEF Inv

LEMMA StutterInv ==
  ASSUME Inv, UNCHANGED vars
  PROVE  Inv'
<1>1. UNCHANGED <<data, newMemory, phase, groupsLeft, group, groupShared,
                  warrior, numWarriors, numAlive, nextFree, currentWarrior,
                  core, round>>
  BY DEF vars
<1>2. TypeOK' /\ Counts'
  BY <1>1 DEF Inv, TypeOK, Counts, Loaded
<1>3. Regions'
  BY <1>1 DEF Inv, Regions, Loaded
<1>4. Untouched'
  BY <1>1 DEF Inv, Untouched
<1>5. CodeIntact'
  BY <1>1, StillIntact DEF CodeIntact
<1> QED
  BY <1>1, <1>2, <1>3, <1>4, <1>5, StillHolds DEF Inv

-----------------------------------------------------------------------------
(***************************************************************************)
(* The theorems.                                                           *)
(***************************************************************************)
LEMMA StepInv == Inv /\ [Next]_vars => Inv'
<1> SUFFICES ASSUME Inv, [Next]_vars PROVE Inv'
  OBVIOUS
<1>1. CASE BeginGroup
  BY <1>1, BeginGroupInv
<1>2. CASE LoadWarrior
  <2>1. PICK w \in Pending, a \in Arena :
          /\ IF IsFixed(w) THEN a = data[w].fixed ELSE Suitable(w, a)
          /\ Load(w, a)
    <3>1. PICK w \in Pending :
            IF IsFixed(w) THEN Load(w, data[w].fixed)
            ELSE \E a \in Arena : Suitable(w, a) /\ Load(w, a)
      BY <1>2 DEF LoadWarrior
    <3>2. IsFixed(w) => data[w].fixed \in Arena
      BY DEF Inv, TypeOK, Pending, IsFixed, Arena
    <3> QED
      BY <3>1, <3>2
  <2>2. phase = "loading"
    BY <1>2 DEF LoadWarrior
  <2>3. TypeOK' /\ Counts' /\ AliveCounted'
    BY <2>1, <2>2, LoadCounts
  <2>4. Places' /\ CodeApart' /\ RandomKeepsGap'
    BY <2>1, <2>2, LoadPlaces
  <2>5. Regions'
    BY <2>1, <2>2, LoadRegions
  <2>6. Untouched' /\ CodeIntact' /\ PrivateMemory'
    BY <2>1, <2>2, LoadMemory
  <2> QED
    BY <2>3, <2>4, <2>5, <2>6 DEF Inv
<1>3. CASE LoadFails
  BY <1>3, LoadFailsInv
<1>4. CASE LoadingDone
  BY <1>4, LoadingDoneInv
<1>5. CASE StartRound
  BY <1>5, StartRoundInv
<1>6. CASE Round
  <2>1. PICK w \in Warriors : Turn(w)
    BY <1>6 DEF Round, Turn
  <2>2. TypeOK' /\ Counts' /\ AliveCounted'
    BY <2>1, TurnCounts
  <2>3. Places' /\ Regions' /\ CodeApart' /\ RandomKeepsGap'
    BY <2>1, TurnPlaces
  <2>4. Untouched' /\ CodeIntact' /\ PrivateMemory'
    BY <2>1, TurnMemory
  <2> QED
    BY <2>2, <2>3, <2>4 DEF Inv
<1>7. CASE UNCHANGED vars
  BY <1>7, StutterInv
<1> QED
  BY <1>1, <1>2, <1>3, <1>4, <1>5, <1>6, <1>7 DEF Next

(* Every state of a war satisfies the inductive invariant: loading and     *)
(* fighting, with the old memory and with the new one.                     *)
THEOREM AlwaysInv == Spec => []Inv
<1>1. Init => Inv
  BY InitInv
<1>2. Inv /\ [Next]_vars => Inv'
  BY StepInv
<1> QED
  BY <1>1, <1>2, PTL DEF Spec

(* The variables keep their types; in particular every pc of War.nextRound *)
(* and every load offset stays in the arena.                               *)
THEOREM TypeCorrect == Spec => []TypeOK
<1>1. Inv => TypeOK
  BY DEF Inv
<1> QED
  BY <1>1, AlwaysInv, PTL

(* m_numWarriorsAlive, counted by hand in loadWarriorGroup and nextRound,  *)
(* is the number of warriors that are alive.                               *)
THEOREM CountsTheLiving == Spec => []AliveCounted
<1>1. Inv => AliveCounted
  BY DEF Inv
<1> QED
  BY <1>1, AlwaysInv, PTL

(* loadWarriorGroup never lays one warrior's code over another's, nor over *)
(* a fixed place that is still to be filled.                               *)
THEOREM KeepsCodeApart == Spec => []CodeApart
<1>1. Inv => CodeApart
  BY DEF Inv
<1> QED
  BY <1>1, AlwaysInv, PTL

(* When the first round begins, every warrior's code is whole in the core. *)
THEOREM LoadsCodeWhole == Spec => []CodeIntact
<1>1. Inv => CodeIntact
  BY DEF Inv
<1> QED
  BY <1>1, AlwaysInv, PTL

(* getLoadOffset keeps warriors at random addresses MIN_GAP apart.         *)
THEOREM KeepsGap == Spec => []RandomKeepsGap
<1>1. Inv => RandomKeepsGap
  BY DEF Inv
<1> QED
  BY <1>1, AlwaysInv, PTL

(* RestrictedMemory keeps the stacks and the groups' memories private.     *)
THEOREM KeepsMemoryPrivate == Spec => []PrivateMemory
<1>1. Inv => PrivateMemory
  BY DEF Inv
<1> QED
  BY <1>1, AlwaysInv, PTL

(* A byte of the core changes only for the warrior getCurrentWarrior       *)
(* names, which while loading is the one about to be appended.             *)
THEOREM PaintsItsWriter == Spec => PaintedByWriter
<1> DEFINE Painted ==
      \A x \in Addresses : core'[x] # core[x] =>
        core'[x] # NoOne /\ warrior'[core'[x]].index = currentWarrior
<1>1. Inv /\ [Next]_vars => [Painted]_vars
  <2> SUFFICES ASSUME Inv, Next PROVE Painted
    OBVIOUS
  <2>1. CASE BeginGroup \/ LoadFails \/ LoadingDone \/ StartRound
    BY <2>1 DEF BeginGroup, LoadFails, LoadingDone, StartRound
  <2>2. CASE LoadWarrior
    <3>1. PICK w \in Pending, a \in Arena : Load(w, a)
      <4>1. \A w \in Pending : IsFixed(w) => data[w].fixed \in Arena
        BY DEF Inv, TypeOK, Pending, IsFixed, Arena
      <4> QED
        BY <2>2, <4>1 DEF LoadWarrior
    <3>2. /\ w \in Warriors /\ ~Loaded(w) /\ w # NoOne /\ TypeOK
          /\ currentWarrior = numWarriors
      BY <2>2 DEF Pending, Inv, Counts, LoadWarrior
    <3>3. warrior'[w] = [ index |-> numWarriors, offset |-> a,
              stack |-> nextFree, shared |-> groupShared, pc |-> a,
              alive |-> TRUE ]
      BY <3>1, <3>2, LoadFields
    <3>4. warrior'[w].index = currentWarrior
      BY <3>2, <3>3
    <3>5. \A x \in Addresses : core'[x] # core[x] => core'[x] = w
      BY <3>1, <3>2 DEF Load
    <3> QED
      BY <3>2, <3>4, <3>5
  <2>3. CASE Round
    <3>1. PICK w \in Warriors : Turn(w)
      BY <2>3 DEF Round, Turn
    <3>2. \A x \in Addresses : core'[x] # core[x] => core'[x] = w
      BY <3>1, TurnCore DEF Inv
    <3>3. warrior'[w].index = currentWarrior /\ w # NoOne
      BY <3>1, TurnFields, TurnWarrior DEF Inv, OnTurn
    <3> QED
      BY <3>2, <3>3
  <2> QED
    BY <2>1, <2>2, <2>3 DEF Next
<1> QED
  BY <1>1, AlwaysInv, PTL DEF Spec, PaintedByWriter

(* In a round only a living warrior whose turn it is moves or dies.        *)
THEOREM MovesOnlyTheCurrent == Spec => OnlyTheCurrentMoves
<1> DEFINE Moves ==
      \A w \in Warriors : Loaded(w) /\ warrior'[w] # warrior[w] =>
        warrior[w].alive /\ warrior[w].index = currentWarrior
<1>1. Inv /\ [Next]_vars => [Moves]_vars
  <2> SUFFICES ASSUME Inv, Next PROVE Moves
    OBVIOUS
  <2>1. CASE BeginGroup \/ LoadFails \/ LoadingDone \/ StartRound
    BY <2>1 DEF BeginGroup, LoadFails, LoadingDone, StartRound
  <2>2. CASE LoadWarrior
    <3>1. PICK w \in Pending, a \in Arena : Load(w, a)
      <4>1. \A w \in Pending : IsFixed(w) => data[w].fixed \in Arena
        BY DEF Inv, TypeOK, Pending, IsFixed, Arena
      <4> QED
        BY <2>2, <4>1 DEF LoadWarrior
    <3>2. w \in Warriors /\ ~Loaded(w) /\ TypeOK
      BY DEF Pending, Inv
    <3>3. \A v \in Warriors \ {w} : warrior'[v] = warrior[v]
      BY <3>1, <3>2, LoadFields
    <3> QED
      BY <3>2, <3>3
  <2>3. CASE Round
    <3>1. PICK w \in Warriors : Turn(w)
      BY <2>3 DEF Round, Turn
    <3>2. /\ \A v \in Warriors \ {w} : warrior'[v] = warrior[v]
          /\ warrior' # warrior => warrior[w].alive
          /\ warrior[w].index = currentWarrior
      BY <3>1, TurnFields, TurnWarrior DEF Inv, OnTurn
    <3> QED
      BY <3>2
  <2> QED
    BY <2>1, <2>2, <2>3 DEF Next
<1> QED
  BY <1>1, AlwaysInv, PTL DEF Spec, OnlyTheCurrentMoves

-----------------------------------------------------------------------------
(***************************************************************************)
(* A war is a Battle.  For that everyone needs a seat of his own in        *)
(* m_warriors, below m_numWarriors, so that the loop of a round comes to   *)
(* everyone once; and while loading, who has no seat yet is in a group     *)
(* that is still to be loaded, and nobody who has one is dead.             *)
(***************************************************************************)
Seats ==
  /\ \A w \in Warriors : Loaded(w) => warrior[w].index < numWarriors
  /\ \A w, v \in Warriors : Loaded(w) /\ Loaded(v) /\ w # v =>
       warrior[w].index # warrior[v].index
  /\ phase = "loading" => \A w \in Warriors :
       /\ Loaded(w) => warrior[w].alive
       /\ Loaded(w) \/ data[w].group \in groupsLeft \cup {group}

(* Nobody has a seat at first, and every group is to be loaded.            *)
LEMMA SeatsInit == Init => Seats
<1> SUFFICES ASSUME Init PROVE Seats
  OBVIOUS
<1>1. \A w \in Warriors : ~Loaded(w) /\ data[w].group \in groupsLeft
  BY DEF Init, Unloaded, Loaded
<1> QED
  BY <1>1 DEF Seats

(* A warrior that is loaded gets the next seat, and every other step       *)
(* leaves the seats alone.  A group is begun only when the one before is   *)
(* seated.                                                                 *)
LEMMA SeatsStep == Inv /\ Seats /\ [Next]_vars => Seats'
<1> SUFFICES ASSUME Inv, Seats, [Next]_vars PROVE Seats'
  OBVIOUS
<1>0. TypeOK
  BY DEF Inv
<1>1. CASE BeginGroup
  <2>1. /\ phase = "loading" /\ Pending = {}
        /\ UNCHANGED <<data, phase, warrior, numWarriors>>
        /\ groupsLeft' \cup {group'} = groupsLeft
    BY <1>1 DEF BeginGroup
  <2>2. \A w \in Warriors : Loaded(w) \/ data[w].group \in groupsLeft
    BY <2>1 DEF Pending, Seats
  <2> QED
    BY <2>1, <2>2 DEF Seats, Loaded
<1>2. CASE LoadWarrior
  <2>1. PICK w \in Pending, a \in Arena : Load(w, a)
    <3>1. \A w \in Pending : IsFixed(w) => data[w].fixed \in Arena
      BY <1>0 DEF TypeOK, Pending, IsFixed, Arena
    <3> QED
      BY <1>2, <3>1 DEF LoadWarrior
  <2>2. w \in Warriors /\ ~Loaded(w)
    BY DEF Pending
  <2>3. /\ warrior'[w].index = numWarriors /\ warrior'[w].alive = TRUE
        /\ \A v \in Warriors \ {w} : warrior'[v] = warrior[v]
        /\ Loaded(w)'
        /\ \A v \in Warriors \ {w} : Loaded(v)' = Loaded(v)
    <3>1. warrior'[w] = [ index |-> numWarriors, offset |-> a,
              stack |-> nextFree, shared |-> groupShared, pc |-> a,
              alive |-> TRUE ]
      BY <1>0, <2>1, <2>2, LoadFields
    <3>2. /\ \A v \in Warriors \ {w} : warrior'[v] = warrior[v]
          /\ Loaded(w)'
          /\ \A v \in Warriors \ {w} : Loaded(v)' = Loaded(v)
      BY <1>0, <2>1, <2>2, LoadFields
    <3> QED BY <3>1, <3>2
  <2>4. /\ numWarriors' = numWarriors + 1 /\ numWarriors \in Nat
        /\ UNCHANGED <<data, phase, groupsLeft, group>>
    BY <1>0, <2>1 DEF Load, TypeOK
  <2>5. \A v \in Warriors \ {w} : Loaded(v)' =>
          warrior'[v].index < numWarriors /\ warrior'[v].index \in Int
    BY <1>0, <2>3 DEF Seats, TypeOK
  <2>6. \A v \in Warriors : Loaded(v)' => warrior'[v].index < numWarriors'
    BY <2>3, <2>4, <2>5
  <2>7. \A u, v \in Warriors : Loaded(u)' /\ Loaded(v)' /\ u # v =>
          warrior'[u].index # warrior'[v].index
    <3> TAKE u, v \in Warriors
    <3>1. CASE u = w \/ v = w
      BY <2>3, <2>4, <2>5, <3>1
    <3>2. CASE u # w /\ v # w
      BY <2>3, <3>2 DEF Seats
    <3> QED
      BY <3>1, <3>2
  <2>8. phase' = "loading" => \A v \in Warriors :
          /\ Loaded(v)' => warrior'[v].alive
          /\ Loaded(v)' \/ data'[v].group \in groupsLeft' \cup {group'}
    BY <2>3, <2>4 DEF Seats
  <2> QED
    BY <2>6, <2>7, <2>8 DEF Seats
<1>3. CASE LoadFails \/ LoadingDone \/ StartRound \/ UNCHANGED vars
  <2>1. UNCHANGED <<warrior, numWarriors>>
    BY <1>3 DEF LoadFails, LoadingDone, StartRound, loading, vars
  <2>2. phase' = "loading" => UNCHANGED <<data, phase, groupsLeft, group>>
    BY <1>3 DEF LoadFails, LoadingDone, StartRound, input, loading, vars
  <2> QED
    BY <2>1, <2>2 DEF Seats, Loaded
<1>4. CASE Round
  <2>1. PICK w \in Warriors : Turn(w)
    BY <1>4 DEF Round, Turn
  <2>2. numWarriors' = numWarriors /\ phase' = phase /\ phase = "fighting"
    BY <1>0, <2>1, TurnWarrior DEF loading, OnTurn
  <2>3. \A v \in Warriors : warrior'[v].index = warrior[v].index /\ Loaded(v)' = Loaded(v)
    BY <1>0, <2>1, TurnFields
  <2> QED
    BY <2>2, <2>3 DEF Seats
<1> QED
  BY <1>1, <1>2, <1>3, <1>4 DEF Next

(* What a turn is to a Battle: w is first of those still to move, and when *)
(* it is the last seat nobody is left to move.                             *)
LEMMA TurnMoves ==
  ASSUME Inv, Seats, NEW w \in Warriors, Turn(w)
  PROVE  B!Next \/ UNCHANGED B!vars
<1> DEFINE living == {v \in Warriors : warrior[v].alive}
           after(n) == {v \in Warriors : warrior[v].alive /\ warrior[v].index >= n}
           livingNow == {v \in Warriors : warrior'[v].alive}
           moveNow == IF phase' = "fighting" /\ currentWarrior' # -1
                      THEN {v \in Warriors :
                              warrior'[v].alive /\ warrior'[v].index >= currentWarrior'}
                      ELSE {}
<1>1. /\ TypeOK /\ numWarriors \in Nat /\ round \in Nat
      /\ phase = "fighting" /\ phase' = "fighting" /\ NextWarrior
      /\ Loaded(w) /\ warrior[w].index = currentWarrior
  BY TurnWarrior DEF Inv, TypeOK, OnTurn, loading
<1>2. currentWarrior \in Nat /\ currentWarrior < numWarriors
  BY <1>1 DEF Loaded, Seats, TypeOK
<1>3. /\ \A v \in Warriors : /\ warrior'[v].index = warrior[v].index
                             /\ warrior'[v].alive => warrior[v].alive
      /\ \A v \in Warriors \ {w} : warrior'[v] = warrior[v]
      /\ warrior' # warrior => warrior[w].alive
  BY <1>1, TurnFields
<1>4. \A v \in Warriors : warrior[v].alive =>
        /\ warrior[v].index \in Nat /\ warrior[v].index < numWarriors
        /\ v # w => warrior[v].index # currentWarrior
  BY <1>1 DEF Inv, Counts, Seats, Loaded, TypeOK
<1>5. /\ livingNow \in {living, living \ {w}}
      /\ ~warrior[w].alive => livingNow = living
  <2>1. CASE w \in livingNow
    <3>1. livingNow = living
      BY <1>3, <2>1
    <3> QED BY <3>1
  <2>2. CASE w \notin livingNow
    <3>1. livingNow = living \ {w}
      BY <1>3, <2>2
    <3> QED BY <3>1
  <2> QED
    BY <2>1, <2>2
<1>6. moveNow = after(currentWarrior) \ {w}
  <2>1. CASE currentWarrior + 1 < numWarriors
    <3>1. currentWarrior' = currentWarrior + 1 /\ currentWarrior' # -1
      BY <1>1, <1>2, <2>1 DEF NextWarrior
    <3>2. \A v \in Warriors :
            warrior'[v].alive /\ warrior'[v].index >= currentWarrior + 1
              <=> v # w /\ warrior[v].alive /\ warrior[v].index >= currentWarrior
      <4> TAKE v \in Warriors
      <4>1. CASE v = w
        BY <1>1, <1>2, <1>3, <4>1
      <4>2. CASE v # w
        BY <1>2, <1>3, <1>4, <4>2
      <4> QED BY <4>1, <4>2
    <3> QED
      BY <1>1, <3>1, <3>2
  <2>2. CASE ~(currentWarrior + 1 < numWarriors)
    <3>1. currentWarrior' = -1
      BY <1>1, <2>2 DEF NextWarrior
    <3>2. ASSUME NEW v \in after(currentWarrior) PROVE v = w
      <4>1. v \in Warriors /\ warrior[v].alive /\ warrior[v].index >= currentWarrior
        OBVIOUS
      <4>2. /\ warrior[v].index \in Nat /\ warrior[v].index < numWarriors
            /\ v # w => warrior[v].index # currentWarrior
        BY <1>4, <4>1
      <4> QED
        BY <1>1, <1>2, <2>2, <4>1, <4>2
    <3> QED
      BY <3>1, <3>2
  <2> QED
    BY <2>1, <2>2
<1>7. \/ currentWarrior' = -1 /\ round' = round + 1 /\ moveNow = {}
      \/ currentWarrior' # -1 /\ round' = round
  BY <1>1, <1>2 DEF NextWarrior
<1>8. w \in after(currentWarrior) <=> warrior[w].alive
  BY <1>1, <1>2
<1> HIDE DEF after, living, livingNow, moveNow
<1>9. CASE warrior[w].alive
  <2>1. B!Move(w)
    BY <1>1, <1>2, <1>5, <1>6, <1>7, <1>8, <1>9
       DEF B!Move, B!Close, after, living, livingNow, moveNow
  <2> QED BY <2>1 DEF B!Next
<1>10. CASE ~warrior[w].alive
  <2>1. moveNow = after(currentWarrior) /\ livingNow = living
    BY <1>5, <1>6, <1>8, <1>10
  <2>2. CASE currentWarrior' = -1
    <3>1. B!CloseRound
      BY <1>1, <1>2, <1>7, <2>1, <2>2
         DEF B!CloseRound, B!Close, after, living, livingNow, moveNow
    <3> QED BY <3>1 DEF B!Next
  <2>3. CASE currentWarrior' # -1
    BY <1>1, <1>2, <1>7, <2>1, <2>3 DEF B!vars, after, living, livingNow, moveNow
  <2> QED BY <2>2, <2>3
<1> QED
  BY <1>9, <1>10

(* What loading is to a Battle, and the beginning of a round.              *)
LEMMA LoadingGathers ==
  ASSUME Inv, Seats, BeginGroup \/ LoadWarrior \/ LoadFails \/ LoadingDone \/ StartRound
  PROVE  B!Next \/ UNCHANGED B!vars
<1>0. TypeOK
  BY DEF Inv
<1>1. CASE BeginGroup
  BY <1>1 DEF BeginGroup, B!vars
<1>2. CASE LoadWarrior
  <2>1. PICK w \in Pending, a \in Arena : Load(w, a)
    <3>1. \A w \in Pending : IsFixed(w) => data[w].fixed \in Arena
      BY <1>0 DEF TypeOK, Pending, IsFixed, Arena
    <3> QED
      BY <1>2, <3>1 DEF LoadWarrior
  <2>2. w \in Warriors /\ ~Loaded(w) /\ ~warrior[w].alive
    BY <1>0 DEF Pending, Inv, Counts
  <2>3. /\ warrior'[w].alive = TRUE
        /\ \A v \in Warriors \ {w} : warrior'[v] = warrior[v]
    <3>1. warrior'[w] = [ index |-> numWarriors, offset |-> a,
              stack |-> nextFree, shared |-> groupShared, pc |-> a,
              alive |-> TRUE ]
      BY <1>0, <2>1, <2>2, LoadFields
    <3>2. \A v \in Warriors \ {w} : warrior'[v] = warrior[v]
      BY <1>0, <2>1, <2>2, LoadFields
    <3> QED BY <3>1, <3>2
  <2>4. phase = "loading" /\ phase' = "loading" /\ round' = round
    BY <1>2, <2>1 DEF LoadWarrior, Load
  <2>5. {v \in Warriors : warrior'[v].alive} = {v \in Warriors : warrior[v].alive} \cup {w}
    BY <2>2, <2>3
  <2>6. B!Enter(w)
    BY <2>2, <2>4, <2>5 DEF B!Enter
  <2> QED BY <2>2, <2>6 DEF B!Next
<1>3. CASE LoadFails
  <2>1. B!BreakOff
    BY <1>3 DEF LoadFails, B!BreakOff
  <2> QED BY <2>1 DEF B!Next
<1>4. CASE LoadingDone
  <2>1. /\ phase = "loading" /\ Pending = {} /\ groupsLeft = {}
        /\ phase' = "fighting" /\ currentWarrior' = -1
        /\ warrior' = warrior /\ round' = round
    BY <1>4 DEF LoadingDone
  <2>2. \A w \in Warriors : warrior[w].alive
    BY <2>1 DEF Seats, Pending
  <2>3. B!Begin
    BY <2>1, <2>2 DEF B!Begin
  <2> QED BY <2>3 DEF B!Next
<1>5. CASE StartRound
  <2>1. /\ phase = "fighting" /\ phase' = "fighting"
        /\ currentWarrior = -1 /\ currentWarrior' = 0
        /\ warrior' = warrior /\ round' = round
    BY <1>5 DEF StartRound, loading
  <2>2. \A w \in Warriors : warrior[w].alive => warrior[w].index >= 0
    BY DEF Inv, Counts, Loaded
  <2>3. {w \in Warriors : warrior'[w].alive /\ warrior'[w].index >= currentWarrior'}
          = {w \in Warriors : warrior[w].alive}
    BY <2>1, <2>2
  <2>4. B!OpenRound
    BY <2>1, <2>3 DEF B!OpenRound
  <2> QED BY <2>4 DEF B!Next
<1> QED
  BY <1>1, <1>2, <1>3, <1>4, <1>5

(* A war is a Battle, for any warriors, code and memory: it begins with    *)
(* all of them, and in a round of nextRound each one alive moves exactly   *)
(* once, however many die before and after; nobody else dies, and nobody   *)
(* comes back.                                                             *)
THEOREM ImplementsBattle == Spec => BattleSpec
<1>1. Init => B!Init
  <2> SUFFICES ASSUME Init PROVE B!Init
    OBVIOUS
  <2>1. phase = "loading" /\ round = 0 /\ \A w \in Warriors : ~warrior[w].alive
    BY DEF Init, Unloaded
  <2> QED BY <2>1 DEF B!Init
<1>2. Inv /\ Seats /\ [Next]_vars => [B!Next]_B!vars
  <2> SUFFICES ASSUME Inv, Seats, [Next]_vars PROVE B!Next \/ UNCHANGED B!vars
    OBVIOUS
  <2>1. CASE Round
    <3>1. PICK w \in Warriors : Turn(w)
      BY <2>1 DEF Round, Turn
    <3> QED BY <3>1, TurnMoves
  <2>2. CASE UNCHANGED vars
    BY <2>2 DEF vars, B!vars
  <2> QED
    BY <2>1, <2>2, LoadingGathers DEF Next
<1> QED
  BY <1>1, <1>2, SeatsInit, SeatsStep, AlwaysInv, PTL DEF Spec, BattleSpec, B!Spec
=============================================================================
