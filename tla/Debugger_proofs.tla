-------------------------- MODULE Debugger_proofs --------------------------
(***************************************************************************)
(* The line table of module Debugger, for any arena, listings and layouts: *)
(* its lines are true and apart through every patch of it, the debug line  *)
(* is shown, and the breakpoints of sources and view agree.                *)
(***************************************************************************)
EXTENDS Debugger, SequenceTheorems, WellFoundedInduction,
  TLAPS

Lines == {l \in Line : /\ l.kind = "hidden" => l = Hidden
                       /\ l.kind = "source" <=> l.source # <<>>}
Tables == [Addr -> Lines]
Memories == [Memory -> Bytes]

(* A line at a shows what is in memory, and hides what is after it.        *)
LineOk(t, m, a) ==
  \A i \in 1 .. Len(t[a].bytes) :
    /\ a + i - 1 \in Addr /\ m[a + i - 1] = t[a].bytes[i]
    /\ i > 1 => t[a + i - 1] = Hidden

TableOk(layout, t, m) ==
  \A a \in Addr : t[a] # Hidden /\ ~Clipped(layout, t[a], a) => LineOk(t, m, a)

(* Source lines are where the layout puts them.                            *)
InPlace(layout, t) ==
  \A a \in Addr : t[a].kind = "source" =>
    IsCode(t[a].source) /\ At(layout, t[a].source) = a

Agree(t, view, sources) ==
  \A a \in Addr : t[a].kind = "source" =>
    view[a] = IF t[a].source \in sources THEN t[a].source ELSE NoBreakpoint

TableInv(layout, t, m) ==
  t \in Tables /\ t[0] # Hidden /\ TableOk(layout, t, m) /\ InPlace(layout, t)

Inv ==
  /\ TypeOK
  /\ debugging => /\ TableInv(offset, dbglines, mem)
                  /\ Agree(dbglines, dbgBreakpoints, breakpoints)
                  /\ placed # Nowhere => dbglines[placed] # Hidden

-----------------------------------------------------------------------------
(***************************************************************************)
(* Numbers, lines, and where scans downwards end.                          *)
(***************************************************************************)
LEMMA Least ==
  ASSUME NEW T, T \subseteq Nat, T # {}
  PROVE  \E m \in T : \A y \in T : m <= y
<1> DEFINE R == OpToRel(<, Nat)
<1>1. PICK m \in T : \A y \in T : ~(<<y, m>> \in R)
  BY NatLessThanWellFounded, WFMin, Zenon
<1>2. \A y \in T : y < m => <<y, m>> \in R
  BY Zenon DEF OpToRel
<1>3. \A y \in T : ~(y < m)
  BY <1>1, <1>2, Zenon
<1>4. T \subseteq Nat /\ m \in T
  OBVIOUS
<1> HIDE DEF R
<1> QED BY <1>3, <1>4

LEMMA Sizes ==
  /\ ArenaSize \in Nat /\ MemorySize \in Nat /\ 0 \in Addr
  /\ \A a \in Addr : {a, a + 1, a + 2, a + 3} \subseteq Memory
  /\ Nowhere = -1 /\ Nowhere \notin Addr
BY DebuggerAssumption DEF DebuggerAssumption, Addr, Memory

LEMMA SomeLines ==
  /\ Hidden \in Lines /\ Fill \in Lines /\ Fill # Hidden
  /\ \A b \in Bytes : /\ ByteLine(b) \in Lines /\ ByteLine(b) # Hidden
                      /\ ByteLine(b).kind = "byte" /\ ByteLine(b).bytes = <<b>>
  /\ \A bs \in Seq(Bytes) : /\ OpLine(bs) \in Lines /\ OpLine(bs) # Hidden
                            /\ OpLine(bs).kind = "op" /\ OpLine(bs).bytes = bs
BY DebuggerAssumption
   DEF DebuggerAssumption, Lines, Line, Hidden, Fill, ByteLine, OpLine

LEMMA StartExists ==
  ASSUME NEW t, t[0] # Hidden, NEW a \in Addr
  PROVE  IsStart(t, a, StartOf(t, a))
<1> DEFINE T == {d \in 0 .. a : t[a - d] # Hidden}
<1>1. a \in Nat /\ a < ArenaSize /\ ArenaSize \in Nat
  BY Sizes DEF Addr
<1>2. a \in T /\ T \subseteq Nat
  BY <1>1
<1>3. PICK d \in T : \A y \in T : d <= y
  BY <1>2, Least
<1>4. a - d \in Addr /\ a - d <= a /\ t[a - d] # Hidden
  BY <1>1, <1>3 DEF Addr
<1>5. ASSUME NEW x \in a - d + 1 .. a
      PROVE  t[x] = Hidden
  <2>1. a - x \in 0 .. a /\ a - x < d /\ a - (a - x) = x
    BY <1>1, <1>3, <1>5
  <2>2. a - x \notin T
    BY <2>1, <1>3
  <2> QED BY <2>1, <2>2
<1>6. IsStart(t, a, a - d)
  BY <1>4, <1>5 DEF IsStart, AllHidden
<1> QED BY <1>4, <1>6 DEF StartOf

-----------------------------------------------------------------------------
(***************************************************************************)
(* What patches leave of a table.                                          *)
(***************************************************************************)

(* A line is as it was if everything from it on is, or if everything       *)
(* before a line further on is.                                            *)
LEMMA KeptAfter ==
  ASSUME NEW t, NEW u, NEW m, NEW x \in Addr, LineOk(t, m, x),
         \A y \in Addr : y >= x => u[y] = t[y]
  PROVE  LineOk(u, m, x)
<1>1. u[x] = t[x]
  BY Sizes DEF Addr
<1>2. ASSUME NEW i \in 1 .. Len(t[x].bytes)
      PROVE  u[x + i - 1] = t[x + i - 1]
  <2>1. x + i - 1 \in Addr
    BY DEF LineOk
  <2>2. x \in Int /\ i \in Int /\ i >= 1
    BY Sizes DEF Addr
  <2> QED BY <2>1, <2>2
<1> QED BY <1>1, <1>2 DEF LineOk

LEMMA KeptBefore ==
  ASSUME NEW t, NEW u, NEW m, NEW b \in Addr, NEW x \in Addr, x < b,
         t \in Tables, t[b] # Hidden, LineOk(t, m, x),
         \A y \in Addr : y < b => u[y] = t[y]
  PROVE  LineOk(u, m, x)
<1>1. u[x] = t[x] /\ Len(t[x].bytes) \in Nat
  BY DEF Tables, Lines, Line
<1>2. ASSUME NEW i \in 1 .. Len(t[x].bytes)
      PROVE  x + i - 1 < b
  <2>1. x \in Int /\ b \in Int /\ i \in Int
    BY <1>1, Sizes DEF Addr
  <2>2. SUFFICES ASSUME x + i - 1 >= b PROVE FALSE
    BY <2>1
  <2>3. b - x + 1 \in 1 .. Len(t[x].bytes) /\ b - x + 1 > 1 /\ x + (b - x + 1) - 1 = b
    BY <1>1, <2>1, <2>2
  <2> QED BY <2>3 DEF LineOk
<1> QED BY <1>1, <1>2 DEF LineOk

LEMMA ByteLineOk ==
  ASSUME NEW u, NEW m \in Memories, NEW x \in Addr, u[x] = ByteLine(m[x])
  PROVE  LineOk(u, m, x)
<1>1. m[x] \in Bytes /\ u[x].bytes = <<m[x]>>
  BY SomeLines, Sizes DEF Memories
<1>2. Len(u[x].bytes) = 1 /\ u[x].bytes[1] = m[x]
  BY <1>1
<1> QED BY <1>2, Sizes DEF LineOk, Addr

(* Everything from b on is in u as in t, or was hidden and shows a byte;   *)
(* a line of t from b on fixes all that is after it.                       *)
ShownFrom(t, u, m, b) ==
  \A x \in Addr : x >= b =>
    /\ u[x] = t[x] \/ u[x] = ByteLine(m[x])
    /\ t[x] # Hidden => \A y \in Addr : y >= x => u[y] = t[y]

LEMMA ErasedShape ==
  ASSUME NEW t \in Tables, NEW m \in Memories, NEW a \in Addr
  PROVE  LET u == Erased(t, m, a)
         IN /\ u \in Tables /\ u[a] = Hidden
            /\ \A x \in Addr : x < a => u[x] = t[x]
            /\ ShownFrom(t, u, m, a + 1)
<1> DEFINE u == Erased(t, m, a)
<1>0. a \in Int /\ Addr \subseteq Int /\ Addr \subseteq Memory
  BY Sizes DEF Addr
<1>1. u \in Tables
  BY <1>0, SomeLines DEF Erased, Tables, Memories
<1>2. u[a] = Hidden /\ \A x \in Addr : x < a => u[x] = t[x]
  BY <1>0 DEF Erased
<1>3. \A x \in Addr : x >= a + 1 => u[x] = t[x] \/ u[x] = ByteLine(m[x])
  BY <1>0 DEF Erased
<1>4. ASSUME NEW x \in Addr, x >= a + 1, t[x] # Hidden, NEW y \in Addr, y >= x
      PROVE  u[y] = t[y]
  <2>1. x \in a + 1 .. y /\ y > a
    BY <1>0, <1>4
  <2> QED BY <1>4, <2>1 DEF Erased, AllHidden
<1> QED BY <1>1, <1>2, <1>3, <1>4 DEF ShownFrom

LEMMA ShownTwice ==
  ASSUME NEW t, NEW u, NEW v, NEW m, NEW b \in Int, NEW c \in Int, b <= c,
         ShownFrom(t, u, m, b), ShownFrom(u, v, m, c)
  PROVE  ShownFrom(t, v, m, c)
BY Sizes DEF ShownFrom, Addr

LEMMA OpcodeShownShape ==
  ASSUME NEW t \in Tables, NEW m \in Memories, NEW a \in Addr, NEW n \in {2, 4}
  PROVE  LET u == OpcodeShown(t, m, a, n)
             bs == [i \in 1 .. n |-> m[a + i - 1]]
         IN /\ u \in Tables /\ u[a] = OpLine(bs) /\ bs \in Seq(Bytes)
            /\ \A x \in Addr : x < a => u[x] = t[x]
            /\ ShownFrom(t, u, m, a + 1)
<1> DEFINE e == Erased(t, m, a)
           bs == [i \in 1 .. n |-> m[a + i - 1]]
           u == OpcodeShown(t, m, a, n)
<1>1. /\ e \in Tables /\ \A x \in Addr : x < a => e[x] = t[x]
      /\ ShownFrom(t, e, m, a + 1)
  BY ErasedShape
<1>2. bs \in Seq(Bytes)
  <2>1. \A i \in 1 .. n : a + i - 1 \in Memory
    BY Sizes DEF Addr
  <2>2. \A i \in 1 .. n : m[a + i - 1] \in Bytes
    BY <2>1 DEF Memories
  <2> QED BY <2>2
<1> HIDE DEF bs
<1>3. OpLine(bs) \in Lines
  BY <1>2, SomeLines
<1> HIDE DEF e
<1>4. u = [e EXCEPT ![a] = OpLine(bs)]
  BY DEF OpcodeShown, e, bs
<1>5. u \in Tables /\ u[a] = OpLine(bs) /\ \A x \in Addr : x # a => u[x] = e[x]
  BY <1>1, <1>3, <1>4 DEF Tables
<1>6. \A x \in Addr : x < a => u[x] = t[x]
  BY <1>1, <1>5, Sizes DEF Addr
<1>7. ShownFrom(t, u, m, a + 1)
  BY <1>1, <1>5, Sizes DEF ShownFrom, Addr
<1> HIDE DEF u
<1> QED BY <1>2, <1>5, <1>6, <1>7 DEF u, bs

(* Erasing the next address of an opcode that is laid over others.         *)
LEMMA ErasedNext ==
  ASSUME NEW t \in Tables, NEW u \in Tables, NEW m \in Memories,
         NEW a \in Addr, NEW b \in Addr, a < b, ShownFrom(t, u, m, b),
         \A x \in Addr : x < a => u[x] = t[x],
         \A x \in Addr : a < x /\ x < b => u[x] = Hidden
  PROVE  LET v == Erased(u, m, b)
         IN /\ v \in Tables /\ v[a] = u[a]
            /\ \A x \in Addr : x < a => v[x] = t[x]
            /\ \A x \in Addr : a < x /\ x < b + 1 => v[x] = Hidden
            /\ ShownFrom(t, v, m, b + 1)
<1> DEFINE v == Erased(u, m, b)
<1>1. /\ v \in Tables /\ v[b] = Hidden
      /\ \A x \in Addr : x < b => v[x] = u[x]
      /\ ShownFrom(u, v, m, b + 1)
  BY ErasedShape
<1> HIDE DEF v
<1>2. a \in Int /\ b \in Int /\ Addr \subseteq Int
  BY Sizes DEF Addr
<1>3. ShownFrom(t, v, m, b + 1)
  BY <1>1, <1>2, ShownTwice
<1>4. v[a] = u[a] /\ \A x \in Addr : x < a => v[x] = t[x]
  BY <1>1, <1>2
<1>5. \A x \in Addr : a < x /\ x < b + 1 => v[x] = Hidden
  BY <1>1, <1>2
<1> QED BY <1>1, <1>3, <1>4, <1>5 DEF v

(* disassembleAddress: the opcode is at a, the addresses it takes are      *)
(* hidden, and it is all in the arena.                                     *)
LEMMA DisassembledShape ==
  ASSUME NEW t \in Tables, NEW m \in Memories, NEW a \in Addr, NEW n \in {2, 4},
         ~DisassemblyRunsOff(t, m, a, n)
  PROVE  LET u == Disassembled(t, m, a, n)
             bs == [i \in 1 .. n |-> m[a + i - 1]]
         IN /\ u \in Tables /\ u[a] = OpLine(bs) /\ bs \in Seq(Bytes)
            /\ \A x \in Addr : x < a => u[x] = t[x]
            /\ a + n - 1 \in Addr
            /\ \A x \in Addr : a < x /\ x < a + n => u[x] = Hidden
            /\ ShownFrom(t, u, m, a + n)
<1> DEFINE bs == [i \in 1 .. n |-> m[a + i - 1]]
           one == OpcodeShown(t, m, a, n)
           two == Erased(one, m, a + 1)
           three == Erased(two, m, a + 2)
           four == Erased(three, m, a + 3)
<1>0. a \in Int /\ Addr = 0 .. ArenaSize - 1 /\ ArenaSize \in Nat /\ a \in Nat
  BY Sizes DEF Addr
<1>1. /\ one \in Tables /\ one[a] = OpLine(bs) /\ bs \in Seq(Bytes)
      /\ \A x \in Addr : x < a => one[x] = t[x]
      /\ ShownFrom(t, one, m, a + 1)
  BY OpcodeShownShape
<1>2. a + 1 \in Addr /\ a + 2 \in Addr /\ (n = 4 => a + 3 \in Addr /\ a + 4 \in Addr)
  BY <1>0 DEF DisassemblyRunsOff, RunsOff, AllHidden
<1>3. Disassembled(t, m, a, n) = IF n = 2 THEN two ELSE four
  BY DEF Disassembled
<1> HIDE DEF one, bs
<1>4. /\ two \in Tables /\ two[a] = one[a]
      /\ \A x \in Addr : x < a => two[x] = t[x]
      /\ \A x \in Addr : a < x /\ x < a + 2 => two[x] = Hidden
      /\ ShownFrom(t, two, m, a + 2)
  <2>1. \A x \in Addr : a < x /\ x < a + 1 => one[x] = Hidden
    BY <1>0
  <2>2. a < a + 1 /\ a + 1 + 1 = a + 2
    BY <1>0
  <2>3. /\ two \in Tables /\ two[a] = one[a]
        /\ \A x \in Addr : x < a => two[x] = t[x]
        /\ \A x \in Addr : a < x /\ x < a + 1 + 1 => two[x] = Hidden
        /\ ShownFrom(t, two, m, a + 1 + 1)
    BY <1>1, <1>2, <2>1, <2>2, ErasedNext
  <2> QED BY <2>2, <2>3
<1> HIDE DEF two
<1>5. CASE n = 2
  BY <1>0, <1>1, <1>2, <1>3, <1>4, <1>5 DEF bs
<1>6. CASE n = 4
  <2>1. /\ three \in Tables /\ three[a] = two[a]
        /\ \A x \in Addr : x < a => three[x] = t[x]
        /\ \A x \in Addr : a < x /\ x < a + 3 => three[x] = Hidden
        /\ ShownFrom(t, three, m, a + 3)
    <3>1. a < a + 2 /\ a + 2 + 1 = a + 3
      BY <1>0
    <3>2. /\ three \in Tables /\ three[a] = two[a]
          /\ \A x \in Addr : x < a => three[x] = t[x]
          /\ \A x \in Addr : a < x /\ x < a + 2 + 1 => three[x] = Hidden
          /\ ShownFrom(t, three, m, a + 2 + 1)
      BY <1>2, <1>4, <3>1, ErasedNext
    <3> QED BY <3>1, <3>2
  <2> HIDE DEF three
  <2>2. /\ four \in Tables /\ four[a] = three[a]
        /\ \A x \in Addr : x < a => four[x] = t[x]
        /\ \A x \in Addr : a < x /\ x < a + 4 => four[x] = Hidden
        /\ ShownFrom(t, four, m, a + 4)
    <3>1. a < a + 3 /\ a + 3 + 1 = a + 4
      BY <1>0
    <3>2. /\ four \in Tables /\ four[a] = three[a]
          /\ \A x \in Addr : x < a => four[x] = t[x]
          /\ \A x \in Addr : a < x /\ x < a + 3 + 1 => four[x] = Hidden
          /\ ShownFrom(t, four, m, a + 3 + 1)
      BY <1>2, <1>6, <2>1, <3>1, ErasedNext
    <3> QED BY <3>1, <3>2
  <2> HIDE DEF four
  <2>3. Disassembled(t, m, a, n) = four /\ a + n = a + 4 /\ a + n - 1 \in Addr
    BY <1>0, <1>2, <1>3, <1>6
  <2> QED BY <1>1, <1>4, <2>1, <2>2, <2>3 DEF bs
<1> QED BY <1>5, <1>6

(* No line of a source is made, but one may go.                            *)
SourcesKept(t, u) == \A x \in Addr : u[x].kind = "source" => u[x] = t[x]

LEMMA KeptInPlace ==
  ASSUME NEW layout, NEW t, NEW u, SourcesKept(t, u), InPlace(layout, t)
  PROVE  InPlace(layout, u)
BY DEF SourcesKept, InPlace

LEMMA ShownFromOk ==
  ASSUME NEW layout, NEW t \in Tables, NEW u \in Tables, NEW m \in Memories,
         NEW b \in Int, ShownFrom(t, u, m, b), TableOk(layout, t, m),
         NEW x \in Addr, x >= b, u[x] # Hidden, ~Clipped(layout, u[x], x)
  PROVE  LineOk(u, m, x)
<1>1. CASE u[x] = ByteLine(m[x])
  BY <1>1, ByteLineOk
<1>2. CASE u[x] = t[x]
  <2>1. LineOk(t, m, x) /\ t[x] # Hidden
    BY <1>2 DEF TableOk
  <2>2. \A y \in Addr : y >= x => u[y] = t[y]
    BY <2>1 DEF ShownFrom
  <2> QED BY <2>1, <2>2, KeptAfter
<1> QED BY <1>1, <1>2 DEF ShownFrom

LEMMA DisassembledOk ==
  ASSUME NEW layout, NEW t, NEW m \in Memories, TableInv(layout, t, m),
         NEW a \in Addr, t[a] # Hidden, NEW n \in {2, 4},
         ~DisassemblyRunsOff(t, m, a, n)
  PROVE  LET u == Disassembled(t, m, a, n)
         IN TableInv(layout, u, m) /\ SourcesKept(t, u) /\ u[a] # Hidden
<1> DEFINE u == Disassembled(t, m, a, n)
           bs == [i \in 1 .. n |-> m[a + i - 1]]
<1>0. /\ t \in Tables /\ t[0] # Hidden /\ TableOk(layout, t, m) /\ InPlace(layout, t)
      /\ Addr = 0 .. ArenaSize - 1 /\ ArenaSize \in Nat /\ a \in Nat /\ n \in Nat
  BY Sizes DEF TableInv, Addr
<1>1. /\ u \in Tables /\ u[a] = OpLine(bs) /\ bs \in Seq(Bytes)
      /\ \A x \in Addr : x < a => u[x] = t[x]
      /\ a + n - 1 \in Addr
      /\ \A x \in Addr : a < x /\ x < a + n => u[x] = Hidden
      /\ ShownFrom(t, u, m, a + n)
  <2>1. t \in Tables
    BY <1>0
  <2> QED BY <2>1, DisassembledShape, Zenon
<1>2. Len(bs) = n /\ \A i \in 1 .. n : bs[i] = m[a + i - 1]
  <2>1. DOMAIN bs = 1 .. n /\ n \in Nat
    BY <1>0
  <2>2. \A k \in Nat : DOMAIN bs = 1 .. k => Len(bs) = k
    BY <1>1, LenProperties
  <2> QED BY <2>1, <2>2
<1> HIDE DEF u, bs
<1>3. u[a] # Hidden /\ u[a].bytes = bs /\ u[a].kind = "op"
  BY <1>1, SomeLines
<1>4. LineOk(u, m, a)
  <2>1. ASSUME NEW i \in 1 .. n
        PROVE  a + i - 1 \in Addr /\ (i > 1 => u[a + i - 1] = Hidden)
    BY <1>0, <1>1
  <2> QED BY <1>2, <1>3, <2>1 DEF LineOk
<1>5. ASSUME NEW x \in Addr, u[x] # Hidden, ~Clipped(layout, u[x], x)
      PROVE  LineOk(u, m, x)
  <2>1. CASE x < a
    <3>1. LineOk(t, m, x)
      BY <1>0, <1>1, <1>5, <2>1 DEF TableOk
    <3> QED BY <1>0, <1>1, <2>1, <3>1, KeptBefore
  <2>2. CASE x >= a + n
    BY <1>0, <1>1, <1>5, <2>2, ShownFromOk
  <2>3. CASE x = a
    BY <1>4, <2>3
  <2> QED BY <1>0, <1>1, <1>5, <2>1, <2>2, <2>3
<1>6. TableOk(layout, u, m)
  BY <1>5 DEF TableOk
<1>7. u[0] # Hidden
  BY <1>0, <1>1, <1>3, Sizes
<1>8. SourcesKept(t, u)
  <2>1. ASSUME NEW x \in Addr, u[x].kind = "source"
        PROVE  u[x] = t[x]
    <3>1. CASE x < a
      BY <1>1, <3>1
    <3>2. CASE a < x /\ x < a + n
      <4>1. Hidden.kind = "hidden" /\ u[x] = Hidden
        BY <1>1, <3>2 DEF Hidden
      <4> QED BY <2>1, <4>1
    <3>3. CASE x >= a + n
      <4>1. u[x] = t[x] \/ u[x] = ByteLine(m[x])
        BY <1>1, <3>3 DEF ShownFrom
      <4>2. ByteLine(m[x]).kind = "byte"
        BY DEF ByteLine
      <4> QED BY <2>1, <4>1, <4>2
    <3> QED BY <1>0, <1>3, <2>1, <3>1, <3>2, <3>3
  <2> QED BY <2>1 DEF SourcesKept
<1> QED BY <1>0, <1>1, <1>3, <1>6, <1>7, <1>8, KeptInPlace DEF TableInv, u

LEMMA BrokenUpOk ==
  ASSUME NEW layout, NEW t, NEW m \in Memories, TableInv(layout, t, m),
         NEW a \in Addr
  PROVE  LET u == BrokenUp(t, m, a)
         IN TableInv(layout, u, m) /\ SourcesKept(t, u) /\ u[a] # Hidden
<1> DEFINE s == StartOf(t, a)
           u == BrokenUp(t, m, a)
<1>0. /\ t \in Tables /\ t[0] # Hidden /\ TableOk(layout, t, m) /\ InPlace(layout, t)
      /\ Addr = 0 .. ArenaSize - 1 /\ ArenaSize \in Nat /\ a \in Nat
      /\ Addr \subseteq Memory
  BY Sizes DEF TableInv, Addr
<1>1. s \in Addr /\ s <= a /\ t[s] # Hidden /\ AllHidden(t, s + 1, a)
  BY <1>0, StartExists DEF IsStart
<1>2. u = [x \in Addr |-> IF x >= s /\ AllHidden(t, s + 1, x) THEN ByteLine(m[x])
                          ELSE t[x]]
  BY DEF BrokenUp
<1> HIDE DEF s, u
<1>3. \A x \in Addr : u[x] = t[x] \/ u[x] = ByteLine(m[x])
  BY <1>2
<1>4. u \in Tables
  <2>1. \A x \in Addr : t[x] \in Lines /\ ByteLine(m[x]) \in Lines
    BY <1>0, SomeLines DEF Tables, Memories
  <2> QED BY <1>2, <2>1 DEF Tables
<1>5. \A x \in Addr : x < s => u[x] = t[x]
  BY <1>0, <1>1, <1>2
<1>6. u[a] = ByteLine(m[a]) /\ u[s] = ByteLine(m[s])
  BY <1>0, <1>1, <1>2 DEF AllHidden
<1>7. \A x \in Addr : ByteLine(m[x]) # Hidden
  BY <1>0, SomeLines DEF Memories
<1>8. ShownFrom(t, u, m, s + 1)
  <2>1. ASSUME NEW x \in Addr, x >= s + 1, t[x] # Hidden, NEW y \in Addr, y >= x
        PROVE  u[y] = t[y]
    <3>1. x \in s + 1 .. y
      BY <1>0, <1>1, <2>1
    <3> QED BY <1>2, <2>1, <3>1 DEF AllHidden
  <2> QED BY <1>3, <2>1 DEF ShownFrom
<1>9. ASSUME NEW x \in Addr, u[x] # Hidden, ~Clipped(layout, u[x], x)
      PROVE  LineOk(u, m, x)
  <2>1. CASE x < s
    <3>1. LineOk(t, m, x)
      BY <1>0, <1>5, <1>9, <2>1 DEF TableOk
    <3> QED BY <1>0, <1>1, <1>5, <2>1, <3>1, KeptBefore
  <2>2. CASE x >= s + 1
    <3>1. s + 1 \in Int
      BY <1>0, <1>1
    <3> QED BY <1>0, <1>4, <1>8, <1>9, <2>2, <3>1, ShownFromOk
  <2>3. CASE x = s
    BY <1>6, <2>3, ByteLineOk
  <2> QED BY <1>0, <1>1, <2>1, <2>2, <2>3
<1>10. TableOk(layout, u, m)
  BY <1>9 DEF TableOk
<1>11. SourcesKept(t, u)
  <2>1. \A x \in Addr : ByteLine(m[x]).kind # "source"
    BY DEF ByteLine
  <2> QED BY <1>3, <2>1 DEF SourcesKept
<1>12. u[0] # Hidden
  BY <1>0, <1>3, <1>7, Sizes
<1> QED BY <1>0, <1>4, <1>6, <1>7, <1>10, <1>11, <1>12, KeptInPlace DEF TableInv, u

LEMMA SizeType ==
  ASSUME NEW m \in Memories, NEW a \in Addr
  PROVE  OpcodeSize(m, a) \in {0, 2, 4}
<1>1. \A i \in {a, a + 1, a + 2, a + 3} : m[i] \in Bytes
  BY Sizes DEF Memories
<1> QED BY <1>1, DebuggerAssumption DEF DebuggerAssumption, OpcodeSize

LEMMA ReachedOk ==
  ASSUME NEW layout, NEW t, NEW m \in Memories, TableInv(layout, t, m),
         NEW a \in Addr, ~ReachRunsOff(t, m, a)
  PROVE  LET u == Reached(t, m, a)
         IN TableInv(layout, u, m) /\ SourcesKept(t, u) /\ u[a] # Hidden
<1> DEFINE v == Opened(t, m, a)
           n == OpcodeSize(m, a)
<1>1. TableInv(layout, v, m) /\ SourcesKept(t, v) /\ v[a] # Hidden
  <2>1. CASE t[a] = Hidden
    BY <2>1, BrokenUpOk DEF Opened
  <2>2. CASE t[a] # Hidden
    BY <2>2 DEF Opened, SourcesKept
  <2> QED BY <2>1, <2>2
<1>2. /\ n \in {0, 2, 4}
      /\ Reached(t, m, a) = IF n # 0 /\ NotYetParsed(v[a])
                            THEN Disassembled(v, m, a, n) ELSE v
      /\ n # 0 /\ NotYetParsed(v[a]) => ~DisassemblyRunsOff(v, m, a, n)
  BY SizeType DEF Reached, ReachRunsOff
<1> HIDE DEF v, n
<1>3. CASE n # 0 /\ NotYetParsed(v[a])
  <2> DEFINE u == Disassembled(v, m, a, n)
  <2>1. n \in {2, 4} /\ ~DisassemblyRunsOff(v, m, a, n) /\ Reached(t, m, a) = u
    BY <1>2, <1>3
  <2>2. TableInv(layout, u, m) /\ SourcesKept(v, u) /\ u[a] # Hidden
    BY <1>1, <2>1, DisassembledOk
  <2> HIDE DEF u
  <2> QED BY <1>1, <2>1, <2>2 DEF SourcesKept
<1>4. CASE ~(n # 0 /\ NotYetParsed(v[a]))
  BY <1>1, <1>2, <1>4
<1> QED BY <1>3, <1>4

(* A byte is written: the line it is in becomes a byte, and no other line  *)
(* shows it.                                                               *)
LEMMA PatchedOk ==
  ASSUME NEW layout, NEW t, NEW m \in Memories, TableInv(layout, t, m),
         NEW a \in Memory, NEW b \in Bytes
  PROVE  LET w == [m EXCEPT ![a] = b]
             u == Patched(t, w, a)
         IN /\ w \in Memories /\ TableInv(layout, u, w) /\ SourcesKept(t, u)
            /\ \A x \in Addr : t[x] # Hidden => u[x] # Hidden
<1> DEFINE w == [m EXCEPT ![a] = b]
           s == StartOf(t, a)
           u == Patched(t, w, a)
<1>0. /\ t \in Tables /\ t[0] # Hidden /\ TableOk(layout, t, m) /\ InPlace(layout, t)
      /\ Addr = 0 .. ArenaSize - 1 /\ ArenaSize \in Nat /\ Addr \subseteq Memory
  BY Sizes DEF TableInv, Addr
<1>1. w \in Memories /\ \A x \in Memory : x # a => w[x] = m[x]
  BY DEF Memories
<1> HIDE DEF w
<1>2. CASE a \notin Addr
  <2>1. u = t
    BY <1>2 DEF Patched
  <2>2. \A x \in Addr : LineOk(t, m, x) => LineOk(t, w, x)
    <3>1. \A y \in Addr : w[y] = m[y]
      BY <1>0, <1>1, <1>2
    <3> QED BY <3>1 DEF LineOk
  <2>3. TableInv(layout, u, w)
    BY <1>0, <2>1, <2>2 DEF TableInv, TableOk
  <2> HIDE DEF u
  <2> QED BY <1>1, <2>1, <2>3 DEF SourcesKept, u, w
<1>3. CASE a \in Addr
  <2>1. s \in Addr /\ s <= a /\ t[s] # Hidden /\ AllHidden(t, s + 1, a)
    BY <1>0, <1>3, StartExists DEF IsStart
  <2>2. u = [t EXCEPT ![s] = ByteLine(w[s])]
    BY <1>3 DEF Patched
  <2> HIDE DEF s, u
  <2>3. w[s] \in Bytes
    BY <1>0, <1>1, <2>1 DEF Memories
  <2>4. /\ ByteLine(w[s]) \in Lines /\ ByteLine(w[s]) # Hidden
        /\ ByteLine(w[s]).kind = "byte"
    BY <2>3, SomeLines
  <2>5. /\ u \in Tables /\ u[s] = ByteLine(w[s])
        /\ \A x \in Addr : x # s => u[x] = t[x]
    BY <1>0, <2>1, <2>2, <2>4 DEF Tables
  <2>6. ASSUME NEW x \in Addr, u[x] # Hidden, ~Clipped(layout, u[x], x)
        PROVE  LineOk(u, w, x)
    <3>1. CASE x = s
      BY <1>1, <2>5, <3>1, ByteLineOk
    <3>2. CASE x # s
      <4>1. LineOk(t, m, x) /\ u[x] = t[x] /\ t[x] # Hidden
        BY <1>0, <2>5, <2>6, <3>2 DEF TableOk
      <4>2. ASSUME NEW i \in 1 .. Len(t[x].bytes)
            PROVE  x + i - 1 # a /\ (i > 1 => x + i - 1 # s)
        <5>1. i \in Nat /\ x \in Nat /\ a \in Nat /\ s \in Nat
          BY <1>0, <1>3, <2>1
        <5>2. i > 1 => x + i - 1 # s
          BY <2>1, <4>1 DEF LineOk
        <5>3. ASSUME x + i - 1 = a PROVE FALSE
          <6>1. CASE x > s
            <7>1. x \in s + 1 .. a
              BY <5>1, <5>3, <6>1
            <7> QED BY <4>1, <7>1, <2>1 DEF AllHidden
          <6>2. CASE x < s
            <7>1. s - x + 1 \in 1 .. Len(t[x].bytes)
              <8>1. Len(t[x].bytes) \in Nat
                BY <1>0 DEF Tables, Lines, Line
              <8> QED BY <2>1, <5>1, <5>3, <6>2, <8>1
            <7>2. s - x + 1 > 1 /\ x + (s - x + 1) - 1 = s
              BY <5>1, <6>2
            <7> QED BY <2>1, <4>1, <7>1, <7>2 DEF LineOk
          <6> QED BY <3>2, <5>1, <6>1, <6>2
        <5> QED BY <5>2, <5>3
      <4>3. ASSUME NEW i \in 1 .. Len(t[x].bytes)
            PROVE  /\ x + i - 1 \in Addr /\ w[x + i - 1] = t[x].bytes[i]
                   /\ i > 1 => u[x + i - 1] = Hidden
        <5>1. x + i - 1 \in Addr /\ m[x + i - 1] = t[x].bytes[i]
              /\ (i > 1 => t[x + i - 1] = Hidden)
          BY <4>1 DEF LineOk
        <5> QED BY <1>0, <1>1, <2>5, <4>2, <5>1
      <4> QED BY <4>1, <4>3 DEF LineOk
    <3> QED BY <3>1, <3>2
  <2>7. TableOk(layout, u, w)
    BY <2>6 DEF TableOk
  <2>8. SourcesKept(t, u)
    BY <2>4, <2>5 DEF SourcesKept
  <2>9. \A x \in Addr : t[x] # Hidden => u[x] # Hidden
    BY <2>4, <2>5
  <2>10. InPlace(layout, u)
    BY <1>0, <2>8, KeptInPlace
  <2>11. TableInv(layout, u, w)
    BY <1>0, <2>5, <2>7, <2>9, <2>10, Sizes DEF TableInv
  <2> QED BY <1>1, <2>8, <2>9, <2>11 DEF u, w
<1> QED BY <1>2, <1>3

-----------------------------------------------------------------------------
(***************************************************************************)
(* The start of a session.                                                 *)
(***************************************************************************)
LEMMA SourceTypes ==
  ASSUME NEW s \in Sources
  PROVE  /\ s # <<>> /\ s # Transient
         /\ Lst(s) \in LstLine /\ s[1] \in Warriors
<1>0. PICK w \in Warriors : s \in {<<w, n>> : n \in DOMAIN Listing[w]}
  BY DEF Sources
<1>1. PICK n \in DOMAIN Listing[w] : s = <<w, n>>
  BY <1>0
<1>2. Len(s) = 2 /\ s[1] = w /\ s[2] = n
  BY <1>1
<1>3. Len(<<>>) = 0 /\ Len(Transient) = 1
  BY DEF Transient
<1>4. Listing[w] \in Seq(LstLine)
  BY DebuggerAssumption DEF DebuggerAssumption
<1>5. Listing[w][n] \in LstLine
  BY <1>4
<1> QED BY <1>1, <1>2, <1>3, <1>5 DEF Lst

LEMMA SourcesApart ==
  ASSUME NEW layout \in Layouts, NEW s \in Sources, IsCode(s)
  PROVE  /\ At(layout, s) \in Addr /\ At(layout, s) > 0 /\ Width(s) \in Nat
         /\ At(layout, s) \in Extent(layout, s) /\ Extent(layout, s) \subseteq Addr
         /\ Extent(layout, s) = At(layout, s) .. At(layout, s) + Width(s) - 1
         /\ \A r \in Sources : \A x \in Extent(layout, s) :
              IsCode(r) /\ x \in Extent(layout, r) => r = s
<1>1. Lst(s).address \in Nat /\ Width(s) \in Nat
  BY SourceTypes, DebuggerAssumption DEF IsCode, LstLine, Width
<1>2. layout[s[1]] \in Addr \ {0}
  BY SourceTypes, LayoutAssumption DEF LayoutAssumption
<1>3. Width(s) > 0 /\ Extent(layout, s) \subseteq Addr
  BY LayoutAssumption DEF LayoutAssumption
<1>4. At(layout, s) \in Extent(layout, s) /\ At(layout, s) > 0
  BY <1>1, <1>2, <1>3, Sizes DEF At, Extent, Addr
<1>5. \A r \in Sources : IsCode(r) /\ r # s =>
        Extent(layout, r) \cap Extent(layout, s) = {}
  BY LayoutAssumption DEF LayoutAssumption
<1> QED BY <1>1, <1>3, <1>4, <1>5 DEF Extent

LEMMA LoadedTypes ==
  ASSUME NEW layout \in Layouts
  PROVE  /\ LoadedMemory(layout) \in Memories
         /\ \A s \in Sources : IsCode(s) => \A i \in 1 .. Width(s) :
              LoadedMemory(layout)[At(layout, s) + i - 1] = Lst(s).bytes[i]
         /\ \A x \in Addr :
              (\A s \in Sources : IsCode(s) => x \notin Extent(layout, s)) =>
                LoadedMemory(layout)[x] = Zero
<1>1. ASSUME NEW x \in Memory, NEW s \in Sources, IsCode(s), x \in Extent(layout, s)
      PROVE  /\ LoadedMemory(layout)[x] = Lst(s).bytes[x - At(layout, s) + 1]
             /\ LoadedMemory(layout)[x] \in Bytes
  <2> DEFINE P(q) == IsCode(q) /\ x \in Extent(layout, q)
             r == CHOOSE q \in Sources : P(q)
  <2>1. \E q \in Sources : P(q)
    BY <1>1
  <2>2. r \in Sources /\ P(r)
    BY <2>1, Zenon
  <2>3. r = s
    BY <1>1, <2>2, SourcesApart
  <2>4. LoadedMemory(layout)[x] = Lst(s).bytes[x - At(layout, s) + 1]
    BY <2>1, <2>3 DEF LoadedMemory
  <2>5. Lst(s).bytes \in Seq(Bytes) /\ Width(s) = Len(Lst(s).bytes)
    BY SourceTypes DEF LstLine, Width
  <2>6. x - At(layout, s) + 1 \in 1 .. Width(s)
    <3>1. /\ Extent(layout, s) = At(layout, s) .. At(layout, s) + Width(s) - 1
          /\ At(layout, s) \in Addr /\ Width(s) \in Nat
      BY <1>1, SourcesApart
    <3> QED BY <1>1, <3>1, Sizes DEF Addr
  <2> QED BY <2>4, <2>5, <2>6
<1>2. ASSUME NEW x \in Memory,
             \A s \in Sources : IsCode(s) => x \notin Extent(layout, s)
      PROVE  LoadedMemory(layout)[x] = Zero
  BY <1>2 DEF LoadedMemory
<1>3. LoadedMemory(layout) \in Memories
  <2>1. \A x \in Memory : LoadedMemory(layout)[x] \in Bytes
    BY <1>1, <1>2, DebuggerAssumption DEF DebuggerAssumption
  <2>2. LoadedMemory(layout) = [x \in Memory |-> LoadedMemory(layout)[x]]
    BY DEF LoadedMemory
  <2> QED BY <2>1, <2>2 DEF Memories
<1>4. ASSUME NEW s \in Sources, IsCode(s), NEW i \in 1 .. Width(s)
      PROVE  LoadedMemory(layout)[At(layout, s) + i - 1] = Lst(s).bytes[i]
  <2> DEFINE x == At(layout, s) + i - 1
  <2>1. x \in Extent(layout, s) /\ x \in Memory /\ x - At(layout, s) + 1 = i
    <3>1. /\ Extent(layout, s) = At(layout, s) .. At(layout, s) + Width(s) - 1
          /\ At(layout, s) \in Addr /\ Width(s) \in Nat /\ Extent(layout, s) \subseteq Addr
      BY <1>4, SourcesApart
    <3>2. x \in Extent(layout, s) /\ x - At(layout, s) + 1 = i
      BY <1>4, <3>1, Sizes DEF Addr
    <3> QED BY <3>1, <3>2, Sizes
  <2> HIDE DEF x
  <2>2. LoadedMemory(layout)[x] = Lst(s).bytes[x - At(layout, s) + 1]
    BY <1>1, <1>4, <2>1
  <2> QED BY <2>1, <2>2 DEF x
<1> QED BY <1>2, <1>3, <1>4, Sizes

(* The three kinds of lines that initDebugAreaLines makes.                 *)
Begins(layout, s, a) == IsCode(s) /\ At(layout, s) = a
Covers(layout, s, a) ==
  IsCode(s) /\ a \in Extent(layout, s)
  /\ \A v \in Warriors : v > s[1] => layout[v] # a + 1

LEMMA LinesCases ==
  ASSUME NEW layout \in Layouts, NEW a \in Addr
  PROVE  LET l == LinesOf(layout)[a]
         IN /\ \A s \in Sources : Begins(layout, s, a) => l = SourceLine(s)
            /\ (\A s \in Sources : ~Begins(layout, s, a)) =>
                 /\ (\E s \in Sources : Covers(layout, s, a)) => l = Hidden
                 /\ (\A s \in Sources : ~Covers(layout, s, a)) => l = Fill
<1> DEFINE l == LinesOf(layout)[a]
<1>1. ASSUME NEW s \in Sources, Begins(layout, s, a)
      PROVE  l = SourceLine(s)
  <2> DEFINE P(q) == IsCode(q) /\ At(layout, q) = a
             r == CHOOSE q \in Sources : P(q)
  <2>1. \E q \in Sources : P(q)
    BY <1>1 DEF Begins
  <2>2. r \in Sources /\ P(r)
    BY <2>1, Zenon
  <2>3. r = s
    <3>1. a \in Extent(layout, s) /\ a \in Extent(layout, r)
      BY <1>1, <2>2, SourcesApart DEF Begins
    <3> QED BY <1>1, <2>2, <3>1, SourcesApart DEF Begins
  <2> QED BY <2>1, <2>3 DEF LinesOf
<1>2. ASSUME \A s \in Sources : ~Begins(layout, s, a)
      PROVE  /\ (\E s \in Sources : Covers(layout, s, a)) => l = Hidden
             /\ (\A s \in Sources : ~Covers(layout, s, a)) => l = Fill
  <2>1. ~\E s \in Sources : IsCode(s) /\ At(layout, s) = a
    BY <1>2 DEF Begins
  <2>2. l = IF \E s \in Sources : /\ IsCode(s) /\ a \in Extent(layout, s)
                                  /\ \A v \in Warriors : v > s[1] => layout[v] # a + 1
            THEN Hidden ELSE Fill
    BY <2>1 DEF LinesOf
  <2> QED BY <2>2 DEF Covers
<1> QED BY <1>1, <1>2

LEMMA SourceLineTypes ==
  ASSUME NEW s \in Sources
  PROVE  /\ SourceLine(s) \in Lines /\ SourceLine(s) # Hidden
         /\ SourceLine(s).kind = "source" /\ SourceLine(s).source = s
         /\ SourceLine(s).bytes = Lst(s).bytes
BY SourceTypes DEF SourceLine, Lines, Line, LstLine, Hidden

LEMMA LinesOfOk ==
  ASSUME NEW layout \in Layouts
  PROVE  TableInv(layout, LinesOf(layout), LoadedMemory(layout))
<1> DEFINE t == LinesOf(layout)
           m == LoadedMemory(layout)
<1>0. Addr = 0 .. ArenaSize - 1 /\ ArenaSize \in Nat
  BY Sizes DEF Addr
<1>1. t \in Tables
  <2>1. \A a \in Addr : t[a] \in Lines
    BY LinesCases, SourceLineTypes, SomeLines
  <2>2. t = [a \in Addr |-> t[a]]
    BY DEF LinesOf
  <2> QED BY <2>1, <2>2 DEF Tables
<1>2. t[0] = Fill
  <2>1. \A s \in Sources : ~Begins(layout, s, 0) /\ ~Covers(layout, s, 0)
    <3>1. ASSUME NEW s \in Sources, IsCode(s)
          PROVE  At(layout, s) # 0 /\ 0 \notin Extent(layout, s)
      <4>1. /\ At(layout, s) \in Addr /\ At(layout, s) > 0 /\ Width(s) \in Nat
            /\ Extent(layout, s) = At(layout, s) .. At(layout, s) + Width(s) - 1
        BY <3>1, SourcesApart
      <4> QED BY <1>0, <4>1
    <3> QED BY <3>1 DEF Begins, Covers
  <2> QED BY <2>1, LinesCases, Sizes
<1> HIDE DEF t, m
<1>3. ASSUME NEW a \in Addr, t[a] # Hidden, ~Clipped(layout, t[a], a)
      PROVE  LineOk(t, m, a)
  <2>1. ASSUME NEW s \in Sources, Begins(layout, s, a)
        PROVE  LineOk(t, m, a)
    <3>1. /\ IsCode(s) /\ At(layout, s) = a /\ Width(s) \in Nat
          /\ Extent(layout, s) = a .. a + Width(s) - 1 /\ Extent(layout, s) \subseteq Addr
      BY <2>1, SourcesApart DEF Begins
    <3>2. t[a] = SourceLine(s)
      BY <2>1, LinesCases DEF t
    <3>3. Len(t[a].bytes) = Width(s) /\ t[a].bytes = Lst(s).bytes /\ t[a].source = s
      BY <3>2, SourceLineTypes DEF Width
    <3>4. ASSUME NEW i \in 1 .. Width(s)
          PROVE  a + i - 1 \in Addr /\ a + i - 1 \in Extent(layout, s)
                 /\ m[a + i - 1] = Lst(s).bytes[i]
      BY <1>0, <3>1, LoadedTypes DEF m
    <3>5. ASSUME NEW i \in 1 .. Width(s), i > 1
          PROVE  t[a + i - 1] = Hidden
      <4> DEFINE x == a + i - 1
      <4>1. x \in Addr /\ x \in Extent(layout, s) /\ x # a /\ x \in Int
        BY <1>0, <3>4, <3>5
      <4> HIDE DEF x
      <4>2. \A r \in Sources : ~Begins(layout, r, x)
        <5>1. ASSUME NEW r \in Sources, Begins(layout, r, x)
              PROVE  FALSE
          <6>1. IsCode(r) /\ x \in Extent(layout, r) /\ At(layout, r) = x
            BY <5>1, SourcesApart DEF Begins
          <6>2. r = s
            BY <3>1, <4>1, <6>1, SourcesApart
          <6> QED BY <3>1, <4>1, <6>1, <6>2
        <5> QED BY <5>1
      <4>3. Covers(layout, s, x)
        <5>1. ASSUME NEW v \in Warriors, v > s[1], layout[v] = x + 1
              PROVE  FALSE
          <6>1. layout[v] - 1 = x
            BY <4>1, <5>1
          <6>2. ClippedSource(layout, s)
            BY <3>1, <4>1, <5>1, <6>1 DEF ClippedSource
          <6> QED BY <1>3, <3>3, <6>2 DEF Clipped
        <5> QED BY <3>1, <4>1, <5>1 DEF Covers
      <4> QED BY <4>1, <4>2, <4>3, LinesCases DEF t, x
    <3> QED BY <3>3, <3>4, <3>5 DEF LineOk
  <2>2. ASSUME \A s \in Sources : ~Begins(layout, s, a)
        PROVE  LineOk(t, m, a)
    <3>1. t[a] = Fill
      BY <1>3, <2>2, LinesCases DEF t
    <3>2. ASSUME NEW s \in Sources, IsCode(s), a \in Extent(layout, s)
          PROVE  FALSE
      <4>1. ~Covers(layout, s, a)
        BY <1>3, <2>2, LinesCases DEF t
      <4>2. PICK v \in Warriors : v > s[1] /\ layout[v] = a + 1
        BY <3>2, <4>1 DEF Covers
      <4>3. layout[v] - 1 = a /\ a # At(layout, s)
        BY <1>0, <2>2, <3>2, <4>2 DEF Begins
      <4>4. ClippedSource(layout, s) /\ t[a].kind = "fill"
        BY <3>1, <3>2, <4>2, <4>3 DEF ClippedSource, Fill
      <4> QED BY <1>3, <3>2, <4>4 DEF Clipped
    <3>3. m[a] = Zero
      BY <3>2, LoadedTypes DEF m
    <3>4. t[a].bytes = <<Zero>>
      BY <3>1 DEF Fill
    <3>5. Len(t[a].bytes) = 1 /\ t[a].bytes[1] = Zero
      BY <3>4
    <3> QED BY <1>0, <3>3, <3>5 DEF LineOk
  <2> QED BY <2>1, <2>2
<1>4. TableOk(layout, t, m)
  BY <1>3 DEF TableOk
<1>5. InPlace(layout, t)
  <2>1. ASSUME NEW a \in Addr, t[a].kind = "source"
        PROVE  IsCode(t[a].source) /\ At(layout, t[a].source) = a
    <3>1. Hidden.kind = "hidden" /\ Fill.kind = "fill"
      BY DEF Hidden, Fill
    <3>2. PICK s \in Sources : Begins(layout, s, a)
      BY <2>1, <3>1, LinesCases DEF t
    <3>3. t[a].source = s
      BY <3>2, LinesCases, SourceLineTypes DEF t
    <3> QED BY <3>2, <3>3 DEF Begins
  <2> QED BY <2>1 DEF InPlace
<1> QED BY <1>1, <1>2, <1>4, <1>5, SomeLines DEF TableInv, t, m

LEMMA BreakpointsOfOk ==
  ASSUME NEW layout \in Layouts, breakpoints \subseteq Sources
  PROVE  /\ BreakpointsOf(layout) \in [Addr -> Sources \cup {NoBreakpoint, Transient}]
         /\ Agree(LinesOf(layout), BreakpointsOf(layout), breakpoints)
<1> DEFINE view == BreakpointsOf(layout)
           P(q, a) == IsCode(q) /\ At(layout, q) = a
<1>1. ASSUME NEW a \in Addr
      PROVE  view[a] = IF \E q \in breakpoints : P(q, a)
                       THEN CHOOSE q \in breakpoints : P(q, a) ELSE NoBreakpoint
  BY DEF BreakpointsOf
<1>2. ASSUME NEW a \in Addr, NEW q \in breakpoints, P(q, a)
      PROVE  view[a] = q
  <2>1. PICK r \in breakpoints : view[a] = r /\ P(r, a)
    <3>1. \E s \in breakpoints : P(s, a)
      BY <1>2
    <3>2. /\ (CHOOSE s \in breakpoints : P(s, a)) \in breakpoints
          /\ P(CHOOSE s \in breakpoints : P(s, a), a)
      BY <3>1, Zenon
    <3> HIDE DEF P, view
    <3> QED BY <1>1, <3>1, <3>2
  <2>2. q \in Sources /\ r \in Sources
    BY <1>2, <2>1
  <2>3. a \in Extent(layout, r) /\ a \in Extent(layout, q)
    BY <1>2, <2>1, <2>2, SourcesApart
  <2> QED BY <1>2, <2>1, <2>2, <2>3, SourcesApart
<1>3. ASSUME NEW a \in Addr, \A q \in breakpoints : ~P(q, a)
      PROVE  view[a] = NoBreakpoint
  BY <1>1, <1>3
<1>4. view = [a \in Addr |-> view[a]]
  BY DEF BreakpointsOf
<1> HIDE DEF view
<1>5. view \in [Addr -> Sources \cup {NoBreakpoint, Transient}]
  <2>1. \A a \in Addr : view[a] \in breakpoints \/ view[a] = NoBreakpoint
    BY <1>2, <1>3
  <2> QED BY <1>4, <2>1
<1>6. ASSUME NEW a \in Addr, LinesOf(layout)[a].kind = "source"
      PROVE  view[a] = IF LinesOf(layout)[a].source \in breakpoints
                       THEN LinesOf(layout)[a].source ELSE NoBreakpoint
  <2> DEFINE s == LinesOf(layout)[a].source
  <2>1. s \in Sources /\ P(s, a)
    <3>1. InPlace(layout, LinesOf(layout)) /\ LinesOf(layout) \in Tables
      BY LinesOfOk DEF TableInv
    <3>2. LinesOf(layout)[a] \in Lines /\ P(s, a)
      BY <1>6, <3>1 DEF Tables, InPlace
    <3> QED BY <1>6, <3>2 DEF Lines, Line
  <2>2. CASE s \in breakpoints
    BY <1>2, <2>1, <2>2
  <2>3. CASE s \notin breakpoints
    <3>1. ASSUME NEW q \in breakpoints, P(q, a) PROVE FALSE
      <4>1. a \in Extent(layout, q) /\ a \in Extent(layout, s) /\ q \in Sources
        BY <2>1, <3>1, SourcesApart
      <4>2. q = s
        BY <2>1, <3>1, <4>1, SourcesApart
      <4> QED BY <2>3, <4>2
    <3> QED BY <1>3, <2>3, <3>1
  <2> QED BY <2>2, <2>3
<1> QED BY <1>5, <1>6 DEF Agree, view

-----------------------------------------------------------------------------
(***************************************************************************)
(* The steps of a session.                                                 *)
(***************************************************************************)
LastTypes ==
  /\ lastDbgAddr \in Addr \cup {Nowhere} /\ lastIsAlive \in BOOLEAN
  /\ lastDbgAddrEnd \in 1 .. ArenaSize \cup {Nowhere}
  /\ crashed \in BOOLEAN

Shown(t, here) == here # Nowhere => here \in Addr /\ t[here] # Hidden

LEMMA UpdateOk ==
  ASSUME NEW layout, NEW t, NEW m \in Memories, TableInv(layout, t, m),
         NEW a \in Addr \cup {Nowhere}, NEW living \in BOOLEAN,
         NEW lastAddr \in Addr \cup {Nowhere}, NEW here, Shown(t, here), LastTypes,
         UpdateDebugLine(t, m, a, living, lastAddr, here)
  PROVE  /\ TableInv(layout, dbglines', m) /\ SourcesKept(t, dbglines')
         /\ Shown(dbglines', placed') /\ LastTypes'
<1>1. CASE /\ dbglines' = t /\ lastDbgAddr' = lastAddr /\ placed' = here
           /\ crashed' \in BOOLEAN /\ UNCHANGED <<lastDbgAddrEnd, lastIsAlive>>
  BY <1>1 DEF SourcesKept, LastTypes
<1>2. CASE /\ a # Nowhere /\ ~ReachRunsOff(t, m, a)
           /\ dbglines' = Reached(t, m, a)
           /\ lastDbgAddr' = a /\ lastDbgAddrEnd' = a + 1
           /\ placed' = a /\ lastIsAlive' = living
           /\ UNCHANGED crashed
  <2>1. a \in Addr /\ a + 1 \in 1 .. ArenaSize
    BY <1>2, Sizes DEF Addr
  <2>2. TableInv(layout, dbglines', m) /\ SourcesKept(t, dbglines') /\ dbglines'[a] # Hidden
    BY <1>2, <2>1, ReachedOk
  <2> QED BY <1>2, <2>1, <2>2 DEF Shown, LastTypes
<1> QED BY <1>1, <1>2 DEF UpdateDebugLine, LastTypes

LEMMA AgreeKept ==
  ASSUME NEW t, NEW u, NEW view, NEW sources, SourcesKept(t, u), Agree(t, view, sources)
  PROVE  Agree(u, view, sources)
BY DEF SourcesKept, Agree

LEMMA InitInv == Init => Inv
<1> SUFFICES ASSUME Init PROVE Inv
  OBVIOUS
<1>1. dbglines \in Tables /\ mem \in Memories /\ dbglines = [a \in Addr |-> Fill]
  BY SomeLines, DebuggerAssumption DEF Init, Tables, Memories, DebuggerAssumption
<1>2. dbglines \in [Addr -> Line] /\ \A a \in Addr :
        /\ dbglines[a].kind = "hidden" => dbglines[a] = Hidden
        /\ dbglines[a].kind = "source" <=> dbglines[a].source # <<>>
  BY <1>1 DEF Tables, Lines
<1>3. TypeOK
  BY <1>1, <1>2, DebuggerAssumption, Sizes
     DEF Init, TypeOK, Memories, DebuggerAssumption, NoBreakpoint
<1> QED BY <1>3 DEF Inv, Init

(* What of the types the table does not see to.                            *)
Rest ==
  /\ debugging \in BOOLEAN /\ mem \in Memories /\ offset \in Layouts
  /\ dbglines \in Tables
  /\ dbgBreakpoints \in [Addr -> Sources \cup {NoBreakpoint, Transient}]
  /\ breakpoints \in SUBSET Sources
  /\ ip \in Addr \cup {Nowhere} /\ alive \in BOOLEAN
  /\ LastTypes /\ placed \in Addr \cup {Nowhere}
  /\ sessions \in 0 .. MaxSessions /\ steps \in 0 .. MaxSteps

LEMMA TypesAreRest == (TypeOK <=> Rest) /\ (TypeOK' <=> Rest')
BY DEF TypeOK, Rest, LastTypes, Tables, Lines, Memories

LEMMA StartDebugInv ==
  ASSUME Inv, NEW layout \in Layouts, StartDebug(layout)
  PROVE  Inv'
<1>0. Rest
  BY TypesAreRest DEF Inv
<1>1. TableInv(layout, LinesOf(layout), LoadedMemory(layout))
  BY LinesOfOk
<1>2. LoadedMemory(layout) \in Memories
  BY LoadedTypes
<1>3. /\ BreakpointsOf(layout) \in [Addr -> Sources \cup {NoBreakpoint, Transient}]
      /\ Agree(LinesOf(layout), BreakpointsOf(layout), breakpoints)
  BY <1>0, BreakpointsOfOk DEF Rest
<1>4. \A w \in Warriors : layout[w] \in Addr
  BY LayoutAssumption DEF LayoutAssumption
<1>5. sessions' \in 0 .. MaxSessions
  BY <1>0, DebuggerAssumption DEF StartDebug, Rest, DebuggerAssumption
<1>6. Rest'
  BY <1>0, <1>1, <1>2, <1>3, <1>4, <1>5
     DEF StartDebug, Rest, TableInv, LastTypes, last
<1>7. TypeOK'
  BY <1>6, TypesAreRest
<1> QED BY <1>1, <1>3, <1>7 DEF Inv, StartDebug

LEMMA WriteInv ==
  ASSUME Inv, NEW a \in Memory, NEW b \in Bytes, Write(a, b)
  PROVE  Inv'
<1> DEFINE t == Patched(dbglines, mem', a)
<1>0. /\ Rest /\ debugging /\ TableInv(offset, dbglines, mem)
      /\ Agree(dbglines, dbgBreakpoints, breakpoints)
      /\ placed # Nowhere => dbglines[placed] # Hidden
  BY TypesAreRest DEF Inv, Write
<1>1. /\ mem' \in Memories /\ TableInv(offset, t, mem') /\ SourcesKept(dbglines, t)
      /\ \A x \in Addr : dbglines[x] # Hidden => t[x] # Hidden
  <2>1. mem' = [mem EXCEPT ![a] = b] /\ mem \in Memories
    BY <1>0 DEF Write, Rest
  <2> QED BY <1>0, <2>1, PatchedOk
<1> HIDE DEF t
<1>2. Shown(t, placed)
  BY <1>0, <1>1 DEF Shown, Rest
<1>3. /\ TableInv(offset, dbglines', mem') /\ SourcesKept(t, dbglines')
      /\ Shown(dbglines', placed') /\ LastTypes'
  <2>1. CASE UnderDebugger(a)
    <3>1. UpdateDebugLine(t, mem', ip, alive, Nowhere, placed)
      BY <2>1 DEF Write, t
    <3>2. /\ ip \in Addr \cup {Nowhere} /\ alive \in BOOLEAN /\ LastTypes
          /\ Nowhere \in Addr \cup {Nowhere}
      BY <1>0 DEF Rest
    <3> QED BY <1>1, <1>2, <3>1, <3>2, UpdateOk
  <2>2. CASE ~UnderDebugger(a)
    <3>1. dbglines' = t /\ UNCHANGED <<last, crashed, placed>>
      BY <2>2 DEF Write, t
    <3> QED BY <1>0, <1>1, <1>2, <3>1 DEF SourcesKept, LastTypes, Rest, last
  <2> QED BY <2>1, <2>2
<1>4. /\ steps' \in 0 .. MaxSteps
      /\ UNCHANGED <<debugging, offset, dbgBreakpoints, breakpoints, selected, sessions>>
  BY <1>0, DebuggerAssumption DEF Write, Rest, DebuggerAssumption
<1>5. Agree(dbglines', dbgBreakpoints', breakpoints')
  BY <1>0, <1>1, <1>3, <1>4, AgreeKept
<1>6. Rest'
  BY <1>0, <1>1, <1>3, <1>4 DEF Rest, TableInv, Shown, selected
<1>7. TypeOK'
  BY <1>6, TypesAreRest
<1> QED BY <1>3, <1>4, <1>5, <1>7 DEF Inv, Shown

(* Moving the line, at the end of a round or to another warrior.           *)
LEMMA MoveInv ==
  ASSUME Inv, debugging, ip' \in Addr \cup {Nowhere}, alive' \in BOOLEAN,
         UpdateDebugLine(dbglines, mem, ip', alive', lastDbgAddr, placed),
         steps' \in 0 .. MaxSteps,
         UNCHANGED <<debugging, mem, offset, dbgBreakpoints, breakpoints, sessions>>
  PROVE  Inv'
<1>0. /\ Rest /\ TableInv(offset, dbglines, mem)
      /\ Agree(dbglines, dbgBreakpoints, breakpoints)
      /\ placed # Nowhere => dbglines[placed] # Hidden
  BY TypesAreRest DEF Inv
<1>1. /\ mem \in Memories /\ lastDbgAddr \in Addr \cup {Nowhere} /\ LastTypes
      /\ Shown(dbglines, placed)
  BY <1>0 DEF Rest, LastTypes, Shown
<1>2. /\ TableInv(offset, dbglines', mem) /\ SourcesKept(dbglines, dbglines')
      /\ Shown(dbglines', placed') /\ LastTypes'
  BY <1>0, <1>1, UpdateOk
<1>3. Agree(dbglines', dbgBreakpoints', breakpoints')
  BY <1>0, <1>2, AgreeKept
<1>4. Rest'
  BY <1>0, <1>2 DEF Rest, TableInv, Shown
<1>5. TypeOK'
  BY <1>4, TypesAreRest
<1> QED BY <1>2, <1>3, <1>5 DEF Inv, Shown

LEMMA ToggleInv ==
  ASSUME Inv, NEW a \in Addr, ToggleBreakpointDbg(a)
  PROVE  Inv'
<1> DEFINE s == dbglines[a].source
<1>0. /\ Rest /\ debugging /\ TableInv(offset, dbglines, mem)
      /\ Agree(dbglines, dbgBreakpoints, breakpoints)
      /\ placed # Nowhere => dbglines[placed] # Hidden
  BY TypesAreRest DEF Inv, ToggleBreakpointDbg
<1>1. /\ UNCHANGED <<debugging, mem, offset, dbglines, selected, last, crashed,
                     placed, sessions>>
      /\ steps' \in 0 .. MaxSteps
  BY <1>0, DebuggerAssumption DEF ToggleBreakpointDbg, Rest, DebuggerAssumption
<1>2. /\ s \in Sources \cup {<<>>}
      /\ \A x \in Addr : dbglines[x].kind = "source" <=> dbglines[x].source # <<>>
      /\ \A x \in Addr : dbglines[x].source \in Sources \cup {<<>>}
  BY <1>0 DEF Rest, Tables, Lines, Line
<1>3. \A x \in Addr : x # a /\ dbglines[x].kind = "source" => dbglines[x].source # s
  BY <1>0, <1>2 DEF TableInv, InPlace
<1>4. dbgBreakpoints \in [Addr -> Sources \cup {NoBreakpoint, Transient}]
      /\ breakpoints \subseteq Sources
  BY <1>0 DEF Rest
<1>5. \A r \in Sources : r # <<>> /\ r # NoBreakpoint
  BY SourceTypes DEF NoBreakpoint
<1>6. /\ dbgBreakpoints' \in [Addr -> Sources \cup {NoBreakpoint, Transient}]
      /\ breakpoints' \subseteq Sources
      /\ Agree(dbglines, dbgBreakpoints', breakpoints')
  <2>1. CASE ToggleOn(a)
    <3> DEFINE br == IF s = <<>> THEN Transient ELSE s
    <3>1. /\ dbgBreakpoints[a] = NoBreakpoint
          /\ dbgBreakpoints' = [dbgBreakpoints EXCEPT ![a] = br]
          /\ breakpoints' = IF s = <<>> THEN breakpoints ELSE breakpoints \cup {s}
      BY <2>1 DEF ToggleOn
    <3>2. br \in Sources \cup {Transient} /\ (s # <<>> => br = s)
      BY <1>2
    <3> HIDE DEF s, br
    <3>3. /\ dbgBreakpoints' \in [Addr -> Sources \cup {NoBreakpoint, Transient}]
          /\ dbgBreakpoints'[a] = br
          /\ \A x \in Addr : x # a => dbgBreakpoints'[x] = dbgBreakpoints[x]
      BY <1>4, <3>1, <3>2
    <3>4. breakpoints' \subseteq Sources
      BY <1>2, <1>4, <3>1
    <3>5. ASSUME NEW x \in Addr, dbglines[x].kind = "source"
          PROVE  dbgBreakpoints'[x] = IF dbglines[x].source \in breakpoints'
                                      THEN dbglines[x].source ELSE NoBreakpoint
      <4>1. CASE x = a
        BY <1>2, <3>1, <3>2, <3>3, <3>5, <4>1 DEF s
      <4>2. CASE x # a
        BY <1>0, <1>3, <3>1, <3>3, <3>5, <4>2 DEF Agree
      <4> QED BY <4>1, <4>2
    <3> QED BY <3>3, <3>4, <3>5 DEF Agree
  <2>2. CASE ToggleOff(a)
    <3>1. /\ dbgBreakpoints[a] # NoBreakpoint
          /\ dbgBreakpoints' = [dbgBreakpoints EXCEPT ![a] = NoBreakpoint]
          /\ breakpoints' = IF s = <<>> THEN breakpoints
                            ELSE breakpoints \ {dbgBreakpoints[a]}
      BY <2>2 DEF ToggleOff
    <3>2. s # <<>> => dbgBreakpoints[a] = s
      BY <1>0, <1>2, <3>1 DEF Agree
    <3>3. /\ dbgBreakpoints' \in [Addr -> Sources \cup {NoBreakpoint, Transient}]
          /\ dbgBreakpoints'[a] = NoBreakpoint
          /\ \A x \in Addr : x # a => dbgBreakpoints'[x] = dbgBreakpoints[x]
      BY <1>4, <3>1
    <3>4. breakpoints' \subseteq Sources
      BY <1>4, <3>1
    <3>5. ASSUME NEW x \in Addr, dbglines[x].kind = "source"
          PROVE  dbgBreakpoints'[x] = IF dbglines[x].source \in breakpoints'
                                      THEN dbglines[x].source ELSE NoBreakpoint
      <4>1. CASE x = a
        BY <1>2, <3>1, <3>2, <3>3, <3>5, <4>1
      <4>2. CASE x # a
        <5>1. dbglines[x].source # s
          BY <1>3, <3>5, <4>2
        <5>2. dbglines[x].source \in breakpoints' <=> dbglines[x].source \in breakpoints
          BY <3>1, <3>2, <5>1
        <5> QED BY <1>0, <3>3, <3>5, <4>2, <5>2 DEF Agree
      <4> QED BY <4>1, <4>2
    <3> QED BY <3>3, <3>4, <3>5 DEF Agree
  <2> QED BY <2>1, <2>2 DEF ToggleBreakpointDbg
<1>7. Rest'
  BY <1>0, <1>1, <1>6 DEF Rest, LastTypes, last, selected
<1>8. TypeOK'
  BY <1>7, TypesAreRest
<1> QED BY <1>0, <1>1, <1>6, <1>8 DEF Inv

LEMMA InvNext == Inv /\ [Next]_vars => Inv'
<1> SUFFICES ASSUME Inv, [Next]_vars PROVE Inv'
  OBVIOUS
<1>0. Rest
  BY TypesAreRest DEF Inv
<1>1. ASSUME NEW layout \in Layouts, StartDebug(layout)
      PROVE  Inv'
  BY <1>1, StartDebugInv
<1>2. CASE StopDebug
  <2>1. /\ ~debugging' /\ debugging' \in BOOLEAN
        /\ UNCHANGED <<mem, offset, dbglines, dbgBreakpoints, breakpoints, ip, alive,
                       lastDbgAddr, lastDbgAddrEnd, lastIsAlive, crashed, placed,
                       sessions, steps>>
    BY <1>2 DEF StopDebug, selected, last, counters
  <2>2. Rest'
    BY <1>0, <2>1 DEF Rest, LastTypes
  <2> QED BY <2>1, <2>2, TypesAreRest DEF Inv
<1>3. ASSUME NEW a \in Memory, NEW b \in Bytes, Write(a, b)
      PROVE  Inv'
  BY <1>3, WriteInv
<1>4. ASSUME NEW a \in Addr, Advance(a)
      PROVE  Inv'
  <2>1. /\ ip' \in Addr \cup {Nowhere} /\ alive' \in BOOLEAN /\ steps' \in 0 .. MaxSteps
        /\ UNCHANGED <<debugging, mem, offset, dbglines, dbgBreakpoints, breakpoints,
                       last, crashed, placed, sessions>>
    <3>1. ip' \in Addr \cup {Nowhere}
      BY <1>0, <1>4 DEF Advance, Rest
    <3>2. alive' \in BOOLEAN
      BY <1>4 DEF Advance
    <3>3. steps' \in 0 .. MaxSteps
      BY <1>0, <1>4, DebuggerAssumption DEF Advance, Rest, DebuggerAssumption
    <3> QED BY <1>4, <3>1, <3>2, <3>3 DEF Advance
  <2>2. Rest'
    BY <1>0, <2>1 DEF Rest, LastTypes, last
  <2> QED BY <2>1, <2>2, TypesAreRest DEF Inv
<1>5. CASE EndRound
  BY <1>0, <1>5, MoveInv DEF EndRound, Rest, selected, counters
<1>6. ASSUME NEW a \in Addr \cup {Nowhere}, NEW living \in BOOLEAN, Select(a, living)
      PROVE  Inv'
  <2>1. steps' \in 0 .. MaxSteps
    BY <1>0, <1>6, DebuggerAssumption DEF Select, Rest, DebuggerAssumption
  <2> QED BY <1>6, <2>1, MoveInv DEF Select
<1>7. ASSUME NEW a \in Addr, ToggleBreakpointDbg(a)
      PROVE  Inv'
  BY <1>7, ToggleInv
<1>8. ASSUME NEW s \in Sources, ToggleBreakpointEdit(s)
      PROVE  Inv'
  <2>1. /\ breakpoints' \subseteq Sources /\ steps' \in 0 .. MaxSteps /\ ~debugging'
        /\ UNCHANGED <<debugging, mem, offset, dbglines, dbgBreakpoints, selected,
                       last, crashed, placed, sessions>>
    BY <1>0, <1>8, DebuggerAssumption DEF ToggleBreakpointEdit, Rest, DebuggerAssumption
  <2>2. Rest'
    BY <1>0, <2>1 DEF Rest, LastTypes, last, selected
  <2> QED BY <2>1, <2>2, TypesAreRest DEF Inv
<1>9. CASE UNCHANGED vars
  <2>1. Rest'
    BY <1>0, <1>9 DEF Rest, LastTypes, vars, last, selected, counters
  <2> QED BY <1>9, <2>1, TypesAreRest DEF Inv, vars
<1> QED BY <1>1, <1>2, <1>3, <1>4, <1>5, <1>6, <1>7, <1>8, <1>9 DEF Next

LEMMA Invariance == Spec => []Inv
BY InitInv, InvNext, PTL DEF Spec

-----------------------------------------------------------------------------
(* The variables keep their types, and null lines are the only hidden ones.*)
THEOREM TypeCorrect == Spec => []TypeOK
<1>1. Inv => TypeOK
  BY DEF Inv
<1> QED BY <1>1, Invariance, PTL

(* Whatever a warrior writes and however opcodes are laid over others by   *)
(* updateDebugLine, a line shows the bytes that are in memory.             *)
THEOREM LinesAreTrue == Spec => []LinesTrue
<1>1. Inv => LinesTrue
  BY DEF Inv, LinesTrue, TableInv, TableOk, LineOk
<1> QED BY <1>1, Invariance, PTL

(* No byte is on two lines: what eraseOpcode leaves of an opcode that is   *)
(* overwritten is shown on lines of its own.                               *)
THEOREM LinesAreApart == Spec => []LinesApart
<1>1. ASSUME Inv, debugging, NEW a \in Addr, dbglines[a] # Hidden,
             ~Clipped(offset, dbglines[a], a),
             NEW i \in 1 .. Len(dbglines[a].bytes) - 1
      PROVE  dbglines[a + i] = Hidden
  <2>1. LineOk(dbglines, mem, a)
    BY <1>1 DEF Inv, TableInv, TableOk
  <2>2. Len(dbglines[a].bytes) \in Nat /\ a \in Int
    BY <1>1, Sizes DEF Inv, TypeOK, Line, Addr
  <2>3. i + 1 \in 1 .. Len(dbglines[a].bytes) /\ i + 1 > 1 /\ a + (i + 1) - 1 = a + i
    BY <2>2
  <2> QED BY <2>1, <2>3 DEF LineOk
<1>2. Inv => LinesApart
  BY <1>1 DEF LinesApart
<1> QED BY <1>2, Invariance, PTL

(* The line that updateDebugLine marked stays on view.                     *)
THEOREM DebugLineStaysShown == Spec => []DebugLineShown
<1>1. Inv => DebugLineShown
  BY DEF Inv, DebugLineShown
<1> QED BY <1>1, Invariance, PTL

(* toggleBreakpointDbg keeps the breakpoints of a Code and those of the    *)
(* view of its lines the same, over any number of sessions.                *)
THEOREM BreakpointsStayAgreed == Spec => []BreakpointsAgree
<1>1. Inv => BreakpointsAgree
  BY DEF Inv, BreakpointsAgree, Agree
<1> QED BY <1>1, Invariance, PTL

=============================================================================
