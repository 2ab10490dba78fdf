------------------------------ MODULE Debugger ------------------------------
(***************************************************************************)
(* The debugger's view of the arena: m_dbglines holds, for every address,  *)
(* the line to show there, or null where the address is inside the opcode  *)
(* of a line above.  The table starts out from the listings of the loaded  *)
(* programs, is patched at every write of a warrior, and is disassembled   *)
(* afresh where the pc of the selected warrior gets to.  Breakpoints of    *)
(* the sources and of the view are kept side by side.                      *)
(*                                                                         *)
(* Text is left out: a line is the bytes it shows.  So is painting: the    *)
(* pages of the panel, their scrolling and their dirty marks.              *)
(***************************************************************************)
EXTENDS Integers, Sequences

CONSTANTS
  ArenaSize, MemorySize,
  Bytes, Zero,    (* values of bytes, and the one that fills the arena     *)
  Size,           (* length of the opcode that four bytes begin, 0 if none *)
  Listing,        (* by warrior, its source lines in order                 *)
  Layouts,        (* load offsets of the warriors of a session             *)
  Nowhere,        (* no address: -1                                        *)
  MaxSessions,    (* bound: sessions that start                            *)
  MaxSteps        (* bound: what users and warriors do, in all             *)

Addr == 0 .. ArenaSize - 1
Memory == 0 .. MemorySize - 1
Warriors == DOMAIN Listing

(* A line of the listing has an address in the program, or none if it is a *)
(* comment; the bytes it stands for, and whether it defines data.          *)
LstLine == [address : Nat \cup {Nowhere}, bytes : Seq(Bytes), define : BOOLEAN]

Sources == UNION {{<<w, n>> : n \in DOMAIN Listing[w]} : w \in Warriors}
Lst(s) == Listing[s[1]][s[2]]
IsCode(s) == Lst(s).address # Nowhere
Width(s) == Len(Lst(s).bytes)

(* Where a source line is under a layout, and the addresses it takes.      *)
At(layout, s) == layout[s[1]] + Lst(s).address
Extent(layout, s) == At(layout, s) .. At(layout, s) + Width(s) - 1

ASSUME DebuggerAssumption ==
  /\ ArenaSize \in Nat \ {0} /\ MemorySize \in Nat
  /\ ArenaSize + 3 <= MemorySize
  /\ Zero \in Bytes
  /\ Size \in [Bytes \X Bytes \X Bytes \X Bytes -> {0, 2, 4}]
  /\ \A w \in Warriors : Listing[w] \in Seq(LstLine)
  /\ Nowhere = -1
  /\ MaxSessions \in Nat /\ MaxSteps \in Nat

(* What War sees to: the code of the warriors is in the arena, and apart.  *)
(* No program is at the very start: initDebugAreaLines wants a line before.*)
ASSUME LayoutAssumption ==
  /\ Layouts \subseteq [Warriors -> Addr \ {0}]
  /\ \A layout \in Layouts, s \in Sources : IsCode(s) =>
       /\ Width(s) > 0
       /\ Extent(layout, s) \subseteq Addr
       /\ \A r \in Sources : IsCode(r) /\ r # s =>
            Extent(layout, r) \cap Extent(layout, s) = {}

Hidden == [kind |-> "hidden", bytes |-> <<>>, source |-> <<>>]   (* null   *)
Fill == [kind |-> "fill", bytes |-> <<Zero>>, source |-> <<>>]
ByteLine(b) == [kind |-> "byte", bytes |-> <<b>>, source |-> <<>>]
OpLine(bs) == [kind |-> "op", bytes |-> bs, source |-> <<>>]
SourceLine(s) == [kind |-> "source", bytes |-> Lst(s).bytes, source |-> s]

NoBreakpoint == <<>>
Transient == <<0>>              (* a breakpoint without a source line: -1  *)

VARIABLES
  debugging,      (* a session is on: the view is shown, not the editor    *)
  mem,
  offset,         (* load offsets of this session                          *)
  dbglines,       (* m_dbglines                                            *)
  dbgBreakpoints, (* m_dbgBreakpoints                                      *)
  breakpoints,    (* source lines in the breakpoints of some Code          *)
  ip,             (* the selected warrior's, Nowhere if it does not fight  *)
  alive,          (* whether it lives                                      *)
  lastDbgAddr,    (* m_lastDbgAddr                                         *)
  lastDbgAddrEnd, (* m_lastDbgAddrEnd                                      *)
  lastIsAlive,    (* m_lastIsAlive                                         *)
  crashed,        (* a scan left the arena: the call failed                *)
  placed,         (* history: where the debug line was put in this         *)
                  (* session, Nowhere if it was not yet                    *)
  sessions, steps

counters == <<sessions, steps>>
selected == <<ip, alive>>
last == <<lastDbgAddr, lastDbgAddrEnd, lastIsAlive>>
vars == <<debugging, mem, offset, dbglines, dbgBreakpoints,
          breakpoints, selected, last, crashed, placed, counters>>

-----------------------------------------------------------------------------
(***************************************************************************)
(* Patching the table.  t is a table, m the memory.                        *)
(***************************************************************************)

(* Everything from a to b, inclusive, is hidden; so it is if there is      *)
(* nothing between them.                                                   *)
AllHidden(t, a, b) == \A x \in a .. b : t[x] = Hidden

(* A scan upwards from a for a line to stop at leaves the arena.           *)
RunsOff(t, a) == AllHidden(t, a, ArenaSize - 1)

(* eraseOpcode: the line goes, what it hid is shown byte by byte.          *)
Erased(t, m, a) ==
  [x \in Addr |-> IF x = a THEN Hidden
                  ELSE IF x > a /\ AllHidden(t, a + 1, x) THEN ByteLine(m[x])
                  ELSE t[x]]

(* The opcode of n bytes at a is put on a line; what was there is erased.  *)
OpcodeShown(t, m, a, n) ==
  [Erased(t, m, a) EXCEPT ![a] = OpLine([i \in 1 .. n |-> m[a + i - 1]])]

(* Mutant: of the bytes after the first, only the second is erased.        *)
Disassembled_Once(t, m, a, n) == Erased(OpcodeShown(t, m, a, n), m, a + 1)

(* disassembleAddress, when an opcode of n bytes is found at a: the line   *)
(* at a is erased, then those of the bytes after it, one after the other. *)
Disassembled(t, m, a, n) ==
  LET two == Erased(OpcodeShown(t, m, a, n), m, a + 1)
  IN IF n = 2 THEN two ELSE Erased(Erased(two, m, a + 2), m, a + 3)

DisassemblyRunsOff(t, m, a, n) ==
  LET one == OpcodeShown(t, m, a, n)
      two == Erased(one, m, a + 1)
  IN \/ RunsOff(t, a + 1)
     \/ RunsOff(one, a + 2)
     \/ n = 4 /\ (RunsOff(two, a + 3) \/ RunsOff(Erased(two, m, a + 2), a + 4))

OpcodeSize(m, a) == Size[<<m[a], m[a + 1], m[a + 2], m[a + 3]>>]

(* The first line at or before a that is shown: scans downwards end there. *)
IsStart(t, a, s) == s \in Addr /\ s <= a /\ t[s] # Hidden
                    /\ AllHidden(t, s + 1, a)
StartOf(t, a) == CHOOSE s \in Addr : IsStart(t, a, s)

(* Mutant: only the bytes before a are shown again.                        *)
BrokenUp_Before(t, m, a) ==
  [x \in Addr |-> IF x \in StartOf(t, a) .. a - 1 THEN ByteLine(m[x]) ELSE t[x]]

(* A hidden a: the opcode it is in is shown byte by byte, to its end.      *)
BrokenUp(t, m, a) ==
  LET s == StartOf(t, a)
  IN [x \in Addr |-> IF x >= s /\ AllHidden(t, s + 1, x) THEN ByteLine(m[x])
                     ELSE t[x]]

NotYetParsed(l) ==
  \/ l.kind = "byte"
  \/ l.kind = "source" /\ Lst(l.source).define

(* updateDebugLine, having found that the line has to change.              *)
Opened(t, m, a) == IF t[a] = Hidden THEN BrokenUp(t, m, a) ELSE t

Reached(t, m, a) ==
  LET u == Opened(t, m, a)
      n == OpcodeSize(m, a)
  IN IF n # 0 /\ NotYetParsed(u[a]) THEN Disassembled(u, m, a, n) ELSE u

ReachRunsOff(t, m, a) ==
  LET u == Opened(t, m, a)
      n == OpcodeSize(m, a)
  IN \/ t[a] = Hidden /\ RunsOff(t, a)
     \/ n # 0 /\ NotYetParsed(u[a]) /\ DisassemblyRunsOff(u, m, a, n)

(* updateDebugLine for the selected warrior at a, on the table t, when the *)
(* line was last moved to lastAddr, and in this session to here: nothing   *)
(* to do, a scan that runs off, or the line is moved.                      *)
UpdateDebugLine(t, m, a, living, lastAddr, here) ==
  \/ /\ a = Nowhere \/ (a = lastAddr /\ living = lastIsAlive)
     /\ dbglines' = t /\ lastDbgAddr' = lastAddr /\ placed' = here
     /\ UNCHANGED <<lastDbgAddrEnd, lastIsAlive, crashed>>
  \/ /\ a # Nowhere /\ (a # lastAddr \/ living # lastIsAlive)
     /\ IF ReachRunsOff(t, m, a)
        THEN /\ dbglines' = t /\ lastDbgAddr' = lastAddr /\ placed' = here
             /\ crashed' = TRUE
             /\ UNCHANGED <<lastDbgAddrEnd, lastIsAlive>>
        ELSE /\ dbglines' = Reached(t, m, a)
             /\ lastDbgAddr' = a /\ lastDbgAddrEnd' = a + 1
             /\ placed' = a /\ lastIsAlive' = living
             /\ UNCHANGED crashed

(* Mutant: the byte is shown in the opcode that it is written into.        *)
Patched_Inside(t, m, a) ==
  IF a \notin Addr \/ t[a] = Hidden THEN t ELSE [t EXCEPT ![a] = ByteLine(m[a])]

(* onMemoryWrite: over a fill line the byte is shown; otherwise the line   *)
(* of the opcode it is in becomes a byte, and the rest of it stays hidden. *)
Patched(t, m, a) ==
  IF a \notin Addr THEN t
  ELSE LET s == StartOf(t, a) IN [t EXCEPT ![s] = ByteLine(m[s])]

UnderDebugger(a) == a \in Addr /\ lastDbgAddr <= a /\ a < lastDbgAddrEnd

-----------------------------------------------------------------------------
(***************************************************************************)
(* A session.                                                              *)
(***************************************************************************)

(* initDebugAreaLines.  The byte before each program gets a line of its    *)
(* own for comments to hang on, also where it is the end of the code of a  *)
(* warrior before.                                                         *)
LinesOf(layout) ==
  [a \in Addr |->
     IF \E s \in Sources : IsCode(s) /\ At(layout, s) = a
     THEN SourceLine(CHOOSE s \in Sources : IsCode(s) /\ At(layout, s) = a)
     ELSE IF \E s \in Sources : /\ IsCode(s) /\ a \in Extent(layout, s)
                                /\ \A v \in Warriors : v > s[1] => layout[v] # a + 1
     THEN Hidden
     ELSE Fill]

BreakpointsOf(layout) ==
  [a \in Addr |->
     IF \E s \in breakpoints : IsCode(s) /\ At(layout, s) = a
     THEN CHOOSE s \in breakpoints : IsCode(s) /\ At(layout, s) = a
     ELSE NoBreakpoint]

LoadedMemory(layout) ==
  [x \in Memory |->
     IF \E s \in Sources : IsCode(s) /\ x \in Extent(layout, s)
     THEN LET s == CHOOSE s \in Sources : IsCode(s) /\ x \in Extent(layout, s)
          IN Lst(s).bytes[x - At(layout, s) + 1]
     ELSE Zero]

Init ==
  /\ debugging = FALSE /\ mem = [x \in Memory |-> Zero]
  /\ offset \in Layouts
  /\ dbglines = [a \in Addr |-> Fill]
  /\ dbgBreakpoints = [a \in Addr |-> NoBreakpoint]
  /\ breakpoints = {}
  /\ ip = Nowhere /\ alive = FALSE
  /\ lastDbgAddr = Nowhere /\ lastDbgAddrEnd = Nowhere /\ lastIsAlive = FALSE
  /\ crashed = FALSE /\ placed = Nowhere
  /\ sessions = 0 /\ steps = 0

(* The warriors are loaded, and the table is made.  The line is put to the *)
(* selected warrior, if that one takes part, when the page is ready: that  *)
(* is an EndRound.  m_lastDbgAddr stays what it was in the last session.   *)
StartDebug(layout) ==
  /\ ~debugging /\ ~crashed /\ sessions < MaxSessions
  /\ debugging' = TRUE
  /\ offset' = layout
  /\ mem' = LoadedMemory(layout)
  /\ dbglines' = LinesOf(layout)
  /\ dbgBreakpoints' = BreakpointsOf(layout)
  /\ ip' \in {layout[w] : w \in Warriors} \cup {Nowhere} /\ alive' = TRUE
  /\ placed' = Nowhere
  /\ sessions' = sessions + 1
  /\ UNCHANGED <<breakpoints, last, crashed, steps>>

StopDebug ==
  /\ debugging /\ ~crashed
  /\ debugging' = FALSE
  /\ UNCHANGED <<mem, offset, dbglines, dbgBreakpoints, breakpoints, selected,
                 last, crashed, placed, counters>>

(* Some warrior stores a byte.                                             *)
Write(a, b) ==
  /\ debugging /\ ~crashed /\ steps < MaxSteps
  /\ mem' = [mem EXCEPT ![a] = b]
  /\ IF UnderDebugger(a)
     THEN /\ UpdateDebugLine(Patched(dbglines, mem', a), mem', ip, alive, Nowhere, placed)
     ELSE /\ dbglines' = Patched(dbglines, mem', a)
          /\ UNCHANGED <<last, crashed, placed>>
  /\ steps' = steps + 1
  /\ UNCHANGED <<debugging, offset, dbgBreakpoints, breakpoints, selected,
                 sessions>>

(* The selected warrior's opcode is done: it moves, or dies where it is.   *)
Advance(a) ==
  /\ debugging /\ ~crashed /\ alive /\ ip # Nowhere /\ steps < MaxSteps
  /\ \/ ip' = a /\ alive' = TRUE
     \/ ip' = ip /\ alive' = FALSE
  /\ steps' = steps + 1
  /\ UNCHANGED <<debugging, mem, offset, dbglines, dbgBreakpoints, breakpoints,
                 last, crashed, placed, sessions>>

(* onEndRound.  With a speed above one it is not heard after every round,  *)
(* also not after the one that pauses the war.                             *)
EndRound ==
  /\ debugging /\ ~crashed
  /\ UpdateDebugLine(dbglines, mem, ip, alive, lastDbgAddr, placed)
  /\ UNCHANGED <<debugging, mem, offset, dbgBreakpoints, breakpoints, selected,
                 counters>>

(* playerSelectionChanged: another warrior, somewhere else.                *)
Select(a, living) ==
  /\ debugging /\ ~crashed /\ steps < MaxSteps
  /\ ip' = a /\ alive' = living
  /\ UpdateDebugLine(dbglines, mem, a, living, lastDbgAddr, placed)
  /\ steps' = steps + 1
  /\ UNCHANGED <<debugging, mem, offset, dbgBreakpoints, breakpoints, sessions>>

(* Two mutants: a transient breakpoint is kept with the sources; a source  *)
(* is not told that its breakpoint is off.                                 *)
ToggleOn_Kept(a) ==
  LET s == dbglines[a].source
      br == IF s = <<>> THEN Transient ELSE s
  IN /\ dbgBreakpoints[a] = NoBreakpoint
     /\ dbgBreakpoints' = [dbgBreakpoints EXCEPT ![a] = br]
     /\ breakpoints' = breakpoints \cup {br}

ToggleOff_Untold(a) ==
  /\ dbgBreakpoints[a] # NoBreakpoint
  /\ dbgBreakpoints' = [dbgBreakpoints EXCEPT ![a] = NoBreakpoint]
  /\ UNCHANGED breakpoints

(* toggleBreakpointDbg, a click on the address of a line that is shown.    *)
(* Only on the line of a source is the source told.                        *)
ToggleOn(a) ==
  LET s == dbglines[a].source
      br == IF s = <<>> THEN Transient ELSE s
  IN /\ dbgBreakpoints[a] = NoBreakpoint
     /\ dbgBreakpoints' = [dbgBreakpoints EXCEPT ![a] = br]
     /\ breakpoints' = IF s = <<>> THEN breakpoints ELSE breakpoints \cup {s}

ToggleOff(a) ==
  /\ dbgBreakpoints[a] # NoBreakpoint
  /\ dbgBreakpoints' = [dbgBreakpoints EXCEPT ![a] = NoBreakpoint]
  /\ breakpoints' = IF dbglines[a].source = <<>> THEN breakpoints
                    ELSE breakpoints \ {dbgBreakpoints[a]}

ToggleBreakpointDbg(a) ==
  /\ debugging /\ ~crashed /\ dbglines[a] # Hidden /\ steps < MaxSteps
  /\ ToggleOn(a) \/ ToggleOff(a)
  /\ steps' = steps + 1
  /\ UNCHANGED <<debugging, mem, offset, dbglines, selected, last, crashed,
                 placed, sessions>>

(* toggleBreakpointEdit, on a line number of the editor.                   *)
ToggleBreakpointEdit(s) ==
  /\ ~debugging /\ ~crashed /\ steps < MaxSteps
  /\ breakpoints' = IF s \in breakpoints THEN breakpoints \ {s}
                    ELSE breakpoints \cup {s}
  /\ steps' = steps + 1
  /\ UNCHANGED <<debugging, mem, offset, dbglines, dbgBreakpoints, selected,
                 last, crashed, placed, sessions>>

Next ==
  \/ \E layout \in Layouts : StartDebug(layout)
  \/ StopDebug
  \/ \E a \in Memory, b \in Bytes : Write(a, b)
  \/ \E a \in Addr : Advance(a)
  \/ EndRound
  \/ \E a \in Addr \cup {Nowhere}, living \in BOOLEAN : Select(a, living)
  \/ \E a \in Addr : ToggleBreakpointDbg(a)
  \/ \E s \in Sources : ToggleBreakpointEdit(s)

Spec == Init /\ [][Next]_vars

-----------------------------------------------------------------------------
(***************************************************************************)
(* Properties.                                                             *)
(***************************************************************************)

Line ==
  [kind : {"hidden", "fill", "byte", "op", "source"}, bytes : Seq(Bytes),
   source : Sources \cup {<<>>}]

(* Types, and what the parts of a line have to do with its kind.           *)
TypeOK ==
  /\ debugging \in BOOLEAN /\ crashed \in BOOLEAN
  /\ mem \in [Memory -> Bytes] /\ offset \in Layouts
  /\ dbglines \in [Addr -> Line]
  /\ \A a \in Addr :
       /\ dbglines[a].kind = "hidden" => dbglines[a] = Hidden
       /\ dbglines[a].kind = "source" <=> dbglines[a].source # <<>>
  /\ dbgBreakpoints \in [Addr -> Sources \cup {NoBreakpoint, Transient}]
  /\ breakpoints \in SUBSET Sources
  /\ ip \in Addr \cup {Nowhere} /\ alive \in BOOLEAN
  /\ lastDbgAddr \in Addr \cup {Nowhere} /\ lastIsAlive \in BOOLEAN
  /\ lastDbgAddrEnd \in 1 .. ArenaSize \cup {Nowhere}
  /\ placed \in Addr \cup {Nowhere}
  /\ sessions \in 0 .. MaxSessions /\ steps \in 0 .. MaxSteps

(* Code that ends right before that of a later warrior: getFirstDbgLine    *)
(* put a line of zeros at its last byte.                                   *)
ClippedSource(layout, s) ==
  IsCode(s) /\ \E v \in Warriors : /\ v > s[1] /\ layout[v] - 1 # At(layout, s)
                                  /\ layout[v] - 1 \in Extent(layout, s)

Clipped(layout, l, a) ==
  \E s \in Sources : /\ ClippedSource(layout, s)
                     /\ l.source = s \/ (l.kind = "fill" /\ a \in Extent(layout, s))

(* Lines tell the truth: what is shown at an address is what the memory    *)
(* has there, through any writes into the middle of opcodes, and whatever  *)
(* was disassembled over them.                                             *)
LinesTrue ==
  debugging /\ ~crashed =>
    \A a \in Addr : dbglines[a] # Hidden /\ ~Clipped(offset, dbglines[a], a) =>
      \A i \in 1 .. Len(dbglines[a].bytes) :
        a + i - 1 \in Addr /\ mem[a + i - 1] = dbglines[a].bytes[i]

(* Lines do not overlap: the bytes after the first of a line are hidden.   *)
(* However an opcode is laid over others, what it leaves of them is shown  *)
(* on lines of their own.                                                  *)
LinesApart ==
  debugging /\ ~crashed =>
    \A a \in Addr : dbglines[a] # Hidden /\ ~Clipped(offset, dbglines[a], a) =>
      \A i \in 1 .. Len(dbglines[a].bytes) - 1 : dbglines[a + i] = Hidden

(* Once the line was put at an address, that address is shown: nothing     *)
(* that is written or disassembled hides it.                               *)
DebugLineShown ==
  debugging /\ ~crashed /\ placed # Nowhere => dbglines[placed] # Hidden

(* A source line has a breakpoint in the editor exactly if its line in the *)
(* view has, as long as the view shows that line: clicks here and there,   *)
(* over several sessions, agree.                                           *)
BreakpointsAgree ==
  debugging =>
    \A a \in Addr : dbglines[a].kind = "source" =>
      LET s == dbglines[a].source
      IN dbgBreakpoints[a] = IF s \in breakpoints THEN s ELSE NoBreakpoint

=============================================================================
