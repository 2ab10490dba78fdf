# A verification project for the RISC-V Core Wars engine

The repository is a Core Wars game that runs in a browser: players write RISC-V
programs ("warriors"), the engine (Java, compiled to JavaScript with GWT) loads
them into one shared memory, and lets each execute one opcode per round until
at most one is left. A competition is a series of such wars; the same engine
also drives a debugger, in which a war can be paused, stepped and resumed.

This directory holds TLA+ modules translated from that engine, TLC
configurations that check them on small instances, and proofs that the TLA+
proof system (`tlapm`) checks for every value of the constants. `PROJECT.json`
maps every definition to the lines it models.

Paths below are relative to `src/src/il/co/codeguru/corewars_riscv/` unless
they name `main.js` or `page.html`, which are in `src/war/`.

## Inventory

| Part | State it keeps | Operations | Talks to |
|---|---|---|---|
| Run loop, `war/Competition.java` | `compState` (state, round, warIndex, abort, waitedFrames, ...), `currentWar`, `speed`, `seed` | `runCompetition`, `continueRun`, `startWar`, `runRound`, `doneWar`, `setAbort`, `setSpeed` | called from animation frames; calls `War`, the repository, the listeners |
| Page, `gui/CompetitionWindow.java`, `gui/WarFrame.java`, `main.js` | check boxes, enabled buttons, seed field, animation frames requested | start and stop (debug, compete), pause, resume, single round, speed, panel | calls the run loop, hears its events |
| War, `war/War.java`, `war/Warrior.java` | the warriors, `m_numWarriors`, `m_numWarriorsAlive`, `m_nextFreeAddress`, `m_currentWarrior`, the core | `loadWarriorGroups`, `getLoadOffset`, `nextRound`, `updateScores`, pause and step flags | the CPU, memory, the fixed-address checker |
| Memory, `memory/` | the bytes | byte, half word and word loads and stores, restricted to a warrior's regions or wrapped into the arena | used by the CPU |
| Fixed addresses, `gui/FixedLoadAddressChecker.java` | the fixed ranges | `addCheck`, `checkOverlap` | filled by the repository, read by `War` |
| Repository, `war/WarriorRepository.java`, `WarriorGroup`, `WarriorData`, `CompetitionIterator` | groups, names, zombies, scores | `loadWarriors`, `createGroupList`, `addScore` | filled by the page, read by the run loop, credited by `War` |
| CPU, `cpu/riscv/` | 32 registers and the pc of each warrior | fetch, decode (RV32I and RV32C), execute | memory |
| Debugger, `gui/code_editor/Debugger.java` | line table of the memory view, breakpoints | `onMemoryWrite`, `updateDebugLine`, `updateBreakpoints`, `shouldBreak` | memory events, the run loop |
| Editor, `gui/code_editor/CodeEditor.java`, `EditorBreakpointManager.java`, `main.js` | the text of each program, the offsets of its lines, breakpoints and their marks, the selection saved when a key went down | `assemblyEditorChanged`, `updateBreakpoints`, `fixTabKey`, `fixIndent`, `toggleBreakpointEdit`, `playerSelectionChanged`, `loadedNewBinary` | the browser's text area; its breakpoints are read by the debugger |
| Event casters, `gui/widgets/EventMulticaster*.java` | lists of listeners | one proxy for compete mode, one for debug mode | between engine and page |
| Parsers, display, browser glue | none that outlives a call, or pixels | | |
| `org/apache/commons/math3`, `assembler/` | third party | | |

What makes it hard. There is one thread, but nothing polls: the run goes on
only while each animation frame asks for the next one. Clicks come between
frames, several frames may be in flight, and a click handler may replace the
very state a pending frame will work on. A war that has ended stays open for
stepping in the debugger. Loading a war may fail in the middle. Stores may run
over the end of a region and fail half way. Addresses are compared at both
ends of everything. Alive warriors are counted by hand. `PROJECT.json` lists
each hazard at its line, with the properties that would catch it going wrong.

What makes each part correct:

- run loop: it is never stranded; each war is decided once and counted once;
  it ends only when it may and as soon as it must; stop and pause are honoured;
- war: no code overlaps when the fight begins; gaps are kept; the count of the
  living is right; only the warrior whose turn it is moves, dies or writes;
- memory: stacks and group memories are private;
- repository: every player that handed in programs is one group, with all of
  them; points reach the program that earned them, in every copy of the scores;
- CPU: decoding and execution agree with the instruction set, in 32 bits;
- debugger: the lines shown agree with the memory and do not overlap; the same
  breakpoints are in the view and in the sources;
- editor: whatever is typed, a breakpoint stays with its line, and shows; the
  next edit is always heard.

## Modules

**`Competition`** models `Competition.continueRun` and everything that calls it
or that its listeners change back: the buttons, their enabling, the seed field
and the queue of animation frames (`frames`, a count, since all callbacks are
the same closure). One action per click handler; one action per way through
`continueRun` (`FrameAborts`, `FrameStartsWar`, `FrameWaits`, ...). A frame
that runs rounds is a loop in the code; it is spelled out with the variable
`loop` (rounds left to run, -1 for the unbounded loop of compete mode), during
which no other action is enabled, since the thread is busy (`Idle`). A war is
abstracted to the number of its living and its flags; a round kills any number
of them. A start may be refused (and may then have changed the warrior
repository, also under a running competition); may be thrown out of the
repository, so that the check box that was clicked stays checked
(`StartThrows`); may throw while the war is loaded; or succeeds. The pause and
step buttons are also switched by edits of the registers, whatever state the war
is in (`EditRegister`, for `errorPreventsStep`). The `wars` and `fighters`
fields of `compState` stand for `warsPerCombination` and the contents of the
repository; before a competition has been opened there is no `compState`
(`NoCompState`). `scored` and `owed` are history: how often points were given
for this war, and, while single-stepping, steps asked for less rounds run.
The branch of the pause button for `globalPause` is left out: it needs
`getCurrentWar() == null` with the button enabled; every handler that enables
the button has set `currentWar` before it returns, and nothing nulls it.

**`Tournament`** is the abstract specification: a number of wars is opened, they
are played one after the other, points for each are given at most once, and it
closes by itself only when all were played; it may be asked to stop, replaced,
or give way to the debugger. `Competition` implements it under the mapping `T`
(`TournamentSpec`).

**`War`** models one war: `BeginGroup`, `LoadWarrior`, `LoadFails` and
`LoadingDone` are the turns of the loops of `loadWarriorGroups`; `StartRound`,
`SkipDead`, `Computes`, `Faults` and `Stores` those of `nextRound`. Group order
and random addresses are nondeterministic. The core keeps, per byte, who wrote
it last (`Warriors` or `NoOne`) instead of its value. What an opcode does is
left open, within what the code enforces around it: it must be fetched from
memory the warrior may read, a store goes byte by byte and stops at the first
forbidden byte, a pc outside the arena kills, and after a death the pc is put
back. Addresses are integers; wrapping (`& 0xFFFF`) is `Cell`. Init holds every
set of warriors that `addCheck` accepts, with lengths as handed in; the code is
cut to `MaxWarriorSize` as the repository does. The energy of the warriors,
which could earn a second opcode, is 0 in the code (`Warrior.getEnergy`) and
left out.

**`Battle`** is the abstract specification of a war: it gathers its fighters and
begins only with all of them, or breaks off; a round lets everyone who is alive
when it opens move exactly once, whoever dies meanwhile; who moves may die,
nobody else does, and nobody comes back. `War` implements it under the mapping
`B` (`BattleSpec`).

`War` and `Competition` meet in two numbers, the living and the rounds: the
former knows nothing of frames, the latter nothing of addresses. What
`Competition` takes for granted of a round, that the living are no more
afterwards than before, is what `Battle` promises. Composing them is planned
(below).

**`Repository`** models the players page as far as it decides what is handed in
(`UpdateTitle`, `ChangedWType`, `LoadAddrChanged`, `AddPlayer`,
`RemovePlayer`), `WarriorRepository.loadWarriors` turn by turn (`LoadSingle`,
`LoadFirst`, `LoadSecond`, `LoadZombie` and their refusals and exceptions, in
the order of `compareToIgnoreCase`), `createGroupList`, and the crediting of
survivors (`StartWar`, `EndWar`, and `PassOver`, `AddScore` per warrior) in the
repository and in the graph. The page may be edited, and the debugger started,
while a competition is between two frames: the copies of names, groups and
scores that `addScore` goes by are then of different starts. `earned` is
history: what each program, zombies included, has fought for. Code is left out but for whether it
can be loaded; fixed addresses are `Slots` so far apart that code overlaps only
at the same one (the overlap itself is in `War`).

**`Debugger`** models the line table `m_dbglines` of `gui/code_editor/Debugger`:
what a session starts out with from the listings (`StartDebug`), how a write
patches it (`Write`: an opcode that is written into is broken up into bytes),
how it is disassembled where the pc gets to (`Advance`, `EndRound`, `Select`),
and the breakpoints, set from the view (`ToggleBreakpointDbg`) and from the
source (`ToggleBreakpointEdit`) over several sessions. A line is the bytes it
shows; the length of an opcode is a function of four bytes. A scan that would
leave the table is an exception in Java and an undefined element in
JavaScript: the model sets `crashed` and stops.

**`Editor`** models what keys and clicks do to the text of a program and to its
breakpoints, which are numbers of lines. A key goes down, the selection is
saved (`saved`), the browser changes the text, and `assemblyEditorChanged`
(`Heard`) recounts the lines and goes through the list of breakpoints: by what
was saved, the offsets before and the number of lines after, each is dropped
(`Dropped`), moved (`Moved`) or left, or ends the loop by an exception (`Throws`);
`Done` are the entries before that one. `Tab` and
`Indent` are the handlers of `main.js` that change the text themselves, with
what an earlier key has saved. `Toggle`, `Switch` and `Load` are the clicks. A
line number that is missing ends a handler by an exception half way, as
`setLineNumBreakpoint` does; in the handler of edits this leaves `entered` set,
and later edits are `Unheard`. Characters are those that matter: the end of a
line, a space, one that HTML escapes, any other; `Escaped` is the length of
each in the escaped text, in which the code counts offsets. Whether a build
checks `charAt` is left open. `Debugger` has the same breakpoints as fixed
source lines: the text is not edited during a session. `edit` is history: what
was replaced, and what was taken to be selected.

**`Words`, `Decoder`, `Compressed`, `Cpu`** model the processor. A 32-bit word
is the set of the positions of its ones: shifts, masks and sign extensions are
set comprehensions, and addition is defined by its carries, so that TLC
evaluates them and the provers see them bit by bit. `Decoder` has the formats
of RV32I: the constructors that pack fields into a word (as the tests, and the
expansion of compressed code, use them), the getters that pick them out again,
and the opcodes. `Compressed` has the formats of RV32C, with Java's `short` and
`byte` casts, and the switch of `InstructionDecoderRv32c` with its
fall-throughs; it expands a half word by packing a word of RV32I, which the
runner unpacks again. `Cpu` has the handlers of `InstructionRunner`, byte by
byte access to the restricted memory in both modes, and the turn of a warrior:
fetch a half word, then perhaps a word, execute, move the pc, check the arena.

**`Isa`** is the abstract specification of it: what an instruction is to do,
written from the instruction set manual that the comments of the decoder and
the runner quote. An immediate is one list of bit positions; there is no
packing, no expansion, no cast. `Does(Here)` is the step that the code at the pc
asks for. `Cpu` is related to it by the action property `AsDocumented`: every
turn takes that step, unless the manual reserves the code (`Reserved`) or the
code is known to depart from it (`Departs`). Which operation a word stands for
is not asked of the decoder: `Listing` is the manual's listing of opcode, funct3
and funct7, and `Operation` the entry whose fixed bits the word has. The decoder
looks at fewer bits; a word that it accepts and the listing does not have is
reserved. FENCE and C.EBREAK are in the listing, and `Departs` has them. Taking any one disjunct out of
`Departs` or `DepartsHalfWord` makes TLC refute `AsDocumented`: each is there
because of something the code does. `CpuState` of different warriors are
separate, so `Cpu` has one warrior; what others may do to its memory between
its turns is in `War`.

The modules that are proved about use no `CASE` expressions: `tlapm`'s
translation to its SMT solver does not always keep those apart that begin
alike. Chains of `IF` and disjunctions stand in their place.

`MCCompetition`, `MCWar`, `MCRepository`, `MCDebugger`, `MCEditor` and `MCCpu`
give TLC the values that a cfg cannot write (negative numbers, functions, sets
of cores). The modules named `*_proofs` hold the theorems.

Definitions with a suffix such as `MoreWars_OneMore` are mutants: plausible
bugs of the code. No specification uses them; each shows, put in the place of
the definition it is named after, that some checked property would notice.

## Runs

| Run | Shows |
|---|---|
| `competition` (`MCCompetition.cfg`) | all interleavings of clicks and frames: `NoLostWakeup`, `WarsCountedOnce`, `WarRunsToTheEnd`, `NoWarOutlivesItsEnd`, the refinement `TournamentSpec`, and under fairness `CompetitionConcludes` and `StopIsHonoured`, for two wars |
| `debugger_rests` (`DebuggerRests.cfg`) | under fairness, `PauseSettles` and `StepCompletes`, at both kinds of speed |
| `war_loading` (`LoadWar.cfg`) | `CodeApart`, `CodeIntact`, `RandomKeepsGap`, and under fairness `LoadingEnds`, for three warriors |
| `war_rounds` (`FightWar.cfg`) | `AliveCounted`, `PrivateMemory`, `PaintedByWriter` (with stores, also ones that fail half way) and the refinement `BattleSpec` for two warriors and two rounds |
| `teams` (`Teams.cfg`) | `TeamsTogether`, `NamesFindGroups`, `FixedApart`: what a start that goes through has made of any names and addresses; `ThrowsOnlyAsKnown`: what ends one by an exception |
| `scores` (`Scores.cfg`) | `ScoresAgree`, `ZombiesHandedIn`, `NoCrash`: the copies of the scores, and the zombies, over a war, an edit and a second start that goes through after any number of refused ones |
| `debugger` (`Debugger.cfg`) | `LinesTrue`, `LinesApart`, `DebugLineShown`, `BreakpointsAgree` over any four steps and two sessions |
| `editor` (`Editor.cfg`) | `BreakpointsFollowLines`, `BreakpointsOnLines`, `MarksFollow`, `EditorListens` over any two edits and three clicks |
| `cpu` (`Cpu.cfg`) | `KeepsToRegions`, `AsDocumented` for every row of the opcode maps |
| `points_given_twice`, `two_rounds_per_step`, `compressed_branches` (`Finding*.cfg`) | one behaviour each that contradicts a comment of the source; see below |

Bounds.

- `Competition`: wars of 3 rounds reach a round before the limit, the limit, and
  rounds beyond it; two wars have a first, a last and a time between; two
  warriors make a war that is open, won, or lost by all; a speed of
  2 takes the loop within a frame, one of -1 the countdown over several (the
  slider starts at 0, which is always there); two pending frames are what one click too many makes. `round` and
  `warIndex` stick one above the last value they are compared with (`Bump`), so
  no behaviour is cut off by them; `MaxFrames` does cut: no click is made with
  so many frames pending. Seeds are only passed on, one value is enough. The
  speed does not matter to wars in compete mode, so `competition` has 0 and -1, with
  the countdown, and the loop of compete mode; a debug session is one war, so
  `debugger_rests` has one war, at -1, 0 and 2. That several rounds in a frame of a
  debug session break none of the safety properties of `competition` is left
  to their proofs, which are for any speeds. The runs that find a violation have the bounds that its
  trace needs.
- `War`: the arena has 8 bytes for loading three warriors of 1 or 2 bytes
  (handed in as 1 or 3, so that one is cut) with a gap of 1; two of the same
  group and one of another give both kinds of private memory neighbours. For
  rounds a byte each of stack and group memory, stores of 1 and 2 bytes
  anywhere from below to above the memory, and fetches of 1 and 2 bytes let
  every store run over every boundary. Three random warriors of 2 bytes do not
  fit into the 8 with their gaps, so that loading also fails.
- `Repository`: the titles `A` and `A1` are such that all of one player's names
  sort in between the other's two, and that one is equal to another's; two
  players and a zombie reach every order of their programs. In `scores` two
  starts with an edit between them leave copies of different starts; a point
  has 6 units so that it is shared out evenly.
- `Debugger`: an arena of 6 bytes holds an opcode of four bytes from the
  sources next to a byte of data, in either order, and one that ends with the
  arena; opcodes of 2 and 4 bytes can begin at any address. Four steps are
  enough to write into the middle of an opcode, disassemble across what is
  left, write again and come back.
- `Editor`: texts of up to 4 characters have up to 5 lines, blank ones, one that
  is indented (so that after an enter in it the indent has something to repeat),
  and one after an escaped character; an empty program is another.
  Every selection is made with every key. Two edits are what it takes for the
  second to look at the text of the first, or to use its selection; three
  clicks, among them, are two breakpoints that an edit joins and a click on
  them, or a switch to the other program and a breakpoint there. Without a key
  only one selection is made (`MCSelections`). The two programs are alike, so
  that symmetry is sound.
- `Cpu`: the arena has 8 bytes, filled with one code, in a core of 16 that has
  the stack and somebody else's bytes behind it; three files of registers
  (numbers, complements, high bits) give addresses on every side of each
  boundary, and signs of both kinds. Half words: all 24 rows of the map, with
  operand bits of which at most two are set or at most one is not: each bit of
  each permuted immediate by itself, in pairs, and with the sign. Words: every
  entry of the manual's listing, FENCE, ECALL and EBREAK among them, with one
  operand bit flipped or all. Two turns: the second executes
  what the first has jumped to or written over. For all other operands there
  is the proof.

`CHECK_DEADLOCK FALSE` in the runs of `War` (a war whose loading failed stops,
and rounds are bounded), `Repository`, `Debugger`, `Editor` and `Cpu` (their bounds end
them; an exception does too). `Competition` never deadlocks.

Fairness. The browser calls back each frame that was requested and a callback
runs to its end: weak fairness of `Frame` and `RunRound`. Nothing is assumed of
the user: the premises of the two properties of a competition (`Underway`) say that
its war was loaded, and is not paused half way, which the buttons of a debugger's
panel that is still up can do. In `War` loading is a synchronous loop: weak fairness of its
steps; none of the rounds, which are the caller's choice. The other modules state no liveness: their calls are
straight-line loops over finite lists, and what calls them is the user.

### Disagreements with the source's own words

Each of these is a run that TLC must find violated.

- `PointsGivenOnce` (of the debugger only): a decided war stepped on to the round
  limit gives its points again (`Competition.java:221`, against 207).
- `OneRoundPerStep`: with a frame pending, after a pause or when an edit of a
  register has enabled the button during a free run, one click on Single Round
  runs two rounds (`WarFrame.java:155`).
- `CompressedBranchesReach`: the offset of a compressed branch loses its sign and
  bit 8 when it is cast to a byte (`CInstructionFormatCB.java:53`, against
  `InstructionDecoderRv32c.java:204`): C.BNEZ with an offset of -256 stays where it
  is. Of what is left format SB loses bits 10:5 (`InstructionFormatSB.java:26`),
  and casts to a byte again (`:53`).

Others were met while modelling. The models do as the code does; no run is kept
for them, and the properties above leave them out by name where they must.

- Stop between two wars, in compete mode, calls `doneWar` for the war that is
  already done; with a single winner its points are given again
  (`Competition.java:88`, against the comment at 259, "don't update scores on
  abort"). `PointsGivenOnce` is about the debugger and leaves this out.
- A start may end by an exception, outside the `try` of `runWar`: when a name sorts
  in between the two of another player, since the loader has no group in hand at
  the second (`WarriorRepository.java:200`); and when a zombie has a fixed address
  and no player whose address counts has one, since the checker of addresses is
  made for the first of those (`:147`). `ThrowsOnlyAsKnown` shows that these are
  the only two ways.
- A tab with lines selected drops their breakpoints, though it only inserts
  spaces at the start of the selection (`main.js:477`, against
  `EditorBreakpointManager.java:67`, "removing the whole line"). The indent after
  an enter that replaced a selection does the same (`main.js:468-506`). The
  handlers change the text before the selection of their own key is saved;
  `BreakpointsFollowLines` leaves such a selection out, unless it is a caret.
- When the last warriors die in the same round the war is reported as aborted,
  "user abort" (`Competition.java:257`).
- Pausing or stepping at the limit is looked at before the limit, so single
  steps carry a war beyond `MAX_ROUND` (`Competition.java:218`, against 12).
- The seed is incremented before it is shown, so the one shown does not start
  the war again (`Competition.java:246`, against `CompetitionWindow.java:311`).
- `MIN_GAP` is not kept to warriors at fixed addresses (`War.java:267`, against
  41).
- Points go by name: a zombie named like a player's program scores for it
  (`WarriorRepository.java:43-45`, "zombies" get none), and of two players' programs
  of one name one has the points of both. `ScoresAgree` asks that a program has
  what it fought for only of those that share their name with nobody (`Unshared`).
- A fixed address of a player counts in the debugger only, that of a zombie
  always (`WarriorRepository.java:147`).
- The debugger's `m_lastDbgAddrEnd` is one past the first byte of the opcode and
  not past its last, so a write to its other bytes does not show it afresh
  (`Debugger.java:176`, against 46); and `m_lastDbgAddr` outlives the session,
  so a warrior that stands where the last session ended is not disassembled
  (`Debugger.java:138`).
- The comment at `CodeEditor.java:278-279` says of the test of `entered` that it
  "probably does nothing". It does once the handler has thrown: from then on no
  edit is kept until the page is loaded again. TLC finds three ways there, the
  exceptions that `EditorListens` names: the text is emptied with a breakpoint
  on its only line, or on an empty last one; lines are removed after a `<`, `>`
  or `&`, since offsets count the escaped text and selections do not
  (`CodeEditor.java:453-464`); a blank line is erased after another program was
  brought up, since `m_prevInText` is still of the old one (set in 290 but not
  in 309-325), in builds that check `charAt` and when that text is shorter. After the first two not even the
  button of another program brings up its text.
- By the same offsets, or the same stale text, a breakpoint may move with the
  wrong line, or be dropped; in the first edit after the page is loaded, when
  there is no previous text, a backspace that joins a line with text to the one
  before drops its breakpoint. The premises of `BreakpointsFollowLines` leave
  these out, each because TLC refutes it otherwise.
- Two breakpoints that an edit joins on one line stay two; a click removes one
  of them and the mark, so that the other is there but not shown
  (`EditorBreakpointManager.java:28-41`).
- C.NOP, which `RV32C.java:94` declares, falls through to C.JAL
  (`InstructionDecoderRv32c.java:61-80`), and C.EBREAK to C.SWSP, as a store
  (`:249-298`); FENCE is no instruction (`InstructionDecoder.java:9-34`), so that a
  warrior dies of it, as of ECALL and EBREAK, for which there is no environment to
  call; C.ANDI and C.ADDI16SP do not
  sign-extend; 32-bit branches reach -128..127 only; LUI keeps the lower twelve
  bits of its register (`InstructionRunner.java:51-57`); JALR does not clear the
  lowest bit of its target (`:251` against `:259`). These are the disjuncts of
  `Departs` and `DepartsHalfWord`.

## Proofs

For every value of the constants that the named assumptions allow:

`Competition_proofs` proves all five invariants of the run `competition` and the
refinement. The inductive invariant is `Inv == TypeOK /\ RunInv`. The checked
invariants speak of idle states, so by themselves they say nothing between two
rounds of one frame; `RunInv` adds what holds inside the loop (`LoopInv`: which
modes may loop, for how long, that the war is loaded and undecided when it
matters) and what ties the flags of the war to the state of the competition in
compete mode (`CompeteInv`). It is proved action by action; the refinement maps
each action to one of `Tournament` or a stutter, with the invariant.

`War_proofs` proves, for any finite set of warriors, any groups, code lengths,
fixed addresses that `addCheck` accepts and any sizes, every invariant and every
action property of the runs of `War`, and the refinement `BattleSpec`. No run
checks `OnlyTheCurrentMoves`, which is proved as well: that nobody dies or moves
out of turn is in `BattleSpec`, and it adds that a dead warrior's pc stays where it
is. The inductive invariant adds to the checked properties: `Counts` (while
loading the current warrior is the number loaded, and only the loaded are
alive), `Places` (code ends inside the arena
and a fixed address is obeyed), `Regions` (the private memories lie above the
arena, below `nextFree`, and apart; a group's memory lies above the stacks of
the groups before it), and `Untouched` (nothing outside the arena is written
while loading). That a war is a `Battle` needs one more (`Seats`): everyone loaded
has an index of his own below `m_numWarriors`, and who is not loaded yet is in
a group still to come. From it follows that the warriors with an index from
`m_currentWarrior` on are those who have not moved, and that after the last
index there are none (`TurnMoves`).

`Repository_proofs` proves type correctness, `TeamsTogether` and
`NamesFindGroups`, for any players, titles and order of names. The loader sees
one program after the other and pairs it with the last it saw; that this is
right whenever it does not throw is not inductive as it stands, since half way
the pairing may already be wrong. The invariant (`LoaderInv`) says that the
loader is `Tidy` (the only player whose second program is still to come is the
one in hand, and all groups made so far are complete) or `Tangled` (more
players are open than the loader has in hand). A tangled loader stays so until
it meets a second program empty-handed, which is where the code throws; it
can never finish. `Kept` carries the result on to the zombies and to the idle
states.

On top of that invariant five more are proved. `FixedApart`: an address is
looked up among those taken before it is taken, so what is loaded is among
`checker.taken` and apart (`AddressesKept`), zombies included. `NoCrash`: every name that
leads somewhere leads to a group that has a member of that name (`MembersMade`,
which a tangled loader breaks, but that one never gets here). `ScoresAgree`: of
every group the total is the sum of its members' points, the graph has the same
points, and they are what was fought for by a program that shares its name with
nobody, zombies included (`ScoresKept`; `FightsOnce` says that such a name is met
once among those who fight, `UnsharedStays` that this does not change while
the groups stay); a group has one member
or two, so that the sums, which are folds, can be unfolded (`SumOfOne`,
`SumOfTwo`). `ZombiesHandedIn`: while loading, the zombies so far are those handed
in and already seen (`Enlisted`), however an earlier start ended.
`ThrowsOnlyAsKnown`: programs are seen in the order of their names, so whoever has
taken the loader's hand off a player that is still open has a name in between,
and once a fixed address has been seen there is a checker (`Foreseen`).

`Debugger_proofs` proves all five invariants of the run `debugger`, for any
arena, listings and layouts. The invariant says of the table that line 0 is
always shown, which is why no scan downwards runs off; that every line shown
has the bytes of the memory and hides those after its first (`TableOk`), but
for lines that `getFirstDbgLine` clips at the end of a program; and that source
lines are where the layout puts them (`InPlace`), which makes the two sets of
breakpoints comparable (`Agree`). Each of the operations on the table (a fill,
a byte, an opcode laid over others, an opcode broken up) is shown by a lemma to
keep `TableInv`; the actions follow.

`Words_proofs`, `Isa_proofs` and `Cpu_proofs` prove type correctness,
`KeepsToRegions` and `PcInArena` (which no run checks by itself: where the pc
may go is part of `AsDocumented`), for memories of any size and contents, and
`AsDocumented`: every turn does what the manual says, for every register file,
every region, every half word and every word, where TLC tries some operands of
each row only. The argument has three parts.

1. Decoding. `Agrees(x, i)` says that the decoded instruction `x` has the
   operation of `i` and that every operand which this operation reads from it is
   the documented one. That the operation which the decoder finds for a word by
   its switches is the one that the manual lists is shown from the listing
   (`ListedMatches`, `MatchesOne`, `DecodesListed`), in which no word has two
   entries. For a 32-bit word (`AgreesWord`) each getter is shown to pick the
   documented bits. For a half word (`HalfAgrees`) there is a lemma per
   immediate, a round trip through each format of RV32I (`PackedI`, ...,
   `PackedUJ`), and one case per row of the table.
2. Words. Addition is defined by its carries; that `t - n + n = t` (jumps take
   the size off that the turn adds), that the bytes of a word are where the code
   looks for them one by one, and that adding 2^31 turns the sign (unsigned
   comparison) need to know where a carry begins and ends (`LowestBit`, from the
   well-foundedness of the naturals).
3. Doing. Each kind of instruction does what it should when the operands agree
   (`DoesAlu`, ..., `DoesTrap`), which `TurnDoes` joins with the fetch.

`Editor_proofs` proves both invariants and all three action properties of the run
`editor`, for any programs, characters, texts, keys and selections. The
invariant is `TypeOK /\ Steady`: while the editor listens, the text shown is that
of the program edits go to, the offsets are those of that text, and every
program's breakpoints are on lines that its text shows. Three facts carry the
rest.

1. A line is counted, not found: its end is the n-th place of a set
   (`Nth(EndPlaces(t), n)`). `RankGrows`, `NthRank` and `RankNth` say that counting and
   choosing undo each other; with them `LinesAndBreaks`, `Joined` and
   `ReplacedLines` say how many lines a text has that an edit has put together
   from three parts, and `GrowthOf` that the change of the number of lines is
   that of the breaks in what was replaced.
2. `ThrowsOnlyOffLines` and `MovesOnto`: with offsets that count characters, and
   a selection that lies in the text, a breakpoint that is moved comes onto a
   line there is, and one that is not there has been dropped; so only an empty
   text, escaped characters or the too short text of another program end the
   handler. A tab
   or an indent goes by a selection that an earlier key has saved; its spaces add
   no line (`SpacesGrow`), so then nothing is moved at all. `Steps` makes of `Next`
   these two ways to change the text (`TypedEdit`, `SpacesEdit`) and a rest.
3. The loop is not followed entry by entry. What it does to an entry depends on
   the entry alone as long as nothing has thrown, so the list after it is
   the entries that are not dropped (`Only`), each moved; `HeardParts` says so of sets
   (`Survivors`), and `MovedWithLine` and `UntouchedStay` compare where the code
   moves a breakpoint with where its line has gone.

Assumed are only the named assumptions on the constants: sizes are naturals, the
arena is a power of two inside what the warrior may reach (`Warrior` adds it to
every warrior's regions), names have a
place each in the order of `compareToIgnoreCase` (ties allowed), in which a title
with "1" comes before it with "2".

Only model-checked: what needs fairness (`CompetitionConcludes`, `StopIsHonoured`,
`PauseSettles`, `StepCompletes`, `LoadingEnds`), since liveness is out of the
prover's reach here. Every invariant, every action property and the refinement of
the passing runs is a theorem. The three violations are shown by TLC's traces.

## Not modelled

- For good: the parsers of assembler listings and watch expressions (pure text
  processing without state of its own), the text of disassembled instructions,
  drawing, widgets and browser glue.
- Third-party code: the mathematics library, and `assembler/` (NASM, the GNU
  assembler and its BFD library, built for the browser), which is most of the
  repository's lines. The engine sees of them a listing and a binary, which are
  constants of `Debugger` and `War`.
- The event casters' own lists; which listeners hear what in which mode is
  inside the actions of `Competition`.
- In the editor: erasing a word (Ctrl+Backspace, Ctrl+Delete), whose length is the
  browser's; the handler takes it for one character, so that a breakpoint on a
  line that goes with the word stays at its number. Edits that no key announces (undo, dragging, menus of the
  browser; the comment at `CodeEditor.java:429` excludes dragging itself), and
  the assembler, whose listing decides which lines can be clicked: every line
  can be.
- On the players page, `TWO_IDENTICAL` (`PlayersPanel.java:270-274`): the page's
  own choices are one program and two (`main.js:307-312`).
- The limit of `MAX_WARRIORS` (`War.java:281`): what it throws is the failed load
  that `Competition` has.

## Plan

What is left, most important first.

1. `Competition` restated over `Battle` instead of a number of survivors, so that
   the two models meet.
2. `Casters`: which listeners hear an event in compete and in debug mode, when
   one is added or removed during it.
3. `Editor` and `Debugger` over the same lists of breakpoints.
