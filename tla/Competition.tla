---------------------------- MODULE Competition ----------------------------
(***************************************************************************)
(* The run loop of the engine: Competition.continueRun, driven by the      *)
(* browser's animation frames, and the buttons of the page that start,     *)
(* stop, pause, resume and single-step it.                                 *)
(*                                                                         *)
(* Everything runs on the one JavaScript thread, so every click handler    *)
(* and every frame callback is atomic; what interleaves is the order of    *)
(* clicks and of the animation frames still pending.  A frame callback     *)
(* that runs rounds is spelled out as a loop (variable loop): while        *)
(* loop # 0 the thread is inside continueRun and nothing else may run.     *)
(*                                                                         *)
(* Data is abstracted to what the control looks at: a war is the number    *)
(* of warriors alive and its flags; a round kills any number of them.      *)
(***************************************************************************)
EXTENDS Integers

CONSTANTS
  MaxRound,    (* MAX_ROUND, the round limit of a war                      *)
  MaxWars,     (* largest "battles per group" a user asks for              *)
  MaxWarriors, (* largest number of warriors that enter the arena          *)
  Speeds,      (* positions of the speed slider the user may choose        *)
  MaxFrames,   (* bound: no click is made with so many frames pending      *)
  SeedMod      (* seeds are a long; here they wrap at SeedMod              *)

ASSUME CompetitionAssumption ==
  /\ MaxRound \in Nat \ {0}
  /\ MaxWars \in Nat \ {0}
  /\ MaxWarriors \in Nat \ {0}
  /\ MaxFrames \in Nat \ {0}
  /\ SeedMod \in Nat \ {0}
  /\ Speeds \subseteq Int

VARIABLES
  compState,  (* Competition.compState; state "NULL" is the null pointer   *)
  currentWar, (* Competition.currentWar; load "none" is the null pointer   *)
  speed,      (* Competition.speed                                         *)
  seed,       (* Competition.seed                                          *)
  seedText,   (* the number in the page's seed field                       *)
  frames,     (* animation frames requested and not yet called back        *)
  loop,       (* rounds continueRun still has to run before it returns     *)
  page        (* check boxes, buttons and panels of the page               *)

vars == <<compState, currentWar, speed, seed, seedText, frames, loop, page>>

(***************************************************************************)
(* A counter that is only compared with values below top is kept exactly   *)
(* by letting it stick at top.                                             *)
(***************************************************************************)
Bump(n, top) == IF n < top THEN n + 1 ELSE top

(* The rounds of a war are compared with MaxRound only, by = and by >=.    *)
RoundTop == MaxRound + 1
(* warIndex is compared with the number of wars asked for, by < only.      *)
IndexTop == MaxWars + 1

Seeds == 0 .. SeedMod - 1

(***************************************************************************)
(* compState.  wars stands for Competition.warsPerCombination, set by the  *)
(* call that creates compState; fighters for the warrior repository: how   *)
(* many enter the next war, 0 when some of the groups the competition was  *)
(* started with are no longer there.                                       *)
(***************************************************************************)
CompStates ==
  [ state : {"NULL", "RUN_WAR", "RUN_ROUND"}, warIndex : 0 .. IndexTop,
    startPaused : BOOLEAN, isInDebugger : BOOLEAN, round : 0 .. RoundTop,
    abort : BOOLEAN, waitedFrames : Nat, wars : 1 .. MaxWars,
    fighters : 0 .. MaxWarriors ]

NewCompState(debug, wars, fighters) ==
  [ state |-> "RUN_WAR", warIndex |-> 0, startPaused |-> debug,
    isInDebugger |-> debug, round |-> 0, abort |-> FALSE, waitedFrames |-> 0,
    wars |-> wars, fighters |-> fighters ]

(* The null pointer: its other fields mean nothing.                        *)
NoCompState == [NewCompState(FALSE, 1, 1) EXCEPT !.state = "NULL"]

(***************************************************************************)
(* currentWar.  load is "failed" when the last attempt to start a war      *)
(* threw.  Two history fields: scored counts the calls of updateScores     *)
(* made for this war; owed is, while the war is stepped, the number of     *)
(* clicks on "Single Round" since it was last resumed less the number of   *)
(* rounds run since, -1 if there were more rounds than clicks.             *)
(***************************************************************************)
Wars ==
  [ load : {"none", "failed", "loaded"}, numAlive : 0 .. MaxWarriors,
    isPaused : BOOLEAN, isSingleRound : BOOLEAN, hasEnded : BOOLEAN,
    seed : Seeds, scored : 0 .. 2,
    owed : -1 .. MaxFrames ]

NewWar(load, alive, paused, warSeed) ==
  [ load |-> load, numAlive |-> alive, isPaused |-> paused,
    isSingleRound |-> FALSE, hasEnded |-> FALSE, seed |-> warSeed,
    scored |-> 0, owed |-> 0 ]

(***************************************************************************)
(* The page: debug, run and panel are the check boxes debugCheckbox,       *)
(* competeRunCheckbox and competeCheckbox; btnPause and btnSingleRound say *)
(* which buttons are enabled; cpuPanel whether the panel with the buttons, *)
(* the registers and the speed slider is displayed; locked whether         *)
(* competeCheckbox is disabled, as it is while debugging.                  *)
(***************************************************************************)
Pages ==
  [ debug : BOOLEAN, run : BOOLEAN, panel : BOOLEAN, locked : BOOLEAN,
    btnPause : BOOLEAN, btnSingleRound : BOOLEAN, cpuPanel : BOOLEAN ]

TypeOK ==
  /\ compState \in CompStates
  /\ currentWar \in Wars
  /\ speed \in Int
  /\ seed \in Seeds
  /\ seedText \in Seeds
  /\ frames \in 0 .. MaxFrames
  /\ loop \in Int
  /\ page \in Pages

Init ==
  /\ compState = NoCompState
  /\ seed = 0
  /\ currentWar = NewWar("none", 0, FALSE, 0)
  /\ speed = 0
  /\ seedText \in Seeds
  /\ frames = 0
  /\ loop = 0
  /\ page = [ debug |-> FALSE, run |-> FALSE, panel |-> FALSE, locked |-> FALSE,
              btnPause |-> FALSE, btnSingleRound |-> FALSE,
              cpuPanel |-> FALSE ]

Running == compState.state # "NULL"
Idle == loop = 0

(* The loop of a frame in compete mode has no count: it runs a whole war.  *)
Forever == -1

-----------------------------------------------------------------------------
(***************************************************************************)
(* startWar.  The war object is stored before the warriors are loaded, so  *)
(* when loading throws (no room in the arena) a half loaded war stays in   *)
(* currentWar, and compState is as it was.                                 *)
(***************************************************************************)
StartWar(cs, warSeed) ==
  /\ currentWar' = NewWar("loaded", cs.fighters, cs.startPaused, warSeed)
  /\ compState' = [cs EXCEPT !.state = "RUN_ROUND", !.round = 0,
                             !.startPaused = FALSE]

StartWarThrows(cs, warSeed) ==
  /\ \E n \in 0 .. cs.fighters - 1 :
       currentWar' = NewWar("failed", n, cs.startPaused, warSeed)
  /\ compState' = cs

(***************************************************************************)
(* doneWar, for the war w and the run state cs: the seed moves on, the     *)
(* listeners are told the reason and read the new seed, the points of a    *)
(* decided war are given, the war is marked ended and counted.             *)
(***************************************************************************)
EndReason(cs, w) ==
  IF w.numAlive = 1 THEN "SINGLE_WINNER"
  ELSE IF cs.round = MaxRound THEN "MAX_ROUND_REACHED" ELSE "ABORTED"

EndedWar(cs, w) ==
  [ w EXCEPT !.hasEnded = TRUE,
             !.scored = IF EndReason(cs, w) = "ABORTED" THEN @ ELSE Bump(@, 2) ]

NextSeed == (seed + 1) % SeedMod

MoveSeed ==
  /\ seed' = NextSeed
  /\ seedText' = NextSeed

(* A mutant: the war is forgotten.                                         *)
CountWar_Forgets(cs) == cs

CountWar(cs) == [cs EXCEPT !.warIndex = Bump(@, IndexTop)]

(* What the listeners of doneWar do to the page: onRound, then onWarEnd.   *)
PageWarEnd(debug, p) ==
  IF debug THEN [p EXCEPT !.btnPause = TRUE, !.btnSingleRound = TRUE] ELSE p

(* doneCompetition: onCompetitionEnd resets the page, compState is nulled. *)
PageCompetitionEnd(p) == [p EXCEPT !.btnPause = FALSE, !.run = FALSE]

PageNoneAlive(p) == [p EXCEPT !.btnPause = FALSE, !.btnSingleRound = FALSE]

PagePaused(debug, p) ==
  IF debug THEN [p EXCEPT !.btnSingleRound = TRUE] ELSE p

-----------------------------------------------------------------------------
(***************************************************************************)
(* The buttons that start and stop a competition.  runWar sets the seed    *)
(* and reads the warriors into the repository; when it refuses the input,  *)
(* it leaves the rest alone and the check box unchecked, but the           *)
(* repository may have changed under a competition that is running.  When  *)
(* reading the warriors throws, nobody catches it before the handler in    *)
(* the page, and the check box stays checked.  Else runCompetition         *)
(* replaces compState whatever it was and continueRun is called at once,   *)
(* in the same handler.                                                    *)
(***************************************************************************)
TakeSeed(s) ==
  /\ seed' = s
  /\ seedText' = s

(* The repository is read anew, and the start comes to nothing.            *)
RepositoryOnly(s) ==
  /\ TakeSeed(s)
  /\ IF Running
     THEN \E n \in 0 .. MaxWarriors :
            compState' = [compState EXCEPT !.fighters = n]
     ELSE UNCHANGED compState
  /\ UNCHANGED <<currentWar, speed, frames, loop>>

StartRefused(s) == RepositoryOnly(s) /\ UNCHANGED page

StartThrows(debug, s) ==
  /\ RepositoryOnly(s)
  /\ page' = IF debug THEN [page EXCEPT !.debug = TRUE]
                      ELSE [page EXCEPT !.run = TRUE]

(* onCompetitionStart enables the pause button; onWarStart, told only in   *)
(* the debugger, shows the panel and finds the war paused.                 *)
PageStarted(debug, p) ==
  IF debug
  THEN [p EXCEPT !.btnPause = TRUE, !.btnSingleRound = TRUE,
                 !.cpuPanel = TRUE, !.debug = TRUE, !.locked = TRUE]
  ELSE [p EXCEPT !.btnPause = TRUE, !.run = TRUE]

StartAccepted(debug, s) ==
  /\ frames < MaxFrames
  /\ TakeSeed(s)
  /\ \E w \in 1 .. MaxWars, n \in 1 .. MaxWarriors :
       StartWar(NewCompState(debug, w, n), s)
  /\ frames' = IF debug THEN frames ELSE frames + 1
  /\ page' = PageStarted(debug, page)
  /\ UNCHANGED <<speed, loop>>

(* startWar threw: runWar catches, reports failure, the box is unchecked.  *)
StartFailed(debug, s) ==
  /\ TakeSeed(s)
  /\ \E w \in 1 .. MaxWars, n \in 1 .. MaxWarriors :
       StartWarThrows(NewCompState(debug, w, n), s)
  /\ page' = [page EXCEPT !.btnPause = TRUE]
  /\ UNCHANGED <<speed, frames, loop>>

Start(debug) ==
  \E s \in Seeds :
    \/ StartRefused(s) \/ StartThrows(debug, s)
    \/ StartAccepted(debug, s) \/ StartFailed(debug, s)

(* "Debug" is disabled while the competition panel is open.                *)
StartDebug ==
  /\ Idle /\ ~page.debug /\ ~page.panel
  /\ Start(TRUE)

StartCompete ==
  /\ Idle /\ page.panel /\ ~page.run
  /\ Start(FALSE)

(* setAbort only leaves a mark, for the next frame to find.                *)
SetAbort ==
  compState' = IF Running THEN [compState EXCEPT !.abort = TRUE] ELSE compState

StopDebug ==
  /\ Idle /\ page.debug /\ ~page.panel
  /\ SetAbort
  /\ page' = [page EXCEPT !.debug = FALSE, !.cpuPanel = FALSE, !.locked = FALSE]
  /\ UNCHANGED <<currentWar, speed, seed, seedText, frames, loop>>

StopCompete ==
  /\ Idle /\ page.panel /\ page.run
  /\ SetAbort
  /\ page' = [page EXCEPT !.run = FALSE]
  /\ UNCHANGED <<currentWar, speed, seed, seedText, frames, loop>>

(* The competition panel cannot be opened while debugging; it can when the *)
(* box is only checked because the start of the debugger threw.            *)
TogglePanel ==
  /\ Idle /\ ~page.locked
  /\ page' = [page EXCEPT !.panel = ~@]
  /\ UNCHANGED <<compState, currentWar, speed, seed, seedText, frames, loop>>

-----------------------------------------------------------------------------
(***************************************************************************)
(* The buttons of the debugger's panel.  The pause button pauses and       *)
(* resumes; resuming and single-stepping request a frame without asking    *)
(* whether one is pending already.                                         *)
(***************************************************************************)
ClickPause ==
  /\ Idle /\ page.cpuPanel /\ page.btnPause /\ ~currentWar.isPaused
  /\ currentWar' = [currentWar EXCEPT !.isPaused = TRUE]
  /\ page' = [page EXCEPT !.btnSingleRound = TRUE]
  /\ UNCHANGED <<compState, speed, seed, seedText, frames, loop>>

ClickResume ==
  /\ Idle /\ page.cpuPanel /\ page.btnPause /\ currentWar.isPaused
  /\ frames < MaxFrames
  /\ currentWar' = [currentWar EXCEPT !.isPaused = FALSE,
                                      !.isSingleRound = FALSE, !.owed = 0]
  /\ frames' = frames + 1
  /\ page' = [page EXCEPT !.btnSingleRound = FALSE]
  /\ UNCHANGED <<compState, speed, seed, seedText, loop>>

ClickSingleRound ==
  /\ Idle /\ page.cpuPanel /\ page.btnSingleRound
  /\ frames < MaxFrames
  /\ currentWar' = [currentWar EXCEPT !.isPaused = FALSE,
                     !.isSingleRound = TRUE,
                     !.owed = IF currentWar.isSingleRound THEN Bump(@, MaxFrames)
                              ELSE 1]
  /\ frames' = frames + 1
  /\ UNCHANGED <<compState, speed, seed, seedText, loop, page>>

SetSpeed ==
  /\ Idle /\ page.cpuPanel
  /\ speed' \in Speeds
  /\ UNCHANGED <<compState, currentWar, seed, seedText, frames, loop, page>>

(* A register is edited: when what is typed is no number the buttons are   *)
(* disabled, and when it is one they are enabled, whatever the war does.   *)
EditRegister ==
  /\ Idle /\ page.cpuPanel /\ currentWar.load # "none"
  /\ \E ok \in BOOLEAN :
       page' = [page EXCEPT !.btnPause = ok, !.btnSingleRound = ok]
  /\ UNCHANGED <<compState, currentWar, speed, seed, seedText, frames, loop>>

-----------------------------------------------------------------------------
(***************************************************************************)
(* The animation frame: continueRun.  Each of the following actions is one *)
(* way through it, from the frame being taken off the browser's queue;     *)
(* when continueRun asks for more, the frame is requested again.           *)
(***************************************************************************)
FrameDue == Idle /\ frames > 0

(* compState is null: the callback dies of a null pointer, which is caught *)
(* and logged, and asks for no further frame.                              *)
FrameOnNothing ==
  /\ FrameDue /\ ~Running
  /\ frames' = frames - 1
  /\ UNCHANGED <<compState, currentWar, speed, seed, seedText, loop, page>>

(* A mutant: the war is ended, the competition is not.                     *)
FrameAborts_WarOnly ==
  /\ FrameDue /\ Running /\ compState.abort
  /\ currentWar' = EndedWar(compState, currentWar)
  /\ MoveSeed
  /\ compState' = CountWar(compState)
  /\ page' = PageWarEnd(compState.isInDebugger, page)
  /\ frames' = frames - 1
  /\ UNCHANGED <<speed, loop>>

FrameAborts ==
  /\ FrameDue /\ Running /\ compState.abort
  /\ currentWar' = EndedWar(compState, currentWar)
  /\ MoveSeed
  /\ compState' = NoCompState
  /\ page' = PageCompetitionEnd(PageWarEnd(compState.isInDebugger, page))
  /\ frames' = frames - 1
  /\ UNCHANGED <<speed, loop>>

(* A mutant: one war too many.                                             *)
MoreWars_OneMore == compState.warIndex <= compState.wars

MoreWars == compState.warIndex < compState.wars

WarIsNext ==
  FrameDue /\ compState.state = "RUN_WAR" /\ ~compState.abort /\ MoreWars

FrameStartsWar ==
  /\ WarIsNext /\ compState.fighters > 0
  /\ StartWar(compState, seed)
  /\ frames' = IF compState.startPaused THEN frames - 1 ELSE frames
  /\ page' = IF compState.isInDebugger
             THEN [page EXCEPT !.cpuPanel = TRUE,
                     !.btnSingleRound = @ \/ compState.startPaused]
             ELSE page
  /\ UNCHANGED <<speed, seed, seedText, loop>>

FrameFailsToStartWar ==
  /\ WarIsNext
  /\ StartWarThrows(compState, seed)
  /\ frames' = frames - 1
  /\ UNCHANGED <<speed, seed, seedText, loop, page>>

(* createGroupList throws: the competition asks for a group that is gone.  *)
FrameFindsNoGroup ==
  /\ WarIsNext /\ compState.fighters = 0
  /\ currentWar' = [currentWar EXCEPT !.load = "failed"]
  /\ frames' = frames - 1
  /\ UNCHANGED <<compState, speed, seed, seedText, loop, page>>

FrameEndsCompetition ==
  /\ FrameDue /\ compState.state = "RUN_WAR" /\ ~compState.abort /\ ~MoreWars
  /\ compState' = NoCompState
  /\ page' = PageCompetitionEnd(page)
  /\ frames' = frames - 1
  /\ UNCHANGED <<currentWar, speed, seed, seedText, loop>>

(***************************************************************************)
(* How many rounds the frame runs.  In the debugger a positive speed runs  *)
(* several, a negative one waits for some frames between two rounds; a     *)
(* single step ignores the speed.                                          *)
(***************************************************************************)
(* A mutant: it waits without asking whether there is a frame to wait for. *)
Waiting_Always ==
  compState.isInDebugger /\ ~currentWar.isSingleRound /\ speed < 0

Waiting ==
  /\ compState.isInDebugger /\ ~currentWar.isSingleRound
  /\ speed < 0 /\ compState.waitedFrames > 0

StepsCount ==
  IF ~compState.isInDebugger THEN Forever
  ELSE IF speed > 1 /\ ~currentWar.isSingleRound THEN speed ELSE 1

StartsToWait ==
  compState.isInDebugger /\ ~currentWar.isSingleRound /\ speed < 0

InWarFrame == FrameDue /\ compState.state = "RUN_ROUND" /\ ~compState.abort

FrameRunsRounds ==
  /\ InWarFrame /\ ~Waiting
  /\ compState' = IF StartsToWait
                  THEN [compState EXCEPT !.waitedFrames = -speed]
                  ELSE compState
  /\ loop' = StepsCount
  /\ frames' = frames - 1
  /\ UNCHANGED <<currentWar, speed, seed, seedText, page>>

(* A war in the debugger that has ended and has nobody left.               *)
NoneAlive(w) == compState.isInDebugger /\ w.hasEnded /\ w.numAlive = 0

(* A mutant: the frame waited for is not counted.                          *)
FrameWaits_Uncounted ==
  /\ InWarFrame /\ Waiting
  /\ frames' = IF NoneAlive(currentWar) THEN frames - 1 ELSE frames
  /\ page' = IF NoneAlive(currentWar) THEN PageNoneAlive(page) ELSE page
  /\ UNCHANGED <<compState, currentWar, speed, seed, seedText, loop>>

FrameWaits ==
  /\ InWarFrame /\ Waiting
  /\ compState' = [compState EXCEPT !.waitedFrames = @ - 1]
  /\ frames' = IF NoneAlive(currentWar) THEN frames - 1 ELSE frames
  /\ page' = IF NoneAlive(currentWar) THEN PageNoneAlive(page) ELSE page
  /\ UNCHANGED <<currentWar, speed, seed, seedText, loop>>

Frame ==
  \/ FrameOnNothing \/ FrameAborts \/ FrameStartsWar \/ FrameFailsToStartWar
  \/ FrameFindsNoGroup \/ FrameEndsCompetition \/ FrameRunsRounds \/ FrameWaits

-----------------------------------------------------------------------------
(***************************************************************************)
(* One turn of the loop: runRound.  deaths warriors die in the round and   *)
(* hit says whether the selected warrior reached a breakpoint, which only  *)
(* the debugger's wars look for.                                           *)
(***************************************************************************)
CompStateAfterRound == [compState EXCEPT !.round = Bump(@, RoundTop)]

(* A mutant: the last two are as good as one.                              *)
FirstOver_LastTwo(w, deaths) == ~w.hasEnded /\ w.numAlive - deaths < 3

FirstOver(w, deaths) == ~w.hasEnded /\ w.numAlive - deaths < 2
Halts(w, hit) == w.isPaused \/ w.isSingleRound \/ hit
RoundsUp == compState.round + 1 >= MaxRound

(* A mutant: being paused is looked at before the end of the war.          *)
NeedMore_PausedFirst(w, deaths, hit) ==
  IF Halts(w, hit) THEN 0
  ELSE IF FirstOver(w, deaths) THEN -1
  ELSE IF RoundsUp THEN -1 ELSE 1

(* 1 to go on, 0 when paused, -1 when the war is done.                     *)
NeedMore(w, deaths, hit) ==
  IF FirstOver(w, deaths) THEN -1
  ELSE IF Halts(w, hit) THEN 0
  ELSE IF RoundsUp THEN -1 ELSE 1

(* A round uses up one of the clicks of "Single Round".                    *)
Owed(w) == IF ~w.isSingleRound THEN 0 ELSE IF w.owed > 0 THEN w.owed - 1 ELSE -1

(* Two mutants: a war that is over is not paused; a step does not pause.   *)
WarAfterRound_OverUnpaused(w, deaths, hit) ==
  [ w EXCEPT !.numAlive = @ - deaths, !.owed = Owed(w),
             !.isPaused = @ \/ NeedMore(w, deaths, hit) = 0 ]

WarAfterRound_StepUnpaused(w, deaths, hit) ==
  [ w EXCEPT !.numAlive = @ - deaths, !.owed = Owed(w),
             !.isPaused = @ \/ hit \/ NeedMore(w, deaths, hit) = -1 ]

(* Every way of not going on leaves the war paused.                        *)
WarAfterRound(w, deaths, hit) ==
  [ w EXCEPT !.numAlive = @ - deaths, !.owed = Owed(w),
             !.isPaused = @ \/ NeedMore(w, deaths, hit) # 1 ]

(* Only the last round of a debugger's frame is shown: onRound.            *)
PageAfterRound ==
  IF loop = 1 THEN [page EXCEPT !.btnPause = TRUE] ELSE page

RoundGoesOn(deaths, hit) ==
  /\ loop # 1 /\ NeedMore(currentWar, deaths, hit) = 1
  /\ currentWar' = WarAfterRound(currentWar, deaths, hit)
  /\ compState' = CompStateAfterRound
  /\ loop' = IF loop = Forever THEN Forever ELSE loop - 1
  /\ UNCHANGED <<speed, seed, seedText, frames, page>>

LeaveLoop(deaths, hit) ==
  /\ loop = 1 \/ NeedMore(currentWar, deaths, hit) # 1
  /\ loop' = 0
  /\ UNCHANGED speed

RoundLeavesNone(deaths, hit) ==
  LET w == WarAfterRound(currentWar, deaths, hit) IN
  /\ LeaveLoop(deaths, hit) /\ NoneAlive(w)
  /\ currentWar' = w
  /\ compState' = CompStateAfterRound
  /\ page' = PageNoneAlive(PageAfterRound)
  /\ UNCHANGED <<seed, seedText, frames>>

RoundPauses(deaths, hit) ==
  LET w == WarAfterRound(currentWar, deaths, hit) IN
  /\ LeaveLoop(deaths, hit) /\ ~NoneAlive(w)
  /\ NeedMore(currentWar, deaths, hit) = 0
  /\ currentWar' = w
  /\ compState' = CompStateAfterRound
  /\ page' = PagePaused(compState.isInDebugger, PageAfterRound)
  /\ UNCHANGED <<seed, seedText, frames>>

(* In compete mode the next frame starts the next war; the debugger keeps  *)
(* the war for stepping on and asks for no frame.                          *)
RoundEndsWar(deaths, hit) ==
  LET w == WarAfterRound(currentWar, deaths, hit) IN
  /\ LeaveLoop(deaths, hit) /\ ~NoneAlive(w)
  /\ NeedMore(currentWar, deaths, hit) = -1
  /\ currentWar' = EndedWar(CompStateAfterRound, w)
  /\ MoveSeed
  /\ page' = PageWarEnd(compState.isInDebugger, page)
  /\ IF compState.isInDebugger
     THEN /\ compState' = CountWar(CompStateAfterRound)
          /\ UNCHANGED frames
     ELSE /\ compState' = [CountWar(CompStateAfterRound) EXCEPT !.state = "RUN_WAR"]
          /\ frames' = frames + 1

RoundEndsFrame(deaths, hit) ==
  LET w == WarAfterRound(currentWar, deaths, hit) IN
  /\ LeaveLoop(deaths, hit) /\ ~NoneAlive(w)
  /\ NeedMore(currentWar, deaths, hit) = 1
  /\ currentWar' = w
  /\ compState' = CompStateAfterRound
  /\ page' = PageAfterRound
  /\ frames' = frames + 1
  /\ UNCHANGED <<seed, seedText>>

RunRound ==
  /\ loop # 0
  /\ \E deaths \in 0 .. currentWar.numAlive, hit \in BOOLEAN :
       /\ hit => compState.isInDebugger
       /\ \/ RoundGoesOn(deaths, hit)
          \/ RoundLeavesNone(deaths, hit)
          \/ RoundPauses(deaths, hit)
          \/ RoundEndsWar(deaths, hit)
          \/ RoundEndsFrame(deaths, hit)

-----------------------------------------------------------------------------
Next ==
  \/ StartDebug \/ StopDebug \/ StartCompete \/ StopCompete \/ TogglePanel
  \/ ClickPause \/ ClickResume \/ ClickSingleRound \/ SetSpeed
  \/ EditRegister \/ Frame \/ RunRound

(* The browser calls back every frame it was asked for, and a handler that *)
(* was entered runs to its end; the user owes nothing.                     *)
Fairness == WF_vars(Frame) /\ WF_vars(RunRound)

Spec == Init /\ [][Next]_vars
FairSpec == Spec /\ Fairness

-----------------------------------------------------------------------------
(***************************************************************************)
(* Safety.                                                                 *)
(***************************************************************************)

(* Nobody polls: continueRun is only ever called from a frame, so a run    *)
(* that asked for no frame stays where it is.  That must happen only when  *)
(* there is nothing to run, when the war is paused (the button asks for    *)
(* the frame), when loading a war failed, or when a war in the debugger    *)
(* has ended with nobody left.                                             *)
NoLostWakeup ==
  (Idle /\ frames = 0) =>
    \/ ~Running
    \/ currentWar.load = "failed"
    \/ compState.state = "RUN_ROUND"
         /\ (currentWar.isPaused \/ NoneAlive(currentWar))

(* In a running competition every war is decided and counted exactly once: *)
(* between two wars the last one has ended, points were given at most      *)
(* once, and no more wars are counted than were asked for.                 *)
WarsCountedOnce ==
  (Running /\ ~compState.isInDebugger) =>
    /\ currentWar.scored <= 1
    /\ compState.warIndex <= compState.wars
    /\ currentWar.load = "loaded" =>
         (currentWar.hasEnded <=> compState.state = "RUN_WAR")

(* A war of a competition that goes on or finishes by itself is left only  *)
(* when at most one warrior is alive or the round limit is reached (the    *)
(* user may also pause it, when the debugger's panel is still up).         *)
WarRunsToTheEnd ==
  (Running /\ ~compState.isInDebugger /\ currentWar.hasEnded) =>
    currentWar.numAlive < 2 \/ compState.round >= MaxRound

(* Outside the loop that runs rounds, a war in compete mode that is        *)
(* underway always has its survivors: it is over as soon as it can be.     *)
NoWarOutlivesItsEnd ==
  (Idle /\ Running /\ compState.state = "RUN_ROUND" /\ ~currentWar.hasEnded) =>
    currentWar.numAlive >= 2 \/ compState.round = 0

(* What the scorekeeper is promised: a competition in compete mode, seen   *)
(* through this mapping, is a Tournament.                                  *)
InCompetition == Running /\ ~compState.isInDebugger

T == INSTANCE Tournament WITH
  stage    <- IF ~Running THEN "closed"
              ELSE IF compState.isInDebugger THEN "debug"
              ELSE IF compState.state = "RUN_WAR" THEN "break" ELSE "war",
  left     <- IF InCompetition THEN compState.wars - compState.warIndex ELSE 0,
  awarded  <- IF InCompetition THEN currentWar.scored ELSE 0,
  stopping <- InCompetition /\ compState.abort

TournamentSpec == T!Spec

(***************************************************************************)
(* Liveness, under Fairness.                                               *)
(***************************************************************************)

(* A competition with a war that is loaded and not paused in the middle.   *)
(* (Loading may throw; and when the debugger's panel is still up, the user *)
(* can pause a war of a competition with its buttons.)                     *)
Underway ==
  /\ InCompetition /\ currentWar.load = "loaded"
  /\ compState.state = "RUN_ROUND" => ~currentWar.isPaused

(* A competition nobody interferes with comes to its end: it does not go   *)
(* on for ever, whatever is clicked meanwhile.                             *)
Competing == Underway /\ ~compState.abort

CompetitionConcludes == Competing ~> ~Competing

(* Stopping a competition ends it, unless the user starts another first.   *)
StopIsHonoured ==
  Underway /\ compState.abort ~> ~Running \/ ~compState.abort

(* A paused debugger comes to rest: the frames still pending run out, also *)
(* those that only wait because the speed is negative.                     *)
PauseSettles ==
  /\ Running /\ compState.isInDebugger /\ currentWar.isPaused
  ~> frames = 0 \/ ~currentWar.isPaused \/ ~compState.isInDebugger

(* A single step gives the control back: the war is paused again, unless   *)
(* the user resumes it or stops debugging.                                 *)
Stepping ==
  /\ Running /\ compState.isInDebugger /\ compState.state = "RUN_ROUND"
  /\ currentWar.isSingleRound /\ ~currentWar.isPaused

StepCompletes == Stepping ~> ~Stepping

-----------------------------------------------------------------------------
(***************************************************************************)
(* What the source says of itself and does not do.  Each of these quotes a *)
(* comment of the code, and TLC finds a behaviour that breaks it.          *)
(***************************************************************************)

(* Competition.java:207, an ended war can be stepped on, "don't tell that  *)
(* it's over every time, just on the time it ended first": in the debugger *)
(* the points of a war are given once.                                     *)
PointsGivenOnce ==
  (Running /\ compState.isInDebugger) => currentWar.scored <= 1

(* WarFrame.java:155, a single step requests a frame and "it'll be just    *)
(* one frame": one round per click.                                        *)
OneRoundPerStep == currentWar.isSingleRound => currentWar.owed >= 0

=============================================================================
