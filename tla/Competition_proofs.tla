------------------------- MODULE Competition_proofs -------------------------
(***************************************************************************)
(* Proofs about the run loop, for every round limit, number of wars,       *)
(* number of warriors, set of speeds and number of pending frames.         *)
(***************************************************************************)
EXTENDS Competition, TLAPS

USE CompetitionAssumption

-----------------------------------------------------------------------------
(* Types of the helpers. *)

LEMMA BumpType ==
  ASSUME NEW top \in Nat, NEW n \in 0 .. top
  PROVE  Bump(n, top) \in 0 .. top
  BY DEF Bump

LEMMA TopType == RoundTop \in Nat /\ IndexTop \in Nat /\ MaxRound \in 0 .. RoundTop
  BY DEF RoundTop, IndexTop

LEMMA EndedWarType ==
  ASSUME NEW cs, NEW w \in Wars
  PROVE  EndedWar(cs, w) \in Wars
<1>1. Bump(w.scored, 2) \in 0 .. 2
  BY BumpType DEF Wars
<1> QED
  BY <1>1 DEF EndedWar, Wars

LEMMA CountWarType ==
  ASSUME NEW cs \in CompStates
  PROVE  CountWar(cs) \in CompStates
<1>1. Bump(cs.warIndex, IndexTop) \in 0 .. IndexTop
  BY BumpType, TopType DEF CompStates
<1> QED
  BY <1>1 DEF CountWar, CompStates

LEMMA SeedType == seed \in Seeds => NextSeed \in Seeds
  BY DEF NextSeed, Seeds

LEMMA PageTypes ==
  ASSUME NEW p \in Pages, NEW debug \in BOOLEAN
  PROVE  /\ PageWarEnd(debug, p) \in Pages
         /\ PageCompetitionEnd(p) \in Pages
         /\ PageNoneAlive(p) \in Pages
         /\ PagePaused(debug, p) \in Pages
         /\ PageStarted(debug, p) \in Pages
  BY DEF PageWarEnd, PageCompetitionEnd, PageNoneAlive, PagePaused,
         PageStarted, Pages

LEMMA RoundTypes ==
  ASSUME TypeOK, NEW deaths \in 0 .. currentWar.numAlive, NEW hit \in BOOLEAN
  PROVE  /\ WarAfterRound(currentWar, deaths, hit) \in Wars
         /\ CompStateAfterRound \in CompStates
         /\ PageAfterRound \in Pages
<1>1. Bump(compState.round, RoundTop) \in 0 .. RoundTop
  BY BumpType, TopType DEF TypeOK, CompStates
<1>2. currentWar.numAlive - deaths \in 0 .. MaxWarriors
  BY DEF TypeOK, Wars
<1>3. WarAfterRound(currentWar, deaths, hit) \in Wars
  <2> DEFINE owed == Owed(currentWar)
             paused == currentWar.isPaused \/ NeedMore(currentWar, deaths, hit) # 1
  <2>1. owed \in -1 .. MaxFrames
    BY DEF Owed, TypeOK, Wars
  <2>2. paused \in BOOLEAN
    OBVIOUS
  <2>3. WarAfterRound(currentWar, deaths, hit)
          = [currentWar EXCEPT !.numAlive = currentWar.numAlive - deaths,
                               !.owed = owed, !.isPaused = paused]
    BY DEF WarAfterRound
  <2> HIDE DEF owed, paused
  <2> QED
    BY <1>2, <2>1, <2>2, <2>3 DEF TypeOK, Wars
<1>4. CompStateAfterRound \in CompStates
  BY <1>1 DEF CompStateAfterRound, TypeOK, CompStates
<1>5. PageAfterRound \in Pages
  BY DEF PageAfterRound, TypeOK, Pages
<1> QED
  BY <1>3, <1>4, <1>5

LEMMA StartTypes ==
  ASSUME NEW cs \in CompStates, NEW s \in Seeds
  PROVE  /\ StartWar(cs, s) => compState' \in CompStates /\ currentWar' \in Wars
         /\ StartWarThrows(cs, s) => compState' \in CompStates /\ currentWar' \in Wars
<1>1. ASSUME NEW n \in 0 .. MaxWarriors, NEW paused \in BOOLEAN,
             NEW load \in {"failed", "loaded"}
      PROVE  NewWar(load, n, paused, s) \in Wars
  BY DEF NewWar, Wars
<1>2. cs.fighters \in 0 .. MaxWarriors /\ cs.startPaused \in BOOLEAN
  BY DEF CompStates
<1>3. StartWar(cs, s) => compState' \in CompStates
  <2>1. 0 \in 0 .. RoundTop
    BY TopType
  <2> QED
    BY <2>1 DEF StartWar, CompStates
<1>4. StartWar(cs, s) => currentWar' \in Wars
  BY <1>1, <1>2 DEF StartWar
<1>5. StartWarThrows(cs, s) => currentWar' \in Wars
  BY <1>1, <1>2 DEF StartWarThrows
<1> QED
  BY <1>3, <1>4, <1>5 DEF StartWarThrows

LEMMA NewCompStateType ==
  ASSUME NEW debug \in BOOLEAN, NEW w \in 1 .. MaxWars, NEW n \in 1 .. MaxWarriors
  PROVE  NewCompState(debug, w, n) \in CompStates
  BY TopType DEF NewCompState, CompStates

LEMMA NoCompStateType ==
  NoCompState \in CompStates /\ NoCompState.state = "NULL"
<1>1. 1 \in 1 .. MaxWars /\ 1 \in 1 .. MaxWarriors
  OBVIOUS
<1>2. NewCompState(FALSE, 1, 1) \in CompStates
  BY <1>1, NewCompStateType
<1> QED
  BY <1>2 DEF NoCompState, CompStates

(***************************************************************************)
(* The loop variable: while rounds are being run, the frame that runs them *)
(* was taken off the queue, the competition was not asked to stop, and the *)
(* loop is counted in the debugger only.                                   *)
(***************************************************************************)
LoopInv ==
  loop # 0 =>
    /\ compState.state = "RUN_ROUND"
    /\ ~compState.abort
    /\ frames < MaxFrames
    /\ compState.isInDebugger => loop > 0
    /\ ~compState.isInDebugger => loop = Forever

LEMMA StartTypeOK ==
  ASSUME TypeOK, NEW debug \in BOOLEAN, Start(debug)
  PROVE  TypeOK'
<1>1. PICK s \in Seeds : \/ StartRefused(s) \/ StartThrows(debug, s)
                        \/ StartAccepted(debug, s)
                        \/ StartFailed(debug, s)
  BY DEF Start
<1>2. CASE StartRefused(s) \/ StartThrows(debug, s)
  <2>1. RepositoryOnly(s)
    BY <1>2 DEF StartRefused, StartThrows
  <2>2. compState' \in CompStates
    BY <2>1 DEF RepositoryOnly, TypeOK, CompStates
  <2>3. page' \in Pages
    BY <1>2 DEF StartRefused, StartThrows, TypeOK, Pages
  <2> QED
    BY <2>1, <2>2, <2>3 DEF RepositoryOnly, TakeSeed, TypeOK
<1>3. CASE StartAccepted(debug, s)
  <2>1. PICK w \in 1 .. MaxWars, n \in 1 .. MaxWarriors :
          StartWar(NewCompState(debug, w, n), s)
    BY <1>3 DEF StartAccepted
  <2>2. compState' \in CompStates /\ currentWar' \in Wars
    BY <2>1, NewCompStateType, StartTypes
  <2>3. frames' \in 0 .. MaxFrames
    BY <1>3 DEF StartAccepted, TypeOK
  <2>4. page' \in Pages
    BY <1>3, PageTypes DEF StartAccepted, TypeOK
  <2> QED
    BY <1>3, <2>2, <2>3, <2>4 DEF StartAccepted, TakeSeed, TypeOK
<1>4. CASE StartFailed(debug, s)
  <2>1. PICK w \in 1 .. MaxWars, n \in 1 .. MaxWarriors :
          StartWarThrows(NewCompState(debug, w, n), s)
    BY <1>4 DEF StartFailed
  <2>2. compState' \in CompStates /\ currentWar' \in Wars
    BY <2>1, NewCompStateType, StartTypes
  <2>3. page' \in Pages
    BY <1>4 DEF StartFailed, TypeOK, Pages
  <2> QED
    BY <1>4, <2>2, <2>3 DEF StartFailed, TakeSeed, TypeOK
<1> QED
  BY <1>1, <1>2, <1>3, <1>4

LEMMA ClickTypeOK ==
  ASSUME TypeOK,
         \/ StopDebug \/ StopCompete \/ TogglePanel
         \/ ClickPause \/ ClickResume \/ ClickSingleRound \/ SetSpeed
         \/ EditRegister
  PROVE  TypeOK'
<1>1. CASE StopDebug
  BY <1>1 DEF StopDebug, SetAbort, TypeOK, CompStates, Pages
<1>2. CASE StopCompete
  BY <1>2 DEF StopCompete, SetAbort, TypeOK, CompStates, Pages
<1>3. CASE TogglePanel
  <2>1. (~page.panel) \in BOOLEAN
    OBVIOUS
  <2> QED
    BY <1>3, <2>1 DEF TogglePanel, TypeOK, Pages
<1>4. CASE ClickPause
  BY <1>4 DEF ClickPause, TypeOK, Wars, Pages
<1>5. CASE ClickResume
  <2>1. currentWar' \in Wars
    <3>1. 0 \in -1 .. MaxFrames
      OBVIOUS
    <3>2. currentWar' = [currentWar EXCEPT !.isPaused = FALSE,
                            !.isSingleRound = FALSE, !.owed = 0]
      BY <1>5 DEF ClickResume
    <3> QED
      BY <3>1, <3>2 DEF TypeOK, Wars
  <2>2. page' \in Pages
    BY <1>5 DEF ClickResume, TypeOK, Pages
  <2> QED
    BY <1>5, <2>1, <2>2 DEF ClickResume, TypeOK
<1>6. CASE ClickSingleRound
  <2> DEFINE owed == IF currentWar.isSingleRound
                     THEN Bump(currentWar.owed, MaxFrames) ELSE 1
  <2>1. owed \in -1 .. MaxFrames
    BY DEF Bump, TypeOK, Wars
  <2>2. currentWar' = [currentWar EXCEPT !.isPaused = FALSE,
                          !.isSingleRound = TRUE, !.owed = owed]
    BY <1>6 DEF ClickSingleRound
  <2> HIDE DEF owed
  <2>3. currentWar' \in Wars
    BY <2>1, <2>2 DEF TypeOK, Wars
  <2> QED
    BY <1>6, <2>3 DEF ClickSingleRound, TypeOK
<1>7. CASE SetSpeed
  BY <1>7 DEF SetSpeed, TypeOK
<1>8. CASE EditRegister
  BY <1>8 DEF EditRegister, TypeOK, Pages
<1> QED
  BY <1>1, <1>2, <1>3, <1>4, <1>5, <1>6, <1>7, <1>8

LEMMA FrameTypeOK ==
  ASSUME TypeOK, Frame
  PROVE  TypeOK'
<1> USE DEF FrameDue, InWarFrame
<1>0. frames > 0 => frames - 1 \in 0 .. MaxFrames
  BY DEF TypeOK
<1>1. CASE FrameOnNothing
  BY <1>0, <1>1 DEF FrameOnNothing, TypeOK
<1>2. CASE FrameAborts
  <2>1. currentWar' \in Wars
    BY <1>2, EndedWarType DEF FrameAborts, TypeOK
  <2>2. compState' \in CompStates
    BY <1>2, NoCompStateType DEF FrameAborts
  <2>3. page' \in Pages
    BY <1>2, PageTypes DEF FrameAborts, TypeOK, CompStates
  <2> QED
    BY <1>0, <1>2, <2>1, <2>2, <2>3, SeedType DEF FrameAborts, MoveSeed, TypeOK
<1>3. CASE FrameStartsWar
  <2>1. compState' \in CompStates /\ currentWar' \in Wars
    BY <1>3, StartTypes DEF FrameStartsWar, TypeOK
  <2>2. page' \in Pages
    <3> DEFINE single == page.btnSingleRound \/ compState.startPaused
    <3>1. single \in BOOLEAN
      OBVIOUS
    <3>2. page' = IF compState.isInDebugger
                  THEN [page EXCEPT !.cpuPanel = TRUE, !.btnSingleRound = single]
                  ELSE page
      BY <1>3 DEF FrameStartsWar
    <3> HIDE DEF single
    <3> QED
      BY <3>1, <3>2 DEF TypeOK, Pages
  <2> QED
    BY <1>0, <1>3, <2>1, <2>2 DEF FrameStartsWar, WarIsNext, FrameDue, TypeOK
<1>4. CASE FrameFailsToStartWar
  <2>1. compState' \in CompStates /\ currentWar' \in Wars
    BY <1>4, StartTypes DEF FrameFailsToStartWar, TypeOK
  <2> QED
    BY <1>0, <1>4, <2>1 DEF FrameFailsToStartWar, WarIsNext, FrameDue, TypeOK
<1>8. CASE FrameFindsNoGroup
  <2>1. currentWar' \in Wars
    BY <1>8 DEF FrameFindsNoGroup, TypeOK, Wars
  <2> QED
    BY <1>0, <1>8, <2>1 DEF FrameFindsNoGroup, WarIsNext, FrameDue, TypeOK
<1>5. CASE FrameEndsCompetition
  <2>1. compState' \in CompStates
    BY <1>5, NoCompStateType DEF FrameEndsCompetition
  <2>2. page' \in Pages
    BY <1>5, PageTypes DEF FrameEndsCompetition, TypeOK
  <2> QED
    BY <1>0, <1>5, <2>1, <2>2 DEF FrameEndsCompetition, TypeOK
<1>6. CASE FrameRunsRounds
  <2>1. compState' \in CompStates
    <3>1. StartsToWait => -speed \in Nat
      BY DEF StartsToWait, TypeOK
    <3> QED
      BY <1>6, <3>1 DEF FrameRunsRounds, TypeOK, CompStates
  <2>2. loop' \in Int
    BY <1>6 DEF FrameRunsRounds, StepsCount, Forever, TypeOK
  <2> QED
    BY <1>0, <1>6, <2>1, <2>2 DEF FrameRunsRounds, TypeOK
<1>7. CASE FrameWaits
  <2>1. compState' \in CompStates
    <3>1. compState.waitedFrames - 1 \in Nat
      BY <1>7 DEF FrameWaits, Waiting, TypeOK, CompStates
    <3> QED
      BY <1>7, <3>1 DEF FrameWaits, TypeOK, CompStates
  <2>2. page' \in Pages
    BY <1>7, PageTypes DEF FrameWaits, TypeOK
  <2> QED
    BY <1>0, <1>7, <2>1, <2>2 DEF FrameWaits, TypeOK
<1> QED
  BY <1>1, <1>2, <1>3, <1>4, <1>5, <1>6, <1>7, <1>8 DEF Frame

LEMMA RoundTypeOK ==
  ASSUME TypeOK, LoopInv, RunRound
  PROVE  TypeOK'
<1>1. PICK deaths \in 0 .. currentWar.numAlive, hit \in BOOLEAN :
        \/ RoundGoesOn(deaths, hit)
        \/ RoundLeavesNone(deaths, hit)
        \/ RoundPauses(deaths, hit)
        \/ RoundEndsWar(deaths, hit)
        \/ RoundEndsFrame(deaths, hit)
  BY DEF RunRound
<1>2. /\ WarAfterRound(currentWar, deaths, hit) \in Wars
      /\ CompStateAfterRound \in CompStates
      /\ PageAfterRound \in Pages
  BY RoundTypes
<1>3. frames + 1 \in 0 .. MaxFrames
  BY DEF RunRound, LoopInv, TypeOK
<1>4. compState.isInDebugger \in BOOLEAN
  BY DEF TypeOK, CompStates
<1>5. CASE RoundGoesOn(deaths, hit)
  BY <1>2, <1>5 DEF RoundGoesOn, Forever, TypeOK
<1>6. CASE RoundLeavesNone(deaths, hit)
  <2>1. page' \in Pages
    BY <1>2, <1>6, PageTypes DEF RoundLeavesNone
  <2> QED
    BY <1>2, <1>6, <2>1 DEF RoundLeavesNone, LeaveLoop, TypeOK
<1>7. CASE RoundPauses(deaths, hit)
  <2>1. page' \in Pages
    BY <1>2, <1>4, <1>7, PageTypes DEF RoundPauses
  <2> QED
    BY <1>2, <1>7, <2>1 DEF RoundPauses, LeaveLoop, TypeOK
<1>8. CASE RoundEndsWar(deaths, hit)
  <2>1. currentWar' \in Wars
    BY <1>2, <1>8, EndedWarType DEF RoundEndsWar
  <2>2. CountWar(CompStateAfterRound) \in CompStates
    BY <1>2, CountWarType
  <2>3. compState' \in CompStates
    BY <1>8, <2>2 DEF RoundEndsWar, CompStates
  <2>4. page' \in Pages
    BY <1>4, <1>8, PageTypes DEF RoundEndsWar, TypeOK
  <2>5. frames' \in 0 .. MaxFrames
    BY <1>3, <1>8 DEF RoundEndsWar, TypeOK
  <2> QED
    BY <1>8, <2>1, <2>3, <2>4, <2>5, SeedType
       DEF RoundEndsWar, LeaveLoop, MoveSeed, TypeOK
<1>9. CASE RoundEndsFrame(deaths, hit)
  BY <1>2, <1>3, <1>9 DEF RoundEndsFrame, LeaveLoop, TypeOK
<1> QED
  BY <1>1, <1>5, <1>6, <1>7, <1>8, <1>9

-----------------------------------------------------------------------------
(***************************************************************************)
(* The inductive invariant.  CompeteInv is what a competition in compete   *)
(* mode adds: which wars have ended and been counted in which state.       *)
(***************************************************************************)
CompeteInv ==
  InCompetition =>
    /\ compState.state = "RUN_ROUND" =>
         /\ ~currentWar.hasEnded
         /\ currentWar.scored = 0
         /\ compState.warIndex < compState.wars
    /\ compState.state = "RUN_WAR" =>
         /\ compState.warIndex <= compState.wars
         /\ currentWar.scored <= 1
         /\ currentWar.load = "loaded" => currentWar.hasEnded

RunInv ==
  LoopInv /\ NoLostWakeup /\ CompeteInv /\ WarRunsToTheEnd /\ NoWarOutlivesItsEnd

LEMMA StartWarFields ==
  ASSUME NEW cs \in CompStates, NEW s \in Seeds, StartWar(cs, s)
  PROVE  /\ currentWar'.load = "loaded" /\ currentWar'.hasEnded = FALSE
         /\ currentWar'.scored = 0
         /\ currentWar'.isPaused = cs.startPaused
         /\ compState'.state = "RUN_ROUND" /\ compState'.round = 0
         /\ compState'.isInDebugger = cs.isInDebugger
         /\ compState'.abort = cs.abort
         /\ compState'.warIndex = cs.warIndex
         /\ compState'.wars = cs.wars
<1>1. /\ currentWar'.load = "loaded" /\ currentWar'.hasEnded = FALSE
      /\ currentWar'.scored = 0 /\ currentWar'.isPaused = cs.startPaused
  BY DEF StartWar, NewWar
<1>2. compState' = [cs EXCEPT !.state = "RUN_ROUND", !.round = 0,
                              !.startPaused = FALSE]
  BY DEF StartWar
<1> QED
  BY <1>1, <1>2 DEF CompStates

LEMMA FailedWarFields ==
  ASSUME NEW cs \in CompStates, NEW s \in Seeds, StartWarThrows(cs, s)
  PROVE  /\ currentWar'.load = "failed" /\ currentWar'.hasEnded = FALSE
         /\ currentWar'.scored = 0
         /\ compState' = cs
  BY DEF StartWarThrows, NewWar

LEMMA DoneWarFields ==
  ASSUME NEW cs \in CompStates, NEW w \in Wars
  PROVE  /\ EndedWar(cs, w).load = w.load
         /\ EndedWar(cs, w).numAlive = w.numAlive
         /\ EndedWar(cs, w).isPaused = w.isPaused
         /\ EndedWar(cs, w).hasEnded
         /\ w.scored = 0 => EndedWar(cs, w).scored \in 0 .. 1
         /\ CountWar(cs).state = cs.state
         /\ CountWar(cs).isInDebugger = cs.isInDebugger
         /\ CountWar(cs).wars = cs.wars
         /\ CountWar(cs).round = cs.round
         /\ CountWar(cs).abort = cs.abort
         /\ cs.warIndex < cs.wars => CountWar(cs).warIndex = cs.warIndex + 1
<1>1. w.scored = 0 => Bump(w.scored, 2) = 1
  BY DEF Bump
<1>2. cs.warIndex < cs.wars => Bump(cs.warIndex, IndexTop) = cs.warIndex + 1
  BY DEF Bump, IndexTop, CompStates
<1>3. EndedWar(cs, w).hasEnded = TRUE
  BY DEF EndedWar, Wars
<1>4. w.scored = 0 => EndedWar(cs, w).scored \in 0 .. 1
  BY <1>1 DEF EndedWar, Wars
<1> QED
  BY <1>2, <1>3, <1>4 DEF EndedWar, CountWar, Wars, CompStates

LEMMA AfterRoundFields ==
  ASSUME TypeOK, NEW deaths \in 0 .. currentWar.numAlive, NEW hit \in BOOLEAN
  PROVE  /\ CompStateAfterRound.state = compState.state
         /\ CompStateAfterRound.isInDebugger = compState.isInDebugger
         /\ CompStateAfterRound.abort = compState.abort
         /\ CompStateAfterRound.wars = compState.wars
         /\ CompStateAfterRound.warIndex = compState.warIndex
         /\ RoundsUp => CompStateAfterRound.round >= MaxRound
         /\ WarAfterRound(currentWar, deaths, hit).load = currentWar.load
         /\ WarAfterRound(currentWar, deaths, hit).hasEnded = currentWar.hasEnded
         /\ WarAfterRound(currentWar, deaths, hit).scored = currentWar.scored
         /\ WarAfterRound(currentWar, deaths, hit).numAlive = currentWar.numAlive - deaths
         /\ NeedMore(currentWar, deaths, hit) # 1 =>
              WarAfterRound(currentWar, deaths, hit).isPaused
<1>1. RoundsUp => Bump(compState.round, RoundTop) >= MaxRound
  BY DEF RoundsUp, Bump, RoundTop, TypeOK, CompStates
<1>2. CompStateAfterRound.round = Bump(compState.round, RoundTop)
  BY DEF CompStateAfterRound, TypeOK, CompStates
<1>3. NeedMore(currentWar, deaths, hit) # 1 =>
        WarAfterRound(currentWar, deaths, hit).isPaused = TRUE
  BY DEF WarAfterRound, TypeOK, Wars
<1> QED
  BY <1>1, <1>2, <1>3 DEF CompStateAfterRound, WarAfterRound, TypeOK, CompStates, Wars

LEMMA RefusedFields ==
  ASSUME TypeOK, NEW s \in Seeds, NEW debug \in BOOLEAN,
         StartRefused(s) \/ StartThrows(debug, s)
  PROVE  /\ compState'.state = compState.state
         /\ compState'.isInDebugger = compState.isInDebugger
         /\ compState'.warIndex = compState.warIndex
         /\ compState'.wars = compState.wars
         /\ compState'.abort = compState.abort
         /\ compState'.round = compState.round
         /\ currentWar' = currentWar /\ loop' = loop /\ frames' = frames
<1>1. RepositoryOnly(s)
  BY DEF StartRefused, StartThrows
<1> QED
  BY <1>1 DEF RepositoryOnly, TypeOK, CompStates

LEMMA StartRunInv ==
  ASSUME TypeOK, RunInv, Idle, NEW debug \in BOOLEAN, Start(debug)
  PROVE  RunInv'
<1>1. PICK s \in Seeds : \/ StartRefused(s) \/ StartThrows(debug, s)
                        \/ StartAccepted(debug, s)
                        \/ StartFailed(debug, s)
  BY DEF Start
<1>2. CASE StartRefused(s) \/ StartThrows(debug, s)
  BY <1>2, RefusedFields DEF RunInv, LoopInv, NoLostWakeup, CompeteInv,
       WarRunsToTheEnd, NoWarOutlivesItsEnd, InCompetition, Idle, Running, NoneAlive
<1>3. CASE StartAccepted(debug, s)
  <2>1. PICK w \in 1 .. MaxWars, n \in 1 .. MaxWarriors :
          StartWar(NewCompState(debug, w, n), s)
    BY <1>3 DEF StartAccepted
  <2>2. NewCompState(debug, w, n) \in CompStates
    BY NewCompStateType
  <2>3. /\ currentWar'.load = "loaded" /\ currentWar'.hasEnded = FALSE
        /\ currentWar'.scored = 0
        /\ currentWar'.isPaused = debug
        /\ compState'.state = "RUN_ROUND" /\ compState'.round = 0
        /\ compState'.isInDebugger = debug
        /\ compState'.abort = FALSE
        /\ compState'.warIndex = 0
        /\ compState'.wars = w
    BY <2>1, <2>2, StartWarFields DEF NewCompState
  <2>4. loop' = 0 /\ (~debug => frames' > 0)
    BY <1>3 DEF StartAccepted, Idle, TypeOK
  <2> QED
    BY <2>3, <2>4 DEF RunInv, LoopInv, NoLostWakeup, CompeteInv,
         WarRunsToTheEnd, NoWarOutlivesItsEnd, InCompetition, Idle, Running
<1>4. CASE StartFailed(debug, s)
  <2>1. PICK w \in 1 .. MaxWars, n \in 1 .. MaxWarriors :
          StartWarThrows(NewCompState(debug, w, n), s)
    BY <1>4 DEF StartFailed
  <2>2. NewCompState(debug, w, n) \in CompStates
    BY NewCompStateType
  <2>3. /\ currentWar'.load = "failed" /\ currentWar'.hasEnded = FALSE
        /\ currentWar'.scored = 0
        /\ compState'.state = "RUN_WAR"
        /\ compState'.warIndex = 0
        /\ compState'.wars = w
    <3>1. /\ currentWar'.load = "failed" /\ currentWar'.hasEnded = FALSE
          /\ currentWar'.scored = 0
          /\ compState' = NewCompState(debug, w, n)
      BY <2>1, <2>2, FailedWarFields
    <3> QED
      BY <3>1 DEF NewCompState
  <2>4. loop' = 0
    BY <1>4 DEF StartFailed, Idle
  <2> QED
    BY <2>3, <2>4 DEF RunInv, LoopInv, NoLostWakeup, CompeteInv,
         WarRunsToTheEnd, NoWarOutlivesItsEnd, InCompetition, Idle, Running
<1> QED
  BY <1>1, <1>2, <1>3, <1>4

LEMMA ClickFields ==
  ASSUME TypeOK, ClickPause \/ ClickResume \/ ClickSingleRound
  PROVE  /\ currentWar'.load = currentWar.load
         /\ currentWar'.hasEnded = currentWar.hasEnded
         /\ currentWar'.scored = currentWar.scored
         /\ currentWar'.numAlive = currentWar.numAlive
<1>1. CASE ClickPause
  BY <1>1 DEF ClickPause, TypeOK, Wars
<1>2. CASE ClickResume
  BY <1>2 DEF ClickResume, TypeOK, Wars
<1>3. CASE ClickSingleRound
  <2> DEFINE clicks == IF currentWar.isSingleRound
                       THEN Bump(currentWar.owed, MaxFrames) ELSE 1
  <2>1. currentWar' = [currentWar EXCEPT !.isPaused = FALSE,
                         !.isSingleRound = TRUE, !.owed = clicks]
    BY <1>3 DEF ClickSingleRound, TypeOK, Wars
  <2> HIDE DEF clicks
  <2> QED
    BY <2>1 DEF TypeOK, Wars
<1> QED
  BY <1>1, <1>2, <1>3

(* The buttons that start nothing: what RunInv looks at either stays, or   *)
(* is the pause flag being set, or a frame is requested with it.           *)
LEMMA ClickRunInv ==
  ASSUME TypeOK, RunInv,
         \/ StopDebug \/ StopCompete \/ TogglePanel \/ ClickPause
         \/ ClickResume \/ ClickSingleRound \/ SetSpeed \/ EditRegister
  PROVE  RunInv'
<1>1. CASE StopDebug \/ StopCompete
  <2>1. /\ compState'.state = compState.state
        /\ compState'.isInDebugger = compState.isInDebugger
        /\ compState'.warIndex = compState.warIndex
        /\ compState'.wars = compState.wars
        /\ compState'.round = compState.round
    BY <1>1 DEF StopDebug, StopCompete, SetAbort, TypeOK, CompStates
  <2>2. loop = 0 /\ loop' = 0 /\ frames' = frames /\ currentWar' = currentWar
    BY <1>1 DEF StopDebug, StopCompete, Idle
  <2> QED
    BY <2>1, <2>2 DEF RunInv, LoopInv, NoLostWakeup, CompeteInv,
         WarRunsToTheEnd, NoWarOutlivesItsEnd, InCompetition, Idle, Running, NoneAlive
<1>2. CASE TogglePanel \/ SetSpeed \/ EditRegister
  BY <1>2 DEF TogglePanel, SetSpeed, EditRegister, RunInv, LoopInv, NoLostWakeup, CompeteInv,
         WarRunsToTheEnd, NoWarOutlivesItsEnd, InCompetition, Idle, Running, NoneAlive
<1>3. CASE ClickPause \/ ClickResume \/ ClickSingleRound
  <2>1. /\ currentWar'.load = currentWar.load
        /\ currentWar'.hasEnded = currentWar.hasEnded
        /\ currentWar'.scored = currentWar.scored
        /\ currentWar'.numAlive = currentWar.numAlive
    BY <1>3, ClickFields
  <2>2. loop = 0 /\ loop' = 0 /\ compState' = compState
    BY <1>3 DEF ClickPause, ClickResume, ClickSingleRound, Idle
  <2>3. frames' > 0 \/ (frames' = frames /\ currentWar'.isPaused = TRUE)
    BY <1>3 DEF ClickPause, ClickResume, ClickSingleRound, TypeOK, Wars
  <2>4. NoLostWakeup'
    BY <2>1, <2>2, <2>3 DEF RunInv, NoLostWakeup, Idle, Running, NoneAlive
  <2> QED
    BY <2>1, <2>2, <2>4 DEF RunInv, LoopInv, CompeteInv,
         WarRunsToTheEnd, NoWarOutlivesItsEnd, InCompetition, Idle, Running
<1> QED
  BY <1>1, <1>2, <1>3

LEMMA FrameRunInv ==
  ASSUME TypeOK, RunInv, Frame
  PROVE  RunInv'
<1>1. /\ loop = 0 /\ frames > 0
      /\ seed \in Seeds /\ compState \in CompStates /\ currentWar \in Wars
  BY DEF Frame, FrameOnNothing, FrameAborts, FrameStartsWar,
       FrameFailsToStartWar, FrameFindsNoGroup, FrameEndsCompetition,
       FrameRunsRounds, FrameWaits, WarIsNext, InWarFrame, FrameDue, Idle, TypeOK
<1>2. CASE FrameOnNothing
  BY <1>1, <1>2 DEF FrameOnNothing, RunInv, LoopInv, NoLostWakeup, CompeteInv,
       WarRunsToTheEnd, NoWarOutlivesItsEnd, InCompetition, Idle, Running
<1>3. CASE FrameAborts \/ FrameEndsCompetition
  <2>1. compState'.state = "NULL"
    BY <1>3, NoCompStateType DEF FrameAborts, FrameEndsCompetition
  <2>2. loop' = 0
    BY <1>1, <1>3 DEF FrameAborts, FrameEndsCompetition
  <2> QED
    BY <2>1, <2>2 DEF RunInv, LoopInv, NoLostWakeup, CompeteInv,
         WarRunsToTheEnd, NoWarOutlivesItsEnd, InCompetition, Running
<1>4. CASE FrameStartsWar
  <2>1. StartWar(compState, seed)
    BY <1>4 DEF FrameStartsWar
  <2>2. /\ currentWar'.load = "loaded" /\ currentWar'.hasEnded = FALSE
        /\ currentWar'.scored = 0
        /\ currentWar'.isPaused = compState.startPaused
        /\ compState'.state = "RUN_ROUND" /\ compState'.round = 0
        /\ compState'.isInDebugger = compState.isInDebugger
        /\ compState'.warIndex = compState.warIndex
        /\ compState'.wars = compState.wars
    BY <1>1, <2>1, StartWarFields
  <2>3. /\ loop' = 0 /\ compState.warIndex < compState.wars
        /\ compState.startPaused \/ frames' > 0
    BY <1>1, <1>4 DEF FrameStartsWar, WarIsNext, MoreWars
  <2>4. NoLostWakeup'
    BY <2>2, <2>3 DEF NoLostWakeup, Running
  <2> QED
    BY <2>2, <2>3, <2>4 DEF RunInv, LoopInv, CompeteInv,
         WarRunsToTheEnd, NoWarOutlivesItsEnd, InCompetition
<1>5. CASE FrameFailsToStartWar
  <2>1. StartWarThrows(compState, seed) /\ loop' = 0
    BY <1>1, <1>5 DEF FrameFailsToStartWar
  <2>2. /\ currentWar'.load = "failed" /\ currentWar'.hasEnded = FALSE
        /\ currentWar'.scored = 0
        /\ compState' = compState
    BY <1>1, <2>1, FailedWarFields
  <2>3. compState.state = "RUN_WAR" /\ compState.warIndex < compState.wars
    BY <1>5 DEF FrameFailsToStartWar, WarIsNext, MoreWars
  <2> QED
    BY <1>1, <2>1, <2>2, <2>3 DEF RunInv, LoopInv, NoLostWakeup, CompeteInv,
         WarRunsToTheEnd, NoWarOutlivesItsEnd, InCompetition, CompStates
<1>6. CASE FrameRunsRounds
  <2>1. /\ compState'.state = compState.state
        /\ compState'.isInDebugger = compState.isInDebugger
        /\ compState'.abort = compState.abort
        /\ compState'.warIndex = compState.warIndex
        /\ compState'.wars = compState.wars
        /\ compState'.round = compState.round
    BY <1>1, <1>6 DEF FrameRunsRounds, CompStates
  <2>2. compState.state = "RUN_ROUND" /\ ~compState.abort
    BY <1>6 DEF FrameRunsRounds, InWarFrame
  <2>3. frames' < MaxFrames
    BY <1>1, <1>6 DEF FrameRunsRounds, TypeOK
  <2>4. /\ compState.isInDebugger => loop' > 0
        /\ ~compState.isInDebugger => loop' = Forever
    BY <1>1, <1>6 DEF FrameRunsRounds, StepsCount, TypeOK
  <2>5. loop' # 0
    BY <2>4 DEF Forever
  <2>6. LoopInv' /\ NoLostWakeup' /\ NoWarOutlivesItsEnd'
    BY <2>1, <2>2, <2>3, <2>4, <2>5
       DEF LoopInv, NoLostWakeup, NoWarOutlivesItsEnd, Idle
  <2>7. currentWar' = currentWar
    BY <1>6 DEF FrameRunsRounds
  <2>8. CompeteInv' /\ WarRunsToTheEnd'
    BY <2>1, <2>7 DEF RunInv, CompeteInv, WarRunsToTheEnd, InCompetition, Running
  <2> QED
    BY <2>6, <2>8 DEF RunInv
<1>7. CASE FrameWaits
  <2>1. /\ compState'.state = compState.state
        /\ compState'.isInDebugger = compState.isInDebugger
        /\ compState'.warIndex = compState.warIndex
        /\ compState'.wars = compState.wars
        /\ compState'.round = compState.round
    BY <1>1, <1>7 DEF FrameWaits, CompStates
  <2>2. loop' = 0 /\ currentWar' = currentWar
    BY <1>1, <1>7 DEF FrameWaits
  <2>3. /\ compState.state = "RUN_ROUND"
        /\ NoneAlive(currentWar) \/ frames' > 0
    BY <1>1, <1>7 DEF FrameWaits, InWarFrame
  <2>4. NoLostWakeup'
    BY <2>1, <2>2, <2>3 DEF NoLostWakeup, NoneAlive
  <2>5. CompeteInv' /\ WarRunsToTheEnd' /\ NoWarOutlivesItsEnd'
    BY <1>1, <2>1, <2>2 DEF RunInv, CompeteInv, WarRunsToTheEnd,
         NoWarOutlivesItsEnd, InCompetition, Running, Idle
  <2> QED
    BY <2>2, <2>4, <2>5 DEF RunInv, LoopInv
<1>8. CASE FrameFindsNoGroup
  <2>1. /\ currentWar'.load = "failed"
        /\ currentWar'.hasEnded = currentWar.hasEnded
        /\ currentWar'.scored = currentWar.scored
        /\ currentWar'.numAlive = currentWar.numAlive
    BY <1>1, <1>8 DEF FrameFindsNoGroup, Wars
  <2>2. compState' = compState /\ loop' = 0 /\ compState.state = "RUN_WAR"
    BY <1>1, <1>8 DEF FrameFindsNoGroup, WarIsNext
  <2> QED
    BY <2>1, <2>2 DEF RunInv, LoopInv, NoLostWakeup, CompeteInv,
         WarRunsToTheEnd, NoWarOutlivesItsEnd, InCompetition, Running
<1> QED
  BY <1>2, <1>3, <1>4, <1>5, <1>6, <1>7, <1>8 DEF Frame

LEMMA RoundRunInv ==
  ASSUME TypeOK, RunInv, RunRound
  PROVE  RunInv'
<1>1. PICK deaths \in 0 .. currentWar.numAlive, hit \in BOOLEAN :
        \/ RoundGoesOn(deaths, hit)
        \/ RoundLeavesNone(deaths, hit)
        \/ RoundPauses(deaths, hit)
        \/ RoundEndsWar(deaths, hit)
        \/ RoundEndsFrame(deaths, hit)
  BY DEF RunRound
<1> DEFINE cs == CompStateAfterRound
           w == WarAfterRound(currentWar, deaths, hit)
           more == NeedMore(currentWar, deaths, hit)
<1>2. /\ loop # 0 /\ loop \in Int
      /\ frames \in 0 .. MaxFrames
      /\ compState.state = "RUN_ROUND" /\ ~compState.abort
      /\ frames < MaxFrames
      /\ compState.isInDebugger => loop > 0
      /\ ~compState.isInDebugger => loop = Forever
  BY DEF RunRound, RunInv, LoopInv, TypeOK
<1>3. cs \in CompStates /\ w \in Wars /\ currentWar \in Wars
  BY RoundTypes DEF TypeOK
<1>4. /\ cs.state = compState.state
      /\ cs.isInDebugger = compState.isInDebugger
      /\ cs.abort = compState.abort
      /\ cs.wars = compState.wars
      /\ cs.warIndex = compState.warIndex
      /\ RoundsUp => cs.round >= MaxRound
      /\ w.load = currentWar.load
      /\ w.hasEnded = currentWar.hasEnded
      /\ w.scored = currentWar.scored
      /\ w.numAlive = currentWar.numAlive - deaths
      /\ more # 1 => w.isPaused
  BY AfterRoundFields
<1>5. ~compState.isInDebugger =>
        /\ ~currentWar.hasEnded
        /\ currentWar.scored = 0
        /\ compState.warIndex < compState.wars
  BY <1>2 DEF RunInv, CompeteInv, InCompetition, Running
<1>6. /\ more \in {-1, 0, 1}
      /\ more # -1 => currentWar.hasEnded \/ currentWar.numAlive - deaths >= 2
      /\ more = -1 => currentWar.numAlive - deaths < 2 \/ RoundsUp
  BY <1>3 DEF NeedMore, FirstOver, Wars
<1> HIDE DEF cs, w, more
<1>7. ASSUME currentWar' = w, compState' = cs
      PROVE  CompeteInv' /\ WarRunsToTheEnd'
  BY <1>2, <1>4, <1>5, <1>7
     DEF CompeteInv, WarRunsToTheEnd, InCompetition, Running
<1>8. CASE RoundGoesOn(deaths, hit)
  <2>1. currentWar' = w /\ compState' = cs /\ frames' = frames
    BY <1>8 DEF RoundGoesOn, w, cs
  <2>2. /\ compState.isInDebugger => loop' > 0
        /\ ~compState.isInDebugger => loop' = Forever
    BY <1>2, <1>8 DEF RoundGoesOn, Forever
  <2>3. loop' # 0
    BY <2>2 DEF Forever
  <2>4. LoopInv' /\ NoLostWakeup' /\ NoWarOutlivesItsEnd'
    BY <1>2, <1>4, <2>1, <2>2, <2>3
       DEF LoopInv, NoLostWakeup, NoWarOutlivesItsEnd, Idle
  <2> QED
    BY <1>7, <2>1, <2>4 DEF RunInv
<1>9. CASE RoundLeavesNone(deaths, hit)
  <2>1. currentWar' = w /\ compState' = cs /\ loop' = 0
    BY <1>9 DEF RoundLeavesNone, LeaveLoop, w, cs
  <2>2. w.numAlive = 0 /\ w.hasEnded /\ compState.isInDebugger
    BY <1>9 DEF RoundLeavesNone, NoneAlive, w
  <2>3. LoopInv' /\ NoLostWakeup' /\ NoWarOutlivesItsEnd'
    BY <1>2, <1>4, <2>1, <2>2
       DEF LoopInv, NoLostWakeup, NoWarOutlivesItsEnd, NoneAlive
  <2> QED
    BY <1>7, <2>1, <2>3 DEF RunInv
<1>10. CASE RoundPauses(deaths, hit)
  <2>1. currentWar' = w /\ compState' = cs /\ loop' = 0 /\ more = 0
    BY <1>10 DEF RoundPauses, LeaveLoop, w, cs, more
  <2>2. NoWarOutlivesItsEnd'
    BY <1>4, <1>6, <2>1 DEF NoWarOutlivesItsEnd
  <2>3. LoopInv' /\ NoLostWakeup'
    BY <1>2, <1>4, <2>1 DEF LoopInv, NoLostWakeup
  <2> QED
    BY <1>7, <2>1, <2>2, <2>3 DEF RunInv
<1>11. CASE RoundEndsWar(deaths, hit)
  <2>1. currentWar' = EndedWar(cs, w) /\ loop' = 0 /\ more = -1
    BY <1>11 DEF RoundEndsWar, LeaveLoop, w, cs, more
  <2>2. /\ currentWar'.numAlive = w.numAlive
        /\ currentWar'.isPaused = w.isPaused
        /\ currentWar'.hasEnded
        /\ w.scored = 0 => currentWar'.scored \in 0 .. 1
    BY <1>3, <2>1, DoneWarFields
  <2>3. /\ CountWar(cs).state = cs.state
        /\ CountWar(cs).isInDebugger = cs.isInDebugger
        /\ CountWar(cs).wars = cs.wars
        /\ CountWar(cs).round = cs.round
        /\ cs.warIndex < cs.wars => CountWar(cs).warIndex = cs.warIndex + 1
    BY <1>3, DoneWarFields
  <2>4. CountWar(cs) \in CompStates
    BY <1>3, CountWarType
  <2>5. CASE compState.isInDebugger
    <3>1. compState' = CountWar(cs)
      BY <1>11, <2>5 DEF RoundEndsWar, cs
    <3>2. currentWar'.isPaused
      <4>1. w.isPaused = TRUE
        BY <1>3, <1>4, <2>1 DEF Wars
      <4> QED
        BY <2>2, <4>1
    <3>3. LoopInv' /\ NoLostWakeup'
      BY <1>2, <1>4, <2>1, <2>3, <3>1, <3>2 DEF LoopInv, NoLostWakeup
    <3>4. CompeteInv' /\ WarRunsToTheEnd'
      BY <1>4, <2>3, <2>5, <3>1 DEF CompeteInv, WarRunsToTheEnd, InCompetition
    <3>5. NoWarOutlivesItsEnd'
      BY <2>2 DEF NoWarOutlivesItsEnd
    <3> QED
      BY <3>3, <3>4, <3>5 DEF RunInv
  <2>6. CASE ~compState.isInDebugger
    <3>1. compState' = [CountWar(cs) EXCEPT !.state = "RUN_WAR"]
      BY <1>11, <2>6 DEF RoundEndsWar, cs
    <3>2. /\ compState'.state = "RUN_WAR"
          /\ compState'.warIndex = compState.warIndex + 1
          /\ compState'.wars = compState.wars
          /\ compState'.round = cs.round
      BY <1>4, <1>5, <2>3, <2>4, <2>6, <3>1 DEF CompStates
    <3>3. frames' > 0
      BY <1>2, <1>11, <2>6 DEF RoundEndsWar
    <3>4. CompeteInv'
      <4>1. compState'.warIndex <= compState'.wars
        BY <1>5, <2>6, <3>2 DEF TypeOK, CompStates
      <4> QED
        BY <1>4, <1>5, <2>2, <2>6, <3>2, <4>1 DEF CompeteInv
    <3>5. WarRunsToTheEnd'
      BY <1>4, <1>6, <2>1, <2>2, <3>2 DEF WarRunsToTheEnd
    <3> QED
      BY <2>1, <2>2, <3>2, <3>3, <3>4, <3>5
         DEF RunInv, LoopInv, NoLostWakeup, NoWarOutlivesItsEnd
  <2> QED
    BY <2>5, <2>6
<1>12. CASE RoundEndsFrame(deaths, hit)
  <2>1. /\ currentWar' = w /\ compState' = cs /\ loop' = 0 /\ more = 1
        /\ frames' = frames + 1
    BY <1>12 DEF RoundEndsFrame, LeaveLoop, w, cs, more
  <2>2. NoWarOutlivesItsEnd'
    BY <1>4, <1>6, <2>1 DEF NoWarOutlivesItsEnd
  <2>3. LoopInv' /\ NoLostWakeup'
    BY <1>2, <2>1 DEF LoopInv, NoLostWakeup
  <2> QED
    BY <1>7, <2>1, <2>2, <2>3 DEF RunInv
<1> QED
  BY <1>1, <1>8, <1>9, <1>10, <1>11, <1>12

-----------------------------------------------------------------------------
(***************************************************************************)
(* The theorems.                                                           *)
(***************************************************************************)
Inv == TypeOK /\ RunInv

LEMMA InitInv == Init => Inv
<1> SUFFICES ASSUME Init PROVE Inv
  OBVIOUS
<1>1. /\ compState.state = "NULL" /\ loop = 0 /\ frames = 0
      /\ compState \in CompStates
  BY NoCompStateType DEF Init
<1>2. currentWar \in Wars
  <2>1. currentWar = NewWar("none", 0, FALSE, 0)
    BY DEF Init
  <2> QED
    BY <2>1 DEF NewWar, Wars, Seeds
<1>3. TypeOK
  <2>1. page \in Pages /\ seed \in Seeds /\ seedText \in Seeds
    BY DEF Init, Seeds, Pages
  <2>2. speed \in Int /\ frames \in 0 .. MaxFrames /\ loop \in Int
    BY <1>1 DEF Init
  <2> QED
    BY <1>1, <1>2, <2>1, <2>2 DEF TypeOK
<1>4. RunInv
  BY <1>1 DEF RunInv, LoopInv, NoLostWakeup, CompeteInv,
       WarRunsToTheEnd, NoWarOutlivesItsEnd, InCompetition, Running
<1> QED
  BY <1>3, <1>4 DEF Inv

LEMMA StepInv == Inv /\ [Next]_vars => Inv'
<1> SUFFICES ASSUME TypeOK, RunInv, [Next]_vars PROVE TypeOK' /\ RunInv'
  BY DEF Inv
<1>1. CASE StartDebug
  <2>1. Idle /\ Start(TRUE)
    BY <1>1 DEF StartDebug
  <2> QED
    BY <2>1, StartTypeOK, StartRunInv
<1>2. CASE StartCompete
  <2>1. Idle /\ Start(FALSE)
    BY <1>2 DEF StartCompete
  <2> QED
    BY <2>1, StartTypeOK, StartRunInv
<1>3. CASE \/ StopDebug \/ StopCompete \/ TogglePanel \/ ClickPause
           \/ ClickResume \/ ClickSingleRound \/ SetSpeed \/ EditRegister
  BY <1>3, ClickTypeOK, ClickRunInv
<1>4. CASE Frame
  BY <1>4, FrameTypeOK, FrameRunInv
<1>5. CASE RunRound
  <2>1. LoopInv
    BY DEF RunInv
  <2> QED
    BY <1>5, <2>1, RoundTypeOK, RoundRunInv
<1>6. CASE UNCHANGED vars
  BY <1>6 DEF vars, TypeOK, RunInv, LoopInv, NoLostWakeup, CompeteInv,
       WarRunsToTheEnd, NoWarOutlivesItsEnd, InCompetition, Idle, Running, NoneAlive
<1> QED
  BY <1>1, <1>2, <1>3, <1>4, <1>5, <1>6 DEF Next

THEOREM AlwaysInv == Spec => []Inv
  BY InitInv, StepInv, PTL DEF Spec

(* The types, in particular: never more frames pending than the bound, and *)
(* no war ever scored more than twice.                                     *)
THEOREM TypeCorrect == Spec => []TypeOK
<1>1. Inv => TypeOK
  BY DEF Inv
<1> QED
  BY <1>1, AlwaysInv, PTL

(* A run that has asked for no frame has nothing to do, waits for the user *)
(* to press a button, failed to load a war or has nobody left alive.       *)
THEOREM NeverLostWakeup == Spec => []NoLostWakeup
<1>1. Inv => NoLostWakeup
  BY DEF Inv, RunInv
<1> QED
  BY <1>1, AlwaysInv, PTL

(* In compete mode a war is marked ended, scored and counted together, at  *)
(* most once, and never more wars are counted than were asked for.         *)
THEOREM CountsEveryWarOnce == Spec => []WarsCountedOnce
<1>1. Inv => WarsCountedOnce
  <2> SUFFICES ASSUME TypeOK, RunInv, InCompetition
               PROVE  /\ currentWar.scored <= 1
                      /\ compState.warIndex <= compState.wars
                      /\ currentWar.load = "loaded" =>
                           (currentWar.hasEnded <=> compState.state = "RUN_WAR")
    BY DEF Inv, WarsCountedOnce, InCompetition
  <2>1. CompeteInv /\ compState \in CompStates /\ currentWar \in Wars
    BY DEF TypeOK, RunInv
  <2>2. CASE compState.state = "RUN_ROUND"
    BY <2>1, <2>2 DEF CompeteInv, CompStates, Wars
  <2>3. CASE compState.state = "RUN_WAR"
    BY <2>1, <2>3 DEF CompeteInv
  <2> QED
    BY <2>1, <2>2, <2>3 DEF InCompetition, Running, CompStates
<1> QED
  BY <1>1, AlwaysInv, PTL

(* A competition that runs on leaves a war only when it is decided, or at  *)
(* the round limit.                                                        *)
THEOREM WarsRunToTheEnd == Spec => []WarRunsToTheEnd
<1>1. Inv => WarRunsToTheEnd
  BY DEF Inv, RunInv
<1> QED
  BY <1>1, AlwaysInv, PTL

(* No war goes on after the round that decided it.                         *)
THEOREM WarsEndWhenDecided == Spec => []NoWarOutlivesItsEnd
<1>1. Inv => NoWarOutlivesItsEnd
  BY DEF Inv, RunInv
<1> QED
  BY <1>1, AlwaysInv, PTL

-----------------------------------------------------------------------------
(***************************************************************************)
(* The run loop implements Tournament.  Each lemma says which step of the  *)
(* tournament, if any, a step of the loop is.                              *)
(***************************************************************************)
LEMMA SameView ==
  ASSUME compState'.state = compState.state,
         compState'.isInDebugger = compState.isInDebugger,
         compState'.warIndex = compState.warIndex,
         compState'.wars = compState.wars,
         compState'.abort = compState.abort,
         currentWar'.scored = currentWar.scored
  PROVE  UNCHANGED T!vars
  BY DEF T!vars, InCompetition, Running

LEMMA StartView ==
  ASSUME TypeOK, NEW debug \in BOOLEAN, Start(debug)
  PROVE  [T!Next]_T!vars
<1>1. PICK s \in Seeds : \/ StartRefused(s) \/ StartThrows(debug, s)
                        \/ StartAccepted(debug, s)
                        \/ StartFailed(debug, s)
  BY DEF Start
<1>2. CASE StartRefused(s) \/ StartThrows(debug, s)
  BY <1>2, RefusedFields, SameView
<1>3. CASE StartAccepted(debug, s) \/ StartFailed(debug, s)
  <2>1. PICK w \in 1 .. MaxWars, n \in 1 .. MaxWarriors :
          \/ StartWar(NewCompState(debug, w, n), s)
          \/ StartWarThrows(NewCompState(debug, w, n), s)
    BY <1>3 DEF StartAccepted, StartFailed
  <2>2. NewCompState(debug, w, n) \in CompStates
    BY NewCompStateType
  <2>3. /\ NewCompState(debug, w, n).isInDebugger = debug
        /\ NewCompState(debug, w, n).state = "RUN_WAR"
        /\ NewCompState(debug, w, n).abort = FALSE
        /\ NewCompState(debug, w, n).warIndex = 0
        /\ NewCompState(debug, w, n).wars = w
    BY DEF NewCompState
  <2>4. /\ currentWar'.scored = 0
        /\ compState'.state \in {"RUN_WAR", "RUN_ROUND"}
        /\ compState'.isInDebugger = debug
        /\ compState'.abort = FALSE
        /\ compState'.warIndex = 0
        /\ compState'.wars = w
    <3>1. CASE StartWar(NewCompState(debug, w, n), s)
      BY <2>2, <2>3, <3>1, StartWarFields
    <3>2. CASE StartWarThrows(NewCompState(debug, w, n), s)
      <4>1. compState' = NewCompState(debug, w, n) /\ currentWar'.scored = 0
        BY <2>2, <3>2, FailedWarFields
      <4> QED
        BY <2>3, <4>1
    <3> QED
      BY <2>1, <3>1, <3>2
  <2>5. CASE debug
    <3>1. T!Debug
      BY <2>4, <2>5 DEF T!Debug, T!NothingOpen, InCompetition, Running
    <3> QED
      BY <3>1 DEF T!Next
  <2>6. CASE ~debug
    <3>1. T!Open
      BY <2>4, <2>6 DEF T!Open, InCompetition, Running
    <3> QED
      BY <3>1 DEF T!Next
  <2> QED
    BY <2>5, <2>6
<1> QED
  BY <1>1, <1>2, <1>3

LEMMA ClickView ==
  ASSUME TypeOK,
         \/ StopDebug \/ StopCompete \/ TogglePanel \/ ClickPause
         \/ ClickResume \/ ClickSingleRound \/ SetSpeed \/ EditRegister
  PROVE  [T!Next]_T!vars
<1>1. CASE StopDebug \/ StopCompete
  <2>1. /\ currentWar' = currentWar
        /\ compState'.state = compState.state
        /\ compState'.isInDebugger = compState.isInDebugger
        /\ compState'.warIndex = compState.warIndex
        /\ compState'.wars = compState.wars
        /\ Running => compState'.abort = TRUE
        /\ ~Running => compState' = compState
    BY <1>1 DEF StopDebug, StopCompete, SetAbort, TypeOK, CompStates
  <2>2. CASE InCompetition
    <3>1. T!AskToStop
      BY <2>1, <2>2 DEF T!AskToStop, InCompetition, Running, TypeOK, CompStates
    <3> QED
      BY <3>1 DEF T!Next
  <2>3. CASE ~InCompetition
    <3>1. UNCHANGED T!vars
      BY <2>1, <2>3 DEF T!vars, InCompetition, Running
    <3> QED
      BY <3>1
  <2> QED
    BY <2>2, <2>3
<1>2. CASE TogglePanel \/ SetSpeed \/ EditRegister
  BY <1>2, SameView DEF TogglePanel, SetSpeed, EditRegister
<1>3. CASE ClickPause \/ ClickResume \/ ClickSingleRound
  <2>1. compState' = compState
    BY <1>3 DEF ClickPause, ClickResume, ClickSingleRound
  <2>2. currentWar'.scored = currentWar.scored
    BY <1>3, ClickFields
  <2> QED
    BY <2>1, <2>2, SameView
<1> QED
  BY <1>1, <1>2, <1>3

LEMMA FrameView ==
  ASSUME TypeOK, RunInv, Frame
  PROVE  [T!Next]_T!vars
<1>1. /\ seed \in Seeds /\ compState \in CompStates /\ currentWar \in Wars
  BY DEF TypeOK
<1>2. CASE FrameOnNothing
  BY <1>2, SameView DEF FrameOnNothing
<1>3. CASE FrameAborts
  <2>1. compState'.state = "NULL"
    BY <1>3, NoCompStateType DEF FrameAborts
  <2>2. T!Close
    BY <1>1, <1>3, <2>1 DEF T!Close, T!NothingOpen, InCompetition, Running,
         FrameAborts, CompStates
  <2> QED
    BY <2>2 DEF T!Next
<1>4. CASE FrameStartsWar
  <2>1. StartWar(compState, seed)
    BY <1>4 DEF FrameStartsWar
  <2>2. /\ currentWar'.scored = 0
        /\ compState'.state = "RUN_ROUND"
        /\ compState'.isInDebugger = compState.isInDebugger
        /\ compState'.warIndex = compState.warIndex
        /\ compState'.wars = compState.wars
        /\ compState'.abort = compState.abort
    BY <1>1, <2>1, StartWarFields
  <2>3. /\ compState.state = "RUN_WAR" /\ ~compState.abort
        /\ compState.warIndex < compState.wars
    BY <1>4 DEF FrameStartsWar, WarIsNext, MoreWars
  <2>4. CASE compState.isInDebugger
    BY <2>2, <2>3, <2>4 DEF T!vars, InCompetition, Running
  <2>5. CASE ~compState.isInDebugger
    <3>1. T!BeginWar
      BY <1>1, <2>2, <2>3, <2>5
         DEF T!BeginWar, InCompetition, Running, CompStates
    <3> QED
      BY <3>1 DEF T!Next
  <2> QED
    BY <2>4, <2>5
<1>5. CASE FrameFailsToStartWar
  <2>1. StartWarThrows(compState, seed)
    BY <1>5 DEF FrameFailsToStartWar
  <2>2. currentWar'.scored = 0 /\ compState' = compState
    BY <1>1, <2>1, FailedWarFields
  <2>3. /\ compState.state = "RUN_WAR" /\ ~compState.abort
        /\ compState.warIndex < compState.wars
    BY <1>5 DEF FrameFailsToStartWar, WarIsNext, MoreWars
  <2>4. CASE compState.isInDebugger
    BY <2>2, <2>4 DEF T!vars, InCompetition, Running
  <2>5. CASE ~compState.isInDebugger
    <3>1. T!FailToBeginWar
      BY <1>1, <2>2, <2>3, <2>5
         DEF T!FailToBeginWar, InCompetition, Running, CompStates
    <3> QED
      BY <3>1 DEF T!Next
  <2> QED
    BY <2>4, <2>5
<1>6. CASE FrameEndsCompetition
  <2>1. compState'.state = "NULL"
    BY <1>6, NoCompStateType DEF FrameEndsCompetition
  <2>2. /\ compState.state = "RUN_WAR"
        /\ ~(compState.warIndex < compState.wars)
    BY <1>6 DEF FrameEndsCompetition, MoreWars
  <2>3. InCompetition => compState.warIndex <= compState.wars
    BY <2>2 DEF RunInv, CompeteInv
  <2>4. T!Close
    <3>1. InCompetition => compState.wars - compState.warIndex = 0
      BY <1>1, <2>2, <2>3 DEF CompStates
    <3> QED
      BY <1>1, <2>1, <2>2, <3>1
         DEF T!Close, T!NothingOpen, InCompetition, Running
  <2> QED
    BY <2>4 DEF T!Next
<1>7. CASE FrameRunsRounds \/ FrameWaits
  <2>1. /\ compState'.state = compState.state
        /\ compState'.isInDebugger = compState.isInDebugger
        /\ compState'.warIndex = compState.warIndex
        /\ compState'.wars = compState.wars
        /\ compState'.abort = compState.abort
    <3>1. CASE FrameRunsRounds
      BY <1>1, <3>1 DEF FrameRunsRounds, CompStates
    <3>2. CASE FrameWaits
      BY <1>1, <3>2 DEF FrameWaits, CompStates
    <3> QED
      BY <1>7, <3>1, <3>2
  <2>2. currentWar' = currentWar
    BY <1>7 DEF FrameRunsRounds, FrameWaits
  <2> QED
    BY <2>1, <2>2, SameView
<1>8. CASE FrameFindsNoGroup
  <2>1. compState' = compState /\ currentWar'.scored = currentWar.scored
    BY <1>1, <1>8 DEF FrameFindsNoGroup, Wars
  <2> QED
    BY <2>1, SameView
<1> QED
  BY <1>2, <1>3, <1>4, <1>5, <1>6, <1>7, <1>8 DEF Frame

LEMMA RoundView ==
  ASSUME TypeOK, RunInv, RunRound
  PROVE  [T!Next]_T!vars
<1>1. PICK deaths \in 0 .. currentWar.numAlive, hit \in BOOLEAN :
        \/ RoundGoesOn(deaths, hit)
        \/ RoundLeavesNone(deaths, hit)
        \/ RoundPauses(deaths, hit)
        \/ RoundEndsWar(deaths, hit)
        \/ RoundEndsFrame(deaths, hit)
  BY DEF RunRound
<1> DEFINE cs == CompStateAfterRound
           w == WarAfterRound(currentWar, deaths, hit)
<1>2. cs \in CompStates /\ w \in Wars
  BY RoundTypes
<1>3. /\ cs.state = compState.state
      /\ cs.isInDebugger = compState.isInDebugger
      /\ cs.abort = compState.abort
      /\ cs.wars = compState.wars
      /\ cs.warIndex = compState.warIndex
      /\ w.scored = currentWar.scored
  BY AfterRoundFields
<1> HIDE DEF cs, w
<1>4. CASE \/ RoundGoesOn(deaths, hit) \/ RoundLeavesNone(deaths, hit)
           \/ RoundPauses(deaths, hit) \/ RoundEndsFrame(deaths, hit)
  <2>1. currentWar' = w /\ compState' = cs
    BY <1>4 DEF RoundGoesOn, RoundLeavesNone, RoundPauses, RoundEndsFrame, w, cs
  <2> QED
    BY <1>3, <2>1, SameView
<1>5. CASE RoundEndsWar(deaths, hit)
  <2>1. compState.state = "RUN_ROUND" /\ ~compState.abort
    BY DEF RunRound, RunInv, LoopInv
  <2>2. /\ CountWar(cs) \in CompStates
        /\ CountWar(cs).state = cs.state
        /\ CountWar(cs).isInDebugger = cs.isInDebugger
        /\ CountWar(cs).wars = cs.wars
        /\ CountWar(cs).abort = cs.abort
        /\ cs.warIndex < cs.wars => CountWar(cs).warIndex = cs.warIndex + 1
    BY <1>2, CountWarType, DoneWarFields
  <2>3. CASE compState.isInDebugger
    <3>1. compState' = CountWar(cs)
      BY <1>5, <2>3 DEF RoundEndsWar, cs
    <3>2. UNCHANGED T!vars
      BY <1>3, <2>1, <2>2, <2>3, <3>1 DEF T!vars, InCompetition, Running
    <3> QED
      BY <3>2
  <2>4. CASE ~compState.isInDebugger
    <3>1. compState.warIndex < compState.wars /\ currentWar.scored = 0
      BY <2>1, <2>4 DEF RunInv, CompeteInv, InCompetition, Running
    <3>2. compState' = [CountWar(cs) EXCEPT !.state = "RUN_WAR"]
      BY <1>5, <2>4 DEF RoundEndsWar, cs
    <3>3. /\ compState'.state = "RUN_WAR"
          /\ compState'.isInDebugger = compState.isInDebugger
          /\ compState'.warIndex = compState.warIndex + 1
          /\ compState'.wars = compState.wars
          /\ compState'.abort = compState.abort
      BY <1>3, <2>2, <3>1, <3>2 DEF CompStates
    <3>4. currentWar'.scored \in {0, 1}
      <4>1. currentWar' = EndedWar(cs, w)
        BY <1>5 DEF RoundEndsWar, cs, w
      <4>2. EndedWar(cs, w).scored \in 0 .. 1
        BY <1>2, <1>3, <3>1, DoneWarFields
      <4> QED
        BY <4>1, <4>2
    <3>5. T!EndWar
      BY <2>1, <2>4, <3>3, <3>4
         DEF T!EndWar, InCompetition, Running, TypeOK, CompStates
    <3> QED
      BY <3>5 DEF T!Next
  <2> QED
    BY <2>3, <2>4
<1> QED
  BY <1>1, <1>4, <1>5

(* A competition is a Tournament: it plays the wars it was opened for, one *)
(* after the other, gives points at most once for each, and closes only    *)
(* when all were played or it was asked to stop.                           *)
THEOREM ImplementsTournament == Spec => TournamentSpec
<1>1. Init => T!Init
  <2> SUFFICES ASSUME Init PROVE T!Init
    OBVIOUS
  <2>1. compState.state = "NULL"
    BY NoCompStateType DEF Init
  <2> QED
    BY <2>1 DEF T!Init, T!NothingOpen, InCompetition, Running
<1>2. Inv /\ [Next]_vars => [T!Next]_T!vars
  <2> SUFFICES ASSUME TypeOK, RunInv, [Next]_vars PROVE [T!Next]_T!vars
    BY DEF Inv
  <2>1. CASE StartDebug \/ StartCompete
    BY <2>1, StartView DEF StartDebug, StartCompete
  <2>2. CASE \/ StopDebug \/ StopCompete \/ TogglePanel \/ ClickPause
             \/ ClickResume \/ ClickSingleRound \/ SetSpeed \/ EditRegister
    BY <2>2, ClickView
  <2>3. CASE Frame
    BY <2>3, FrameView
  <2>4. CASE RunRound
    BY <2>4, RoundView
  <2>5. CASE UNCHANGED vars
    BY <2>5, SameView DEF vars
  <2> QED
    BY <2>1, <2>2, <2>3, <2>4, <2>5 DEF Next
<1> QED
  BY <1>1, <1>2, AlwaysInv, PTL DEF Spec, TournamentSpec, T!Spec
=============================================================================
