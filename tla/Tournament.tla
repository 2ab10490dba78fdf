----------------------------- MODULE Tournament -----------------------------
(***************************************************************************)
(* What a competition promises to whoever keeps the score, without frames, *)
(* rounds or buttons: it is opened for a number of wars, plays them one    *)
(* after the other, gives the points of each at most once, and closes by   *)
(* itself only when all of them were played.  It may be asked to stop, may *)
(* be replaced by a new one, or give way to a debugging session.           *)
(***************************************************************************)
EXTENDS Naturals

CONSTANT MaxWars   (* largest number of wars a competition is opened for   *)

VARIABLES
  stage,    (* "closed", in a "break" between wars, in a "war", or away in *)
            (* a "debug" session, where nothing is promised                *)
  left,     (* wars still to be played to their end                        *)
  awarded,  (* how often points were given for the last war begun          *)
  stopping  (* the competition was asked to stop                           *)

vars == <<stage, left, awarded, stopping>>

TypeOK ==
  /\ stage \in {"closed", "break", "war", "debug"}
  /\ left \in 0 .. MaxWars
  /\ awarded \in 0 .. 1
  /\ stopping \in BOOLEAN

NothingOpen == left = 0 /\ awarded = 0 /\ stopping = FALSE

Init == stage = "closed" /\ NothingOpen

(* Opening goes straight into the first war, unless that cannot begin.     *)
Open ==
  /\ stage' \in {"war", "break"}
  /\ left' \in 1 .. MaxWars
  /\ awarded' = 0
  /\ stopping' = FALSE

BeginWar ==
  /\ stage = "break" /\ left > 0 /\ ~stopping
  /\ stage' = "war"
  /\ awarded' = 0
  /\ UNCHANGED <<left, stopping>>

FailToBeginWar ==
  /\ stage = "break" /\ left > 0 /\ ~stopping
  /\ awarded' = 0
  /\ UNCHANGED <<stage, left, stopping>>

EndWar ==
  /\ stage = "war" /\ ~stopping
  /\ stage' = "break"
  /\ left' = left - 1
  /\ awarded' \in {0, 1}
  /\ UNCHANGED stopping

AskToStop ==
  /\ stage \in {"break", "war"}
  /\ stopping' = TRUE
  /\ UNCHANGED <<stage, left, awarded>>

Close ==
  /\ \/ stage = "debug"
     \/ stage \in {"break", "war"} /\ stopping
     \/ stage = "break" /\ left = 0
  /\ stage' = "closed" /\ NothingOpen'

(* The debugger takes over, whatever the competition was doing.            *)
Debug == stage' = "debug" /\ NothingOpen'

Next ==
  Open \/ BeginWar \/ FailToBeginWar \/ EndWar \/ AskToStop \/ Close \/ Debug

Spec == Init /\ [][Next]_vars
=============================================================================
