------------------------------- MODULE Battle -------------------------------
(***************************************************************************)
(* What a war promises to whoever runs it, without addresses, memory and   *)
(* opcodes: it gathers its fighters, and begins only with all of them; a   *)
(* round lets everyone who is alive when it opens move exactly once; who   *)
(* moves may die of it, nobody else does, and nobody comes back.           *)
(***************************************************************************)
EXTENDS Naturals

CONSTANT Fighters

VARIABLES
  stage,    (* "gathering", "broken off", at "rest" between rounds, or in  *)
            (* a "round"                                                   *)
  living,   (* who is in the battle and alive                              *)
  toMove,   (* in a round, who is alive and has not moved yet              *)
  rounds    (* rounds that are over                                        *)

vars == <<stage, living, toMove, rounds>>

Init == stage = "gathering" /\ living = {} /\ toMove = {} /\ rounds = 0

Enter(f) ==
  /\ stage = "gathering" /\ f \notin living
  /\ living' = living \cup {f}
  /\ UNCHANGED <<stage, toMove, rounds>>

BreakOff ==
  /\ stage = "gathering" /\ stage' = "broken off"
  /\ UNCHANGED <<living, toMove, rounds>>

Begin ==
  /\ stage = "gathering" /\ living = Fighters
  /\ stage' = "rest"
  /\ UNCHANGED <<living, toMove, rounds>>

OpenRound ==
  /\ stage = "rest" /\ stage' = "round"
  /\ toMove' = living
  /\ UNCHANGED <<living, rounds>>

(* A round may close with its last move, or after it.                      *)
Close == toMove' = {} /\ stage' = "rest" /\ rounds' = rounds + 1

Move(f) ==
  /\ stage = "round" /\ f \in toMove
  /\ toMove' = toMove \ {f}
  /\ living' \in {living, living \ {f}}
  /\ Close \/ UNCHANGED <<stage, rounds>>

CloseRound ==
  /\ stage = "round" /\ toMove = {}
  /\ Close
  /\ UNCHANGED living

Next ==
  \/ \E f \in Fighters : Enter(f) \/ Move(f)
  \/ BreakOff \/ Begin \/ OpenRound \/ CloseRound

Spec == Init /\ [][Next]_vars
=============================================================================
