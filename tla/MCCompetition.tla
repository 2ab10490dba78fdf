--------------------------- MODULE MCCompetition ---------------------------
EXTENDS Competition
MCSpeeds == {-1, 0, 2}
(* Speed 0 is where the slider stands at first.                            *)
MCTwoSpeeds == {-1, 2}
MCSlow == {-1}
=============================================================================
