------------------------------ MODULE MCEditor ------------------------------
(***************************************************************************)
(* Values for TLC: texts with a blank line, an indented one, a character   *)
(* that takes four when it is escaped, and none at all.                    *)
(***************************************************************************)
EXTENDS Editor, TLC

MCEscaped == [c \in Chars |-> IF c = "lt" THEN 4 ELSE 1]
MCTexts == {<<"nl", "nl", "x">>, <<"space", "x">>, <<"lt", "nl", "x">>, <<>>}
MCDisassembled == {<<"x", "nl">>}
MCInserts == {<<"x">>}
MCTabText == <<"space">>
MCSelections == {<<0, 2>>}
Symmetry == Permutations(Codes)
=============================================================================
