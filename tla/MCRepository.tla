---------------------------- MODULE MCRepository ----------------------------
(***************************************************************************)
(* Values for TLC.  "A" and "A1" are such that A1's plain name is A's      *)
(* first, and both of A1's names sort in between A's two; "a" differs from *)
(* "A" in case only.                                                       *)
(***************************************************************************)
EXTENDS Repository

MCPlain == [t \in Titles |-> t]
MCFirst == [t \in Titles |-> CASE t = "A" -> "A1" [] t = "A1" -> "A11"
                               [] t = "a" -> "a1" [] t = "" -> "1"]
MCSecond == [t \in Titles |-> CASE t = "A" -> "A2" [] t = "A1" -> "A12"
                                [] t = "a" -> "a2" [] t = "" -> "2"]
MCNames == {"", "1", "2", "A", "a", "A1", "a1", "A11", "A12", "A2", "a2"}
MCRank == [n \in Names |-> CASE n = "" -> 0 [] n = "1" -> 1 [] n = "2" -> 2
                             [] n \in {"A", "a"} -> 3
                             [] n \in {"A1", "a1"} -> 4 [] n = "A11" -> 5
                             [] n = "A12" -> 6 [] n \in {"A2", "a2"} -> 7]
=============================================================================
