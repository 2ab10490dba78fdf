----------------------------- MODULE MCDebugger -----------------------------
(***************************************************************************)
(* Values for TLC.  A byte 1 begins an opcode, of four bytes if another 1  *)
(* follows and of two if not.  One program is an opcode of four bytes and  *)
(* a comment; the other defines a byte.                                    *)
(***************************************************************************)
EXTENDS Debugger

MCNowhere == -1
MCSize == [p \in Bytes \X Bytes \X Bytes \X Bytes |->
             IF p[1] = 0 THEN 0 ELSE IF p[2] = 0 THEN 2 ELSE 4]

Source(a, bs, d) == [address |-> a, bytes |-> bs, define |-> d]
MCListing ==
  << << Source(0, <<1, 1, 0, 1>>, FALSE), Source(Nowhere, <<>>, FALSE) >>,
     << Source(0, <<1>>, TRUE) >> >>

(* Next to each other either way; either one at the end of the arena.      *)
MCLayouts == {<<1, 5>>, <<2, 1>>}
=============================================================================
