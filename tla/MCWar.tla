------------------------------- MODULE MCWar -------------------------------
EXTENDS War

(* A store may miss the memory on either side.                             *)
MCTargets == -1 .. MemorySize
=============================================================================
