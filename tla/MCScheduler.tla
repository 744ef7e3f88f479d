---------------------------- MODULE MCScheduler ----------------------------
(***************************************************************************)
(* A builder that connects twice under one key, a second builder, and two  *)
(* clients with one compiler, for which another environment can stand in.  *)
(***************************************************************************)
EXTENDS Scheduler, TLC

CONSTANTS b1, b2, b3, k1, k2, c1, c2, e1, e2

MCKey == [b \in Conns |-> IF b = b3 THEN k2 ELSE k1]
MCSlots == [b \in Conns |-> 1]
MCEnv == [c \in Clients |-> e1]
MCAccepts == [c \in Clients |-> Conns]
MCLinks == {<<e1, e2>>}
Alike == Permutations({b1, b2}) \cup Permutations({c1, c2})
=============================================================================
