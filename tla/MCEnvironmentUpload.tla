------------------------ MODULE MCEnvironmentUpload ------------------------
(* Two clients with one compiler, and another client.                      *)
EXTENDS EnvironmentUpload

CONSTANTS c1, c2, c3, e1, e2, e3

Alike == Permutations({c1, c2})
MCEnvOf == [c \in Clients |-> IF c = c3 THEN e2 ELSE e1]
MCSize == [e \in Envs |-> IF e = e2 THEN 2 ELSE 1]
=============================================================================
