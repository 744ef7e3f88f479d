-------------------------- MODULE MCBuilderQueue --------------------------
(* Two jobs with the same preprocessed source, the others with their own.  *)
EXTENDS BuilderQueue

CONSTANTS j1, j2, j3, m1, m2

Alike == Permutations({j1, j2})
MCMd5 == [j \in Jobs |-> IF j \in {j1, j2} THEN m1 ELSE m2]
=============================================================================
