----------------------------- MODULE MCEnvSync -----------------------------
(* Two environments, so that one can be dropped while another is fetched.  *)
(* They are alike: of two initial states that differ in their names only,  *)
(* one is enough.                                                          *)
EXTENDS EnvSync

CONSTANTS e1, e2

MCInit ==
  /\ SyncInit
  /\ e2 \in data => e1 \in data
  /\ data # {e1} /\ e2 \in envs => e1 \in envs
MCSpec == MCInit /\ [][SyncNext]_syncVars /\ SyncFairness
=============================================================================
