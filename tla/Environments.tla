---------------------------- MODULE Environments ----------------------------
(***************************************************************************)
(* What the upload of environments to the scheduler (EnvironmentUpload)    *)
(* and their way to the builders (EnvSync) share: the environments the     *)
(* scheduler has.                                                          *)
(***************************************************************************)
CONSTANT Envs    \* hashes of environments

VARIABLE data    \* Environments._data, scheduler/environments.js
=============================================================================
