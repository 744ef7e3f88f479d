---------------------------- MODULE MCSupervisor ----------------------------
(* One run of checkForUpdate() and one more for each crash, with one spare.  *)
EXTENDS Supervisor

MCChecks == 1..(MaxCrashes + 2)
=============================================================================
