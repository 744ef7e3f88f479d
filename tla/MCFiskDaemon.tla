--------------------------- MODULE MCFiskDaemon ---------------------------
(* Two fiskc processes of one machine, one for each release mode.           *)
EXTENDS FiskDaemon

CONSTANTS c1, c2

=============================================================================
