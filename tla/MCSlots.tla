------------------------------ MODULE MCSlots ------------------------------
(* A pool of two slots and five connections for TLC. *)
EXTENDS Slots
=============================================================================
