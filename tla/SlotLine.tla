------------------------------ MODULE SlotLine ------------------------------
(***************************************************************************)
(* What a slot pool of fisk-daemon promises, without saying how: the       *)
(* requests stand in one line, in the order they were made, and the slots  *)
(* belong to the first Count of them.  Nobody overtakes, no slot is idle   *)
(* while somebody waits, and leaving the line, from wherever one stands,   *)
(* moves everybody behind up by one place.  Slots refines this module.     *)
(***************************************************************************)
EXTENDS Integers, Sequences, SequencesExt

CONSTANTS Ids,    \* the requests that can be made
          Count   \* the number of slots

VARIABLE line     \* the outstanding requests, oldest first

(* The requests that have a slot: the first Count places of the line. *)
Served(l) == {l[i] : i \in {j \in 1..Len(l) : j <= Count}}

LineInit == line = <<>>

(* A request that is not in the line joins it at its end. *)
Join(id) ==
  /\ \A i \in 1..Len(line) : line[i] # id
  /\ line' = Append(line, id)

(* A request leaves the line from the place i it stands at. *)
LeaveAt(i) == line' = RemoveAt(line, i)

LineNext ==
  \/ \E id \in Ids : Join(id)
  \/ \E i \in 1..Len(line) : LeaveAt(i)

LineSpec == LineInit /\ [][LineNext]_line

(***************************************************************************)
(* A slot that was granted is never taken back by what others do: whoever  *)
(* is served stays served until it leaves the line itself.                 *)
(***************************************************************************)
NoPreemption ==
  [][\A id \in Served(line) :
       id \in Served(line') \/ id \notin ToSet(line')]_line
=============================================================================
