------------------------------- MODULE Slots -------------------------------
(***************************************************************************)
(* One slot pool of fisk-daemon: class Slots of daemon/slots.js.  fiskc    *)
(* asks the daemon for a slot of the "cpp" pool before it preprocesses and *)
(* for one of the "compile" pool before it compiles locally.               *)
(*                                                                         *)
(* A JavaScript Map iterates over its keys in the order they were inserted *)
(* and the hand-over in release() relies on that, so both Maps are         *)
(* sequences of their keys.  The data kept beside a key (a pid, the reply  *)
(* callback) is not modelled: the callback's effect is Granted(id).        *)
(***************************************************************************)
EXTENDS Integers, Sequences, SequencesExt

CONSTANTS Ids,    \* the connection ids that may ask for a slot
          Count   \* --slots or --cpp-slots: any number, 0 included

ASSUME SlotCountIsNat == Count \in Nat

VARIABLES used,     \* keys of this.used: who holds a slot
          pending   \* keys of this.pending: who waits for one

slotVars == <<used, pending>>

Holders == ToSet(used)
Waiting == ToSet(pending)

SlotsInit == used = <<>> /\ pending = <<>>

(* Map.set: a new key goes to the end, a present one keeps its place. *)
MapSet(keys, id) ==
  IF \E i \in 1..Len(keys) : keys[i] = id THEN keys ELSE Append(keys, id)

(* Map.delete *)
MapDelete(keys, id) == RemoveFirst(keys, id)

(* Somebody's reply callback runs in this step. *)
Granted(id) == id \notin Holders /\ id \in Holders'

(***************************************************************************)
(* acquire(id): a slot at once if one is left, a place in the queue if     *)
(* not.                                                                    *)
(***************************************************************************)
Acquire(id) ==
  \/ /\ Len(used) < Count
     /\ used' = MapSet(used, id)
     /\ UNCHANGED pending
  \/ /\ ~(Len(used) < Count)
     /\ pending' = MapSet(pending, id)
     /\ UNCHANGED used

(* The state after the two deletes that release(id) starts with. *)
UsedWithout(id) == MapDelete(used, id)
PendingWithout(id) == MapDelete(pending, id)

(* The two assertions of release(id), evaluated after the deletes. *)
SlotWasCounted(id) == Len(UsedWithout(id)) < Count
NoOneWaitedInVain(id) ==
  Len(UsedWithout(id)) + 1 = Count \/ PendingWithout(id) = <<>>
ReleaseAsserts(id) ==
  id \in Holders => SlotWasCounted(id) /\ NoOneWaitedInVain(id)

(* Mutants of HandOver: the slot is not handed on; it goes to the last one. *)
HandOverForgotten(freed, queue) == used' = freed /\ pending' = queue
HandOverToLast(freed, queue) ==
  IF queue = <<>> THEN used' = freed /\ pending' = queue
  ELSE used' = MapSet(freed, Last(queue)) /\ pending' = Front(queue)

(* The slot just freed goes to whoever has waited longest. *)
HandOver(freed, queue) ==
  \/ /\ queue = <<>>
     /\ used' = freed
     /\ pending' = queue
  \/ /\ queue # <<>>
     /\ used' = MapSet(freed, Head(queue))
     /\ pending' = Tail(queue)

(***************************************************************************)
(* release(id): withdraw the request; if it had a slot, hand the slot on.  *)
(***************************************************************************)
Release(id) ==
  \/ /\ id \in Holders
     /\ HandOver(UsedWithout(id), PendingWithout(id))
  \/ /\ id \notin Holders
     /\ pending' = PendingWithout(id)
     /\ UNCHANGED used

(***************************************************************************)
(* The pool under the callers fisk-daemon.js allows: the requestedCppSlot  *)
(* and requestedCompileSlot flags let a connection acquire only while it   *)
(* has no request outstanding, and release only while it has one.          *)
(***************************************************************************)
Requested == Holders \cup Waiting

SlotsNext ==
  \/ \E id \in Ids \ Requested : Acquire(id)
  \/ \E id \in Requested : Release(id)

SlotsSpec == SlotsInit /\ [][SlotsNext]_slotVars

-----------------------------------------------------------------------------
SlotsTypeOK ==
  /\ used \in Seq(Ids)
  /\ pending \in Seq(Ids)

(***************************************************************************)
(* The pool never hands out more slots than it has, and a request waits    *)
(* only while every slot is taken: no grant is lost between the two Maps   *)
(* whatever the order of acquisitions, releases and withdrawals.           *)
(***************************************************************************)
NeverOverbooked == Len(used) <= Count
NoIdleSlot == pending # <<>> => Len(used) = Count

(* A request stands in one place only: no id is queued or served twice. *)
RequestsAreDistinct ==
  \A i, j \in 1..Len(used \o pending) :
     (used \o pending)[i] = (used \o pending)[j] => i = j

SlotsInv ==
  /\ SlotsTypeOK
  /\ NeverOverbooked
  /\ NoIdleSlot
  /\ RequestsAreDistinct

(***************************************************************************)
(* The assertions of slots.js:38-39 never fail, so the daemon (which exits *)
(* on any uncaught exception) never goes down in release().                *)
(***************************************************************************)
AssertsHold == \A id \in Requested : ReleaseAsserts(id)

(***************************************************************************)
(* The pool is the line of SlotLine: the served requests in the order they *)
(* got their slot, followed by the queue.                                  *)
(***************************************************************************)
Line == INSTANCE SlotLine WITH line <- used \o pending
LineSpec == Line!LineSpec
=============================================================================
