--------------------------- MODULE KeyValueStore ---------------------------
(***************************************************************************)
(* What the scheduler's Database promises: get() and set() are answered    *)
(* once, and each takes effect at one moment between its call and its      *)
(* answer; one that fails has no effect; a restart forgets the calls and   *)
(* keeps the records.  Once broken is set nothing is promised any more.    *)
(***************************************************************************)
CONSTANTS
  Callers,   \* each has at most one call under way
  Keys, Values,
  Nothing    \* the value of a key that was never set

VARIABLES store, call, broken
storeVars == <<store, call, broken>>

Calls ==
  [kind : {"get", "set"}, key : Keys, value : Values \cup {Nothing},
   status : {"asked", "done", "failed"}]
NoCall == [kind |-> "none", key |-> "none", value |-> Nothing,
           status |-> "done"]

StoreInit ==
  /\ store = [k \in Keys |-> Nothing]
  /\ call = [c \in Callers |-> NoCall]
  /\ broken = FALSE

Ask(c) ==
  /\ call[c].status # "asked"
  /\ call'[c] \in Calls /\ call'[c].status = "asked"
  /\ call' = [call EXCEPT ![c] = call'[c]]
  /\ UNCHANGED <<store, broken>>

AnswerGet(c) ==
  /\ call[c].status = "asked" /\ call[c].kind = "get"
  /\ call' = [call EXCEPT ![c].status = "done", ![c].value = store[call[c].key]]
  /\ UNCHANGED <<store, broken>>
AnswerSet(c) ==
  /\ call[c].status = "asked" /\ call[c].kind = "set"
  /\ store' = [store EXCEPT ![call[c].key] = call[c].value]
  /\ call' = [call EXCEPT ![c].status = "done"]
  /\ UNCHANGED broken
Fail(c) ==
  /\ call[c].status = "asked"
  /\ call' = [call EXCEPT ![c].status = "failed"]
  /\ UNCHANGED <<store, broken>>

StoreRestarts ==
  /\ call' = [c \in Callers |-> NoCall]
  /\ UNCHANGED <<store, broken>>

AnythingGoes == broken'

StoreNext ==
  \/ \E c \in Callers : Ask(c) \/ AnswerGet(c) \/ AnswerSet(c) \/ Fail(c)
  \/ StoreRestarts \/ AnythingGoes

StoreSpec == StoreInit /\ [][StoreNext]_storeVars
=============================================================================
