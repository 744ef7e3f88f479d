------------------------------ MODULE Database ------------------------------
(***************************************************************************)
(* scheduler/database.js: records kept in one JSON file, which every set() *)
(* reads, changes, writes to a temporary file and renames.  Operations are *)
(* queued; each reading, opening, writing and renaming is a job of the     *)
(* thread pool that ends in a callback.  finishedOperation() lets the next *)
(* operation begin when the temporary file is written, not when it has     *)
(* been renamed.                                                           *)
(***************************************************************************)
EXTENDS Naturals, Sequences

CONSTANTS
  Callers,       \* promises of get() and set(); one per caller at a time
  Keys, Values,
  Nothing,       \* a record that was never set
  Absent, Torn   \* no file; a file that JSON.parse does not accept

ASSUME DatabaseAssumption ==
  /\ Nothing \notin Values
  /\ Absent # Torn
  /\ {Absent, Torn} \cap [Keys -> Values \cup {Nothing}] = {}

VARIABLES
  op,        \* [Callers -> Operations]
  queue,     \* this.queue
  busy,      \* this.busy
  path, tmp, \* the contents of the file and of the temporary file
  writeTo,   \* the name of the file that the write under way goes to
  overtaken  \* a set() read the file before the rename of an earlier one

dbVars == <<op, queue, busy, path, tmp, writeTo, overtaken>>

Records == [Keys -> Values \cup {Nothing}]
NoRecords == [k \in Keys |-> Nothing]

Stages == {"queued", "reading", "opening", "writing", "renaming"}
Operations ==
  [kind : {"none", "get", "set"}, key : Keys \cup {"none"},
   value : Values \cup {Nothing},    \* what to set; what get() resolves to
   pc : Stages \cup {"done", "failed"},
   records : Records]                \* what a set() is about to write
NoOperation ==
  [kind |-> "none", key |-> "none", value |-> Nothing, pc |-> "done",
   records |-> NoRecords]

DbInit ==
  /\ op = [c \in Callers |-> NoOperation]
  /\ queue = <<>> /\ busy = FALSE
  /\ path = Absent /\ tmp = Absent /\ writeTo = "none"
  /\ overtaken = FALSE

UnderWay(c) == op[c].pc \in Stages
Renaming == {c \in Callers : op[c].pc = "renaming"}
File == <<path, tmp, writeTo>>

-----------------------------------------------------------------------------
(* Mutant of Perform: busy is not set. *)
PerformUnmarked(c, call) ==
  \/ /\ busy
     /\ op' = [op EXCEPT ![c] = [call EXCEPT !.pc = "queued"]]
     /\ queue' = Append(queue, c)
     /\ UNCHANGED busy
  \/ /\ ~busy
     /\ op' = [op EXCEPT ![c] = call]
     /\ UNCHANGED <<queue, busy>>

(* get() and set(): perform now, or when the others have finished. *)
Perform(c, call) ==
  \/ /\ busy
     /\ op' = [op EXCEPT ![c] = [call EXCEPT !.pc = "queued"]]
     /\ queue' = Append(queue, c)
     /\ UNCHANGED busy
  \/ /\ ~busy
     /\ op' = [op EXCEPT ![c] = call]
     /\ busy' = TRUE
     /\ UNCHANGED queue

Call(c, kind, key, value) ==
  /\ ~UnderWay(c)
  /\ Perform(c, [kind |-> kind, key |-> key, value |-> value,
                 pc |-> "reading", records |-> NoRecords])
  /\ UNCHANGED <<File, overtaken>>

Get(c, key) == Call(c, "get", key, Nothing)
Set(c, key, value) == Call(c, "set", key, value)

(* finishedOperation(), once ops are the operations. *)
FinishedOperation(ops) ==
  \/ /\ queue # <<>>
     /\ op' = [ops EXCEPT ![Head(queue)].pc = "reading"]
     /\ queue' = Tail(queue)
     /\ UNCHANGED busy
  \/ /\ queue = <<>>
     /\ op' = ops /\ busy' = FALSE
     /\ UNCHANGED queue

Rejected(c) == [op EXCEPT ![c].pc = "failed"]

(* _read() could not read the file, or what it read is no JSON. *)
ReadFails(c) ==
  /\ op[c].pc = "reading"
  /\ FinishedOperation(Rejected(c))
  /\ UNCHANGED <<File, overtaken>>
ParseFails(c) ==
  /\ op[c].pc = "reading" /\ path = Torn
  /\ path' = Absent     \* renamed to .error
  /\ writeTo' = IF writeTo = "path" THEN "none" ELSE writeTo
  /\ FinishedOperation(Rejected(c))
  /\ UNCHANGED <<tmp, overtaken>>

(* What a reader finds; of a torn file, nothing. *)
Contents == IF path \in {Absent, Torn} THEN NoRecords ELSE path

ReadForGet(c) ==
  /\ op[c].pc = "reading" /\ op[c].kind = "get" /\ path # Torn
  /\ FinishedOperation([op EXCEPT ![c].pc = "done",
                                  ![c].value = Contents[op[c].key]])
  /\ UNCHANGED <<File, overtaken>>

(* Mutant of ReadForSet: the other records are not kept. *)
ReadForSetAlone(c) ==
  /\ op[c].pc = "reading" /\ op[c].kind = "set" /\ path # Torn
  /\ op' = [op EXCEPT ![c].pc = "opening",
              ![c].records = [NoRecords EXCEPT ![op[c].key] = op[c].value]]
  /\ overtaken' = (overtaken \/ Renaming # {})
  /\ UNCHANGED <<queue, busy, File>>

ReadForSet(c) ==
  /\ op[c].pc = "reading" /\ op[c].kind = "set" /\ path # Torn
  /\ op' = [op EXCEPT ![c].pc = "opening",
              ![c].records = [Contents EXCEPT ![op[c].key] = op[c].value]]
  /\ overtaken' = (overtaken \/ Renaming # {})
  /\ UNCHANGED <<queue, busy, File>>

(* fs.writeFile: open with truncation, which may fail, and write. *)
OpenFails(c) ==
  /\ op[c].pc = "opening"
  /\ FinishedOperation(Rejected(c))
  /\ UNCHANGED <<File, overtaken>>
(* Mutant of Opened: the file is written in its place. *)
OpenedInPlace(c) ==
  /\ op[c].pc = "opening"
  /\ op' = [op EXCEPT ![c].pc = "writing"]
  /\ path' = Torn /\ writeTo' = "path"
  /\ UNCHANGED <<queue, busy, tmp, overtaken>>

Opened(c) ==
  /\ op[c].pc = "opening"
  /\ op' = [op EXCEPT ![c].pc = "writing"]
  /\ tmp' = Torn /\ writeTo' = "tmp"
  /\ UNCHANGED <<queue, busy, path, overtaken>>
WriteFails(c) ==
  /\ op[c].pc = "writing"
  /\ writeTo' = "none"
  /\ FinishedOperation(Rejected(c))
  /\ UNCHANGED <<path, tmp, overtaken>>

(* Mutant of Written: the queue stands still after a write. *)
WrittenAndStill(c) ==
  /\ op[c].pc = "writing"
  /\ tmp' = IF writeTo = "tmp" THEN op[c].records ELSE tmp
  /\ path' = IF writeTo = "path" THEN op[c].records ELSE path
  /\ writeTo' = "none"
  /\ op' = [op EXCEPT ![c].pc = "renaming"]
  /\ UNCHANGED <<queue, busy, overtaken>>

(* Written: the rename is issued and the next operation begins. *)
Written(c) ==
  /\ op[c].pc = "writing"
  /\ tmp' = IF writeTo = "tmp" THEN op[c].records ELSE tmp
  /\ path' = IF writeTo = "path" THEN op[c].records ELSE path
  /\ writeTo' = "none"
  /\ FinishedOperation([op EXCEPT ![c].pc = "renaming"])
  /\ UNCHANGED overtaken

(* The temporary file, whoever wrote it by now, takes the place of the     *)
(* file, and a write that is under way to either goes where it was.        *)
Renamed(c) ==
  /\ op[c].pc = "renaming" /\ tmp # Absent
  /\ path' = tmp /\ tmp' = Absent
  /\ writeTo' = IF writeTo = "tmp" THEN "path" ELSE "none"
  /\ op' = [op EXCEPT ![c].pc = "done"]
  /\ UNCHANGED <<queue, busy, overtaken>>
RenameFails(c) ==
  /\ op[c].pc = "renaming"
  /\ op' = Rejected(c)
  /\ UNCHANGED <<queue, busy, File, overtaken>>

(* The scheduler goes down, wherever it is; the files stay. *)
Restart ==
  /\ op' = [c \in Callers |-> NoOperation]
  /\ queue' = <<>> /\ busy' = FALSE /\ writeTo' = "none"
  /\ UNCHANGED <<path, tmp, overtaken>>

-----------------------------------------------------------------------------
Progress(c) ==
  \/ ReadFails(c) \/ ParseFails(c) \/ ReadForGet(c) \/ ReadForSet(c)
  \/ OpenFails(c) \/ Opened(c) \/ WriteFails(c) \/ Written(c)
  \/ Renamed(c) \/ RenameFails(c)

DbNext ==
  \/ \E c \in Callers, k \in Keys :
       Get(c, k) \/ \E v \in Values : Set(c, k, v)
  \/ \E c \in Callers : Progress(c)
  \/ Restart

DbSpec == DbInit /\ [][DbNext]_dbVars

-----------------------------------------------------------------------------
DbTypeOK ==
  /\ op \in [Callers -> Operations]
  /\ queue \in Seq(Callers) /\ busy \in BOOLEAN
  /\ path \in Records \cup {Absent, Torn}
  /\ tmp \in Records \cup {Absent, Torn}
  /\ writeTo \in {"none", "tmp", "path"}
  /\ overtaken \in BOOLEAN

(* The operation the others wait for. *)
Current == {c \in Callers : op[c].pc \in {"reading", "opening", "writing"}}

(***************************************************************************)
(* Errors, queueing and restarts never start two operations at a time,     *)
(* which would write one temporary file, and never lose one: what is       *)
(* queued is in the queue, once, behind one that runs.                     *)
(***************************************************************************)
OneAtATime ==
  /\ DbTypeOK
  /\ \A c, d \in Current : c = d
  /\ busy <=> Current # {}
  /\ \A c \in Callers :
       op[c].pc = "queued" <=> \E i \in 1..Len(queue) : queue[i] = c
  /\ \A i, j \in 1..Len(queue) : queue[i] = queue[j] => i = j
  /\ queue # <<>> => busy

(***************************************************************************)
(* The file is never torn, whatever fails or crashes, and a temporary file *)
(* that waits for its rename holds what that set() wrote, as long as no    *)
(* set() overtook a rename.                                                *)
(***************************************************************************)
FileIsWhole ==
  ~overtaken =>
    /\ path # Torn /\ writeTo # "path"
    /\ \A c \in Renaming : tmp = op[c].records
    /\ \A c, d \in Renaming : c = d

(***************************************************************************)
(* get() and set() are atomic: a set() takes effect when its rename does,  *)
(* and a get() when it reads.                                              *)
(***************************************************************************)
AbstractCall(c) ==
  [kind |-> op[c].kind, key |-> op[c].key, value |-> op[c].value,
   status |-> IF UnderWay(c) THEN "asked" ELSE op[c].pc]

Abstract == INSTANCE KeyValueStore
  WITH store <- Contents, call <- [c \in Callers |-> AbstractCall(c)],
       broken <- overtaken

StoreSpec == Abstract!StoreSpec
=============================================================================
