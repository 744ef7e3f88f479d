----------------------------- MODULE UsersProofs -----------------------------
(***************************************************************************)
(* Proofs about the scheduler's database and who uses it.                  *)
(*                                                                         *)
(* First the database by itself, for any callers, keys and values:         *)
(* operations take turns, and until a set() reads the file before the      *)
(* rename of an earlier one, the file is whole and get() and set() are     *)
(* atomic.                                                                 *)
(*                                                                         *)
(* Then the monitors' requests: a name is pending just as long as a        *)
(* request to add or remove that user is in hand, and there is one such    *)
(* request at a time, whatever the database answers, or when.              *)
(*                                                                         *)
(* Last both together: the handlers are callers of the database, and what  *)
(* they answered, or keep in memory of the links, is in the file, errors   *)
(* and restarts included, until a set() overtakes a rename.                *)
(***************************************************************************)
EXTENDS Users, TLAPS

(* OneAtATime, divided into what is about operations and about files. *)
OpsTyped ==
  op \in [Callers -> Operations] /\ queue \in Seq(Callers) /\ busy \in BOOLEAN
FilesTyped ==
  /\ path \in Records \cup {Absent, Torn} /\ tmp \in Records \cup {Absent, Torn}
  /\ writeTo \in {"none", "tmp", "path"} /\ overtaken \in BOOLEAN
InQueue(c) == \E i \in 1..Len(queue) : queue[i] = c
Turns ==
  /\ \A c, d \in Current : c = d
  /\ busy <=> Current # {}
  /\ \A c \in Callers : op[c].pc = "queued" <=> InQueue(c)
  /\ \A i, j \in 1..Len(queue) : queue[i] = queue[j] => i = j
  /\ queue # <<>> => busy

(* The parts are the whole. *)
LEMMA OneAtATimeParts == OneAtATime <=> OpsTyped /\ FilesTyped /\ Turns
BY DEF OneAtATime, DbTypeOK, OpsTyped, FilesTyped, Turns, InQueue

(* Who joins the queue stands in it behind the others. *)
LEMMA Joined ==
  ASSUME queue \in Seq(Callers), NEW c \in Callers, ~InQueue(c),
         queue' = Append(queue, c),
         \A i, j \in 1..Len(queue) : queue[i] = queue[j] => i = j
  PROVE  /\ queue' \in Seq(Callers) /\ queue' # <<>>
         /\ \A d : InQueue(d)' <=> d = c \/ InQueue(d)
         /\ \A i, j \in 1..Len(queue') : queue'[i] = queue'[j] => i = j
<1>1. /\ Len(queue) \in Nat /\ Len(queue') = Len(queue) + 1
      /\ \A i \in 1..Len(queue') :
            queue'[i] = IF i = Len(queue) + 1 THEN c ELSE queue[i]
      /\ queue' \in Seq(Callers)
  OBVIOUS
<1>2. ASSUME NEW d PROVE InQueue(d)' <=> d = c \/ InQueue(d)
  <2>1. ASSUME InQueue(d)' PROVE d = c \/ InQueue(d)
    BY <1>1, <2>1 DEF InQueue
  <2>2. d = c => InQueue(d)'
    BY <1>1 DEF InQueue
  <2>3. ASSUME InQueue(d) PROVE InQueue(d)'
    <3>1. PICK i \in 1..Len(queue) : queue[i] = d
      BY <2>3 DEF InQueue
    <3>2. i \in 1..Len(queue') /\ queue'[i] = d
      BY <1>1, <3>1
    <3> QED
      BY <3>2 DEF InQueue
  <2> QED
    BY <2>1, <2>2, <2>3
<1>3. queue' # <<>>
  BY <1>1
<1>4. \A i, j \in 1..Len(queue') : queue'[i] = queue'[j] => i = j
  BY <1>1 DEF InQueue
<1> QED
  BY <1>1, <1>2, <1>3, <1>4

(* Who is taken out of the queue is in it no more, and the others are. *)
LEMMA Left ==
  ASSUME queue \in Seq(Callers), queue # <<>>, queue' = Tail(queue),
         \A i, j \in 1..Len(queue) : queue[i] = queue[j] => i = j
  PROVE  /\ queue' \in Seq(Callers)
         /\ Head(queue) \in Callers /\ InQueue(Head(queue))
         /\ \A d : InQueue(d)' <=> d # Head(queue) /\ InQueue(d)
         /\ \A i, j \in 1..Len(queue') : queue'[i] = queue'[j] => i = j
<1>1. /\ Len(queue) \in Nat /\ Len(queue) > 0 /\ Len(queue') = Len(queue) - 1
      /\ \A i \in 1..Len(queue') : queue'[i] = queue[i + 1]
      /\ Head(queue) = queue[1] /\ queue[1] \in Callers
      /\ queue' \in Seq(Callers)
  OBVIOUS
<1>2. InQueue(Head(queue))
  BY <1>1 DEF InQueue
<1>3. ASSUME NEW d PROVE InQueue(d)' <=> d # Head(queue) /\ InQueue(d)
  <2>1. ASSUME InQueue(d)' PROVE d # Head(queue) /\ InQueue(d)
    <3>1. PICK i \in 1..Len(queue') : queue'[i] = d
      BY <2>1 DEF InQueue
    <3>2. i + 1 \in 1..Len(queue) /\ queue[i + 1] = d /\ i + 1 # 1
      BY <1>1, <3>1
    <3> QED
      BY <1>1, <3>2 DEF InQueue
  <2>2. ASSUME d # Head(queue), InQueue(d) PROVE InQueue(d)'
    <3>1. PICK i \in 1..Len(queue) : queue[i] = d
      BY <2>2 DEF InQueue
    <3>2. i - 1 \in 1..Len(queue') /\ queue'[i - 1] = d
      BY <1>1, <2>2, <3>1
    <3> QED
      BY <3>2 DEF InQueue
  <2> QED
    BY <2>1, <2>2
<1>4. \A i, j \in 1..Len(queue') : queue'[i] = queue'[j] => i = j
  BY <1>1
<1> QED
  BY <1>1, <1>2, <1>3, <1>4

-----------------------------------------------------------------------------
(* A call is performed at once or waits behind the others. *)
LEMMA PerformTakesTurn ==
  ASSUME OpsTyped, Turns, NEW c \in Callers, ~UnderWay(c),
         NEW new \in Operations, new.pc = "reading", Perform(c, new)
  PROVE  /\ OpsTyped' /\ Turns'
         /\ \E pc \in {"reading", "queued"} :
              op' = [op EXCEPT ![c] = [new EXCEPT !.pc = pc]]
<1>1. op[c].pc \notin Stages /\ op[c].pc # "queued" /\ c \notin Current
  BY DEF UnderWay, Stages, Current
<1>2. ~InQueue(c)
  BY <1>1 DEF Turns
<1>3. CASE /\ busy /\ UNCHANGED busy /\ queue' = Append(queue, c)
           /\ op' = [op EXCEPT ![c] = [new EXCEPT !.pc = "queued"]]
  <2>1. /\ queue' \in Seq(Callers) /\ queue' # <<>>
        /\ \A d : InQueue(d)' <=> d = c \/ InQueue(d)
        /\ \A i, j \in 1..Len(queue') : queue'[i] = queue'[j] => i = j
    BY <1>2, <1>3, Joined DEF OpsTyped, Turns
  <2>2. [new EXCEPT !.pc = "queued"] \in Operations
    BY DEF Operations, Stages
  <2>3. OpsTyped'
    BY <1>3, <2>1, <2>2 DEF OpsTyped
  <2>4. \A d \in Callers : op'[d].pc = IF d = c THEN "queued" ELSE op[d].pc
    BY <1>3 DEF OpsTyped, Operations
  <2>5. Current' = Current
    BY <1>1, <2>4 DEF Current
  <2> QED
    BY <1>3, <2>1, <2>3, <2>4, <2>5 DEF Turns
<1>4. CASE /\ ~busy /\ busy' /\ busy' = TRUE /\ UNCHANGED queue
           /\ op' = [op EXCEPT ![c] = new]
  <2>1. OpsTyped'
    BY <1>4 DEF OpsTyped
  <2>2. \A d \in Callers : op'[d].pc = IF d = c THEN "reading" ELSE op[d].pc
    BY <1>4 DEF OpsTyped
  <2>3. Current = {} /\ queue = <<>>
    BY <1>4 DEF Turns
  <2>4. Current' = {c}
    BY <2>2, <2>3 DEF Current
  <2>5. \A d : ~InQueue(d) /\ ~InQueue(d)'
    BY <1>4, <2>3 DEF InQueue
  <2>6. \A d \in Callers : op'[d].pc = "queued" <=> InQueue(d)'
    BY <2>2, <2>5 DEF Turns
  <2>7. Turns'
    BY <1>4, <2>3, <2>4, <2>6 DEF Turns
  <2>8. op' = [op EXCEPT ![c] = [new EXCEPT !.pc = "reading"]]
    BY <1>4 DEF Operations
  <2> QED
    BY <2>1, <2>7, <2>8
<1> QED
  BY <1>3, <1>4 DEF Perform

(* The current operation goes on to another stage of its turn. *)
LEMMA TurnGoesOn ==
  ASSUME OpsTyped, Turns, NEW c \in Current, NEW new \in Operations,
         new.pc \in {"reading", "opening", "writing"},
         op' = [op EXCEPT ![c] = new], UNCHANGED <<queue, busy>>
  PROVE  OpsTyped' /\ Turns'
<1>1. OpsTyped'
  BY DEF OpsTyped, Current
<1>2. \A d \in Callers : op'[d].pc = IF d = c THEN new.pc ELSE op[d].pc
  BY DEF OpsTyped
<1>3. Current' = Current
  BY <1>2 DEF Current
<1>4. \A d : InQueue(d)' <=> InQueue(d)
  BY DEF InQueue
<1>5. \A d \in Callers : op'[d].pc = "queued" <=> op[d].pc = "queued"
  BY <1>2 DEF Current
<1> QED
  BY <1>1, <1>3, <1>4, <1>5 DEF Turns

(* An operation that only waits for its rename is no part of this. *)
LEMMA RenameIsNoTurn ==
  ASSUME OpsTyped, Turns, NEW c \in Renaming, NEW new \in Operations,
         new.pc \in {"done", "failed"},
         op' = [op EXCEPT ![c] = new], UNCHANGED <<queue, busy>>
  PROVE  OpsTyped' /\ Turns'
<1>1. OpsTyped'
  BY DEF OpsTyped, Renaming
<1>2. \A d \in Callers : op'[d].pc = IF d = c THEN new.pc ELSE op[d].pc
  BY DEF OpsTyped
<1>3. Current' = Current
  BY <1>2 DEF Current, Renaming
<1>4. \A d : InQueue(d)' <=> InQueue(d)
  BY DEF InQueue
<1>5. \A d \in Callers : op'[d].pc = "queued" <=> op[d].pc = "queued"
  BY <1>2 DEF Renaming
<1> QED
  BY <1>1, <1>3, <1>4, <1>5 DEF Turns

(***************************************************************************)
(* The current operation ends its turn with new, and the first in the      *)
(* queue, if there is one, begins.                                         *)
(***************************************************************************)
LEMMA TurnEnds ==
  ASSUME OpsTyped, Turns, NEW c \in Current, NEW new \in Operations,
         new.pc \in {"done", "failed", "renaming"},
         FinishedOperation([op EXCEPT ![c] = new])
  PROVE  /\ OpsTyped' /\ Turns'
         /\ op'[c] = new
         /\ \A d \in Callers \ {c} :
              \/ op'[d] = op[d]
              \/ /\ op[d].pc = "queued"
                 /\ op'[d] = [op[d] EXCEPT !.pc = "reading"]
<1> DEFINE ops == [op EXCEPT ![c] = new]
<1>1. /\ c \in Callers /\ op[c].pc # "queued" /\ ~InQueue(c)
      /\ Current = {c} /\ busy
  BY DEF Turns, Current
<1>2. /\ ops \in [Callers -> Operations] /\ ops[c] = new
      /\ \A d \in Callers \ {c} : ops[d] = op[d]
  BY <1>1 DEF OpsTyped
<1> HIDE DEF ops
<1>3. CASE /\ queue # <<>> /\ queue' = Tail(queue) /\ UNCHANGED busy
           /\ op' = [ops EXCEPT ![Head(queue)].pc = "reading"]
  <2>0. PICK h \in Callers : h = Head(queue)
    BY <1>3, Left DEF OpsTyped, Turns
  <2>1. /\ queue' \in Seq(Callers) /\ h \in Callers /\ InQueue(h)
        /\ \A d : InQueue(d)' <=> d # h /\ InQueue(d)
        /\ \A i, j \in 1..Len(queue') : queue'[i] = queue'[j] => i = j
    BY <1>3, <2>0, Left DEF OpsTyped, Turns
  <2>2. h # c /\ op[h].pc = "queued"
    BY <1>1, <2>1 DEF Turns
  <2>3. op' = [ops EXCEPT ![h] = [op[h] EXCEPT !.pc = "reading"]]
    BY <1>2, <1>3, <2>0, <2>1, <2>2
  <2>4. [op[h] EXCEPT !.pc = "reading"] \in Operations
    BY <2>1 DEF OpsTyped, Operations, Stages
  <2>5. OpsTyped'
    BY <1>2, <1>3, <2>1, <2>3, <2>4 DEF OpsTyped
  <2>6. /\ op'[c] = new /\ op'[h] = [op[h] EXCEPT !.pc = "reading"]
        /\ \A d \in Callers \ {c, h} : op'[d] = op[d]
    BY <1>1, <1>2, <2>1, <2>2, <2>3
  <2>7. op'[h].pc = "reading"
    BY <2>1, <2>6 DEF OpsTyped, Operations
  <2>8. Current' = {h}
    <3>1. \A d \in Callers \ {c} :
             op[d].pc \notin {"reading", "opening", "writing"}
      BY <1>1 DEF Current
    <3>2. \A d \in Callers :
             op'[d].pc \in {"reading", "opening", "writing"} <=> d = h
      BY <1>1, <2>2, <2>6, <2>7, <3>1
    <3> QED
      BY <3>2 DEF Current
  <2>9. \A d \in Callers : op'[d].pc = "queued" <=> InQueue(d)'
    <3>1. \A d \in Callers : op[d].pc = "queued" <=> InQueue(d)
      BY DEF Turns
    <3>2. /\ op'[c].pc # "queued" /\ ~InQueue(c)'
          /\ op'[h].pc # "queued" /\ ~InQueue(h)'
      BY <1>1, <2>1, <2>6, <2>7
    <3>3. \A d \in Callers \ {c, h} :
            op'[d].pc = "queued" <=> InQueue(d)'
      BY <2>1, <2>6, <3>1
    <3> QED
      BY <3>2, <3>3
  <2> QED
    BY <1>1, <1>3, <2>1, <2>2, <2>5, <2>6, <2>8, <2>9 DEF Turns
<1>4. CASE /\ queue = <<>> /\ UNCHANGED queue /\ op' = ops /\ busy' = FALSE
  <2>1. OpsTyped'
    BY <1>2, <1>4 DEF OpsTyped
  <2>2. Current' = {}
    BY <1>1, <1>2, <1>4 DEF Current
  <2>3. \A d : ~InQueue(d) /\ ~InQueue(d)'
    BY <1>4 DEF InQueue
  <2>4. \A d \in Callers : op'[d].pc # "queued"
    BY <1>2, <1>4, <2>3 DEF Turns
  <2> QED
    BY <1>2, <1>4, <2>1, <2>2, <2>3, <2>4 DEF Turns
<1> QED
  BY <1>3, <1>4 DEF FinishedOperation, ops

-----------------------------------------------------------------------------
(***************************************************************************)
(* The inductive invariant.  Beyond the turns: an operation under way is a *)
(* get or a set of a key.  And as long as no set() overtook a rename,      *)
(* nobody opens the temporary file before it has been renamed, and what a  *)
(* set() is about to write is the file's contents with its record changed. *)
(***************************************************************************)
WellFormed ==
  \A c \in Callers :
    UnderWay(c) => op[c].kind \in {"get", "set"} /\ op[c].key \in Keys

Writing(c) == op[c].pc \in {"opening", "writing"}
Changes(c) ==
  /\ op[c].kind = "set" /\ op[c].key \in Keys
  /\ op[c].records = [Contents EXCEPT ![op[c].key] = op[c].value]
Undisturbed ==
  /\ path # Torn /\ writeTo # "path"
  /\ \A c \in Renaming : tmp = op[c].records
  /\ \A c, d \in Renaming : c = d
  /\ Renaming # {} => writeTo = "none" /\ \A c \in Callers : ~Writing(c)
  /\ \A c \in Callers : op[c].pc = "writing" => writeTo = "tmp"
  /\ \A c \in Callers : Writing(c) \/ c \in Renaming => Changes(c)

DbInv ==
  /\ OpsTyped /\ FilesTyped /\ Turns /\ WellFormed
  /\ ~overtaken => Undisturbed

(* The other operations stay as they are; one may begin. *)
OthersStay(c) ==
  \A d \in Callers \ {c} :
    \/ op'[d] = op[d]
    \/ op[d].pc = "queued" /\ op'[d] = [op[d] EXCEPT !.pc = "reading"]

(* What a reader finds are records, whatever the file holds. *)
LEMMA ContentsTyped == FilesTyped => Contents \in Records
BY DEF FilesTyped, Contents, Records, NoRecords

(* No records are taken for a torn file or for none. *)
LEMMA TornIsNoRecords == Torn \notin Records /\ Absent \notin Records
BY DatabaseAssumption DEF Records

(* What the end of a turn changes: who writes, who waits for a rename. *)
LEMMA AfterTurn ==
  ASSUME OpsTyped, OpsTyped', Turns, WellFormed, NEW c \in Current,
         OthersStay(c), op'[c].pc \in {"done", "failed", "renaming"},
         op'[c].kind = op[c].kind, op'[c].key = op[c].key
  PROVE  /\ WellFormed'
         /\ \A d \in Callers : ~Writing(d)'
         /\ \A d \in Callers \ {c} : Writing(d) => FALSE
         /\ \A d \in Callers \ {c} : (d \in Renaming)' <=> d \in Renaming
         /\ \A d \in Callers \ {c} : d \in Renaming => op'[d] = op[d]
         /\ c \notin Renaming
<1>1. c \in Callers /\ op[c].pc \notin {"queued", "renaming"} /\ UnderWay(c)
  BY DEF Current, UnderWay, Stages
<1>2. ASSUME NEW d \in Callers \ {c}
      PROVE  /\ UnderWay(d)' => UnderWay(d)
             /\ op'[d].kind = op[d].kind /\ op'[d].key = op[d].key
             /\ ~Writing(d) /\ ~Writing(d)'
             /\ (d \in Renaming)' <=> d \in Renaming
             /\ d \in Renaming => op'[d] = op[d]
  <2>1. d \notin Current
    BY DEF Turns
  <2>2. CASE op'[d] = op[d]
    BY <2>1, <2>2 DEF Current, UnderWay, Writing, Renaming
  <2>3. CASE op[d].pc = "queued" /\ op'[d] = [op[d] EXCEPT !.pc = "reading"]
    <3>1. /\ op'[d].pc = "reading" /\ op'[d].kind = op[d].kind
          /\ op'[d].key = op[d].key
      BY <2>3 DEF OpsTyped, Operations
    <3> QED
      BY <2>3, <3>1 DEF UnderWay, Writing, Renaming, Stages
  <2> QED
    BY <2>2, <2>3 DEF OthersStay
<1>3. WellFormed'
  BY <1>1, <1>2 DEF WellFormed
<1>4. ~Writing(c)'
  BY DEF Writing
<1> QED
  BY <1>1, <1>2, <1>3, <1>4 DEF Renaming

(* A turn that ends without a rename leaves the files as they are. *)
LEMMA EndKeepsFiles ==
  ASSUME DbInv, OpsTyped', NEW c \in Current, OthersStay(c),
         op'[c].pc \in {"done", "failed"},
         op'[c].kind = op[c].kind, op'[c].key = op[c].key,
         ~overtaken, UNCHANGED <<path, tmp>>, writeTo' \in {writeTo, "none"}
  PROVE  Undisturbed'
<1>1. Undisturbed
  BY DEF DbInv
<1>2. /\ \A d \in Callers : ~Writing(d)'
      /\ \A d \in Callers \ {c} : (d \in Renaming)' <=> d \in Renaming
      /\ \A d \in Callers \ {c} : d \in Renaming => op'[d] = op[d]
      /\ c \in Callers /\ c \notin Renaming
  BY AfterTurn DEF DbInv, Current
<1>3. Renaming' = Renaming /\ Renaming \subseteq Callers
  BY <1>2 DEF Renaming
<1>4. Contents' = Contents
  BY DEF Contents
<1>5. \A d \in Renaming : Changes(d)'
  BY <1>1, <1>2, <1>3, <1>4 DEF Undisturbed, Changes
<1>6. \A d \in Callers : op'[d].pc # "writing"
  BY <1>2 DEF Writing
<1> QED
  BY <1>1, <1>2, <1>3, <1>5, <1>6 DEF Undisturbed

(* get() and set(), performed at once or queued. *)
LEMMA CallKeepsInv ==
  ASSUME DbInv, NEW c \in Callers, NEW k \in Keys,
         NEW v \in Values \cup {Nothing}, NEW kind \in {"get", "set"},
         Call(c, kind, k, v)
  PROVE  DbInv'
<1> DEFINE new == [kind |-> kind, key |-> k, value |-> v, pc |-> "reading",
                   records |-> NoRecords]
<1>1. new \in Operations /\ new.pc = "reading"
  BY DEF Operations, Stages, NoRecords, Records
<1>2. ~UnderWay(c) /\ Perform(c, new) /\ UNCHANGED <<File, overtaken>>
  BY DEF Call
<1> HIDE DEF new
<1>3. /\ OpsTyped' /\ Turns'
      /\ \E pc \in {"reading", "queued"} :
           op' = [op EXCEPT ![c] = [new EXCEPT !.pc = pc]]
  BY <1>1, <1>2, PerformTakesTurn DEF DbInv
<1>4. /\ op'[c].pc \in {"reading", "queued"}
      /\ op'[c].kind = kind /\ op'[c].key = k
      /\ \A d \in Callers \ {c} : op'[d] = op[d]
  BY <1>3 DEF DbInv, OpsTyped, new
<1>5. WellFormed'
  BY <1>4 DEF DbInv, WellFormed, UnderWay
<1>6. FilesTyped' /\ Contents' = Contents
  BY <1>2 DEF DbInv, FilesTyped, File, Contents
<1>7. Renaming' = Renaming
  BY <1>2, <1>4 DEF Renaming, UnderWay, Stages
<1>8. \A d \in Callers : /\ Writing(d)' <=> Writing(d)
                         /\ op'[d].pc = "writing" <=> op[d].pc = "writing"
                         /\ Writing(d) \/ d \in Renaming => op'[d] = op[d]
  BY <1>2, <1>4 DEF Writing, Renaming, UnderWay, Stages
<1>9. ASSUME Undisturbed PROVE Undisturbed'
  <2>1. \A d \in Callers : Writing(d) \/ d \in Renaming => Changes(d)'
    BY <1>6, <1>8, <1>9 DEF Undisturbed, Changes
  <2>2. \A d \in Renaming : op'[d] = op[d]
    BY <1>8 DEF Renaming
  <2> QED
    BY <1>2, <1>7, <1>8, <1>9, <2>1, <2>2 DEF Undisturbed, File
<1> QED
  BY <1>2, <1>3, <1>5, <1>6, <1>9 DEF DbInv

(* The turns that end at once: errors, and what a get() reads. *)
LEMMA EndKeepsInv ==
  ASSUME DbInv, NEW c \in Callers, NEW new \in Operations,
         new.pc \in {"done", "failed"},
         new.kind = op[c].kind, new.key = op[c].key,
         c \in Current, FinishedOperation([op EXCEPT ![c] = new]),
         FilesTyped', UNCHANGED overtaken,
         overtaken \/ (UNCHANGED <<path, tmp>> /\ writeTo' \in {writeTo, "none"})
  PROVE  DbInv' /\ op'[c] = new /\ OthersStay(c)
<1>1. OpsTyped' /\ Turns' /\ op'[c] = new /\ OthersStay(c)
  BY TurnEnds DEF DbInv, OthersStay
<1>2. WellFormed'
  BY <1>1, AfterTurn DEF DbInv
<1>3. ~overtaken => Undisturbed'
  BY <1>1, EndKeepsFiles
<1> QED
  BY <1>1, <1>2, <1>3 DEF DbInv

(* Errors of _read() and of fs.writeFile: only the operation fails. *)
LEMMA FailureKeepsInv ==
  ASSUME DbInv, NEW c \in Callers,
         ReadFails(c) \/ ParseFails(c) \/ OpenFails(c) \/ WriteFails(c)
  PROVE  /\ DbInv' /\ OthersStay(c)
         /\ op'[c] = [op[c] EXCEPT !.pc = "failed"] /\ UnderWay(c)
         /\ ~overtaken => UNCHANGED path
         /\ UNCHANGED overtaken
<1> DEFINE new == [op[c] EXCEPT !.pc = "failed"]
<1>1. /\ new \in Operations /\ new.pc = "failed"
      /\ new.kind = op[c].kind /\ new.key = op[c].key
  BY DEF DbInv, OpsTyped, Operations
<1>2. c \in Current /\ UnderWay(c)
  BY DEF ReadFails, ParseFails, OpenFails, WriteFails, Current, UnderWay, Stages
<1>3. FinishedOperation([op EXCEPT ![c] = new]) /\ UNCHANGED overtaken
  BY DEF ReadFails, ParseFails, OpenFails, WriteFails, Rejected, File
<1> HIDE DEF new
<1>4. FilesTyped'
  BY DEF ReadFails, ParseFails, OpenFails, WriteFails, File, DbInv, FilesTyped
<1>5. overtaken \/ (UNCHANGED <<path, tmp>> /\ writeTo' \in {writeTo, "none"})
  BY DEF ReadFails, ParseFails, OpenFails, WriteFails, File, DbInv, Undisturbed
<1>6. DbInv' /\ op'[c] = new /\ OthersStay(c)
  BY <1>1, <1>2, <1>3, <1>4, <1>5, EndKeepsInv
<1> QED
  BY <1>2, <1>3, <1>5, <1>6 DEF new

(* A get() is answered with what the file holds. *)
LEMMA ReadForGetKeepsInv ==
  ASSUME DbInv, NEW c \in Callers, ReadForGet(c)
  PROVE  /\ DbInv' /\ OthersStay(c) /\ UnderWay(c)
         /\ op'[c] = [op[c] EXCEPT !.pc = "done",
                                   !.value = Contents[op[c].key]]
         /\ UNCHANGED <<File, overtaken>>
<1> DEFINE new == [op[c] EXCEPT !.pc = "done", !.value = Contents[op[c].key]]
<1>1. c \in Current /\ UnderWay(c) /\ UNCHANGED <<File, overtaken>>
  BY DEF ReadForGet, Current, UnderWay, Stages
<1>2. Contents[op[c].key] \in Values \cup {Nothing}
  BY <1>1, ContentsTyped DEF DbInv, WellFormed, Records
<1>3. /\ new \in Operations /\ new.pc = "done"
      /\ new.kind = op[c].kind /\ new.key = op[c].key
  BY <1>2 DEF DbInv, OpsTyped, Operations
<1>4. FinishedOperation([op EXCEPT ![c] = new])
  BY DEF ReadForGet
<1> HIDE DEF new
<1>5. FilesTyped' /\ UNCHANGED <<path, tmp, writeTo>>
  BY <1>1 DEF File, DbInv, FilesTyped
<1>6. DbInv' /\ op'[c] = new /\ OthersStay(c)
  BY <1>1, <1>3, <1>4, <1>5, EndKeepsInv
<1> QED
  BY <1>1, <1>6 DEF new

(* A set() has read the file and is about to write it. *)
LEMMA ReadForSetKeepsInv ==
  ASSUME DbInv, NEW c \in Callers, ReadForSet(c)
  PROVE  DbInv'
<1> DEFINE records == [Contents EXCEPT ![op[c].key] = op[c].value]
           new == [op[c] EXCEPT !.pc = "opening", !.records = records]
<1>1. /\ c \in Current /\ UnderWay(c) /\ op[c].pc = "reading"
      /\ UNCHANGED <<path, tmp, writeTo, queue, busy>>
      /\ op[c].kind = "set" /\ op' = [op EXCEPT ![c] = new]
      /\ overtaken' = (overtaken \/ Renaming # {})
  BY DEF ReadForSet, Current, UnderWay, Stages, File
<1>2. op[c].key \in Keys /\ records \in Records
  BY <1>1, ContentsTyped DEF DbInv, WellFormed, OpsTyped, Operations, Records
<1> HIDE DEF records
<1>3. /\ new \in Operations /\ new.pc = "opening" /\ new.records = records
      /\ new.kind = "set" /\ new.key = op[c].key /\ new.value = op[c].value
  BY <1>1, <1>2 DEF DbInv, OpsTyped, Operations, Stages
<1> HIDE DEF new
<1>4. OpsTyped' /\ Turns'
  BY <1>1, <1>3, TurnGoesOn DEF DbInv
<1>5. op'[c] = new /\ \A d \in Callers \ {c} : op'[d] = op[d]
  BY <1>1 DEF DbInv, OpsTyped
<1>6. FilesTyped' /\ Contents' = Contents
  BY <1>1 DEF DbInv, FilesTyped, Contents
<1>7. WellFormed'
  BY <1>2, <1>3, <1>5 DEF DbInv, WellFormed, UnderWay
<1>8. ASSUME ~overtaken' PROVE Undisturbed'
  <2>1. Undisturbed /\ Renaming = {}
    BY <1>1, <1>8 DEF DbInv
  <2>2. Renaming' = {}
    BY <1>3, <1>5, <2>1 DEF Renaming
  <2>3. Changes(c)'
    BY <1>2, <1>3, <1>5, <1>6 DEF Changes, records
  <2>4. \A d \in Callers \ {c} : Writing(d)' => Changes(d)'
    BY <1>5, <1>6, <2>1 DEF Undisturbed, Changes, Writing
  <2>5. \A d \in Callers : op'[d].pc = "writing" => writeTo' = "tmp"
    BY <1>1, <1>3, <1>5, <2>1 DEF Undisturbed
  <2> QED
    BY <1>1, <2>1, <2>2, <2>3, <2>4, <2>5 DEF Undisturbed
<1> QED
  BY <1>4, <1>6, <1>7, <1>8 DEF DbInv

(* The temporary file is empty, and torn until it is written. *)
LEMMA OpenedKeepsInv ==
  ASSUME DbInv, NEW c \in Callers, Opened(c)
  PROVE  DbInv'
<1> DEFINE new == [op[c] EXCEPT !.pc = "writing"]
<1>1. /\ c \in Current /\ Writing(c) /\ UnderWay(c) /\ op[c].pc = "opening"
      /\ UNCHANGED <<path, queue, busy, overtaken>>
      /\ tmp' = Torn /\ writeTo' = "tmp" /\ op' = [op EXCEPT ![c] = new]
  BY DEF Opened, Current, UnderWay, Stages, Writing
<1>2. /\ new \in Operations /\ new.pc = "writing"
      /\ new.kind = op[c].kind /\ new.key = op[c].key
      /\ new.value = op[c].value /\ new.records = op[c].records
  BY DEF DbInv, OpsTyped, Operations, Stages
<1> HIDE DEF new
<1>3. OpsTyped' /\ Turns'
  BY <1>1, <1>2, TurnGoesOn DEF DbInv
<1>4. op'[c] = new /\ \A d \in Callers \ {c} : op'[d] = op[d]
  BY <1>1 DEF DbInv, OpsTyped
<1>5. FilesTyped' /\ Contents' = Contents
  BY <1>1 DEF DbInv, FilesTyped, Contents
<1>6. WellFormed'
  BY <1>1, <1>2, <1>4 DEF DbInv, WellFormed, UnderWay
<1>7. ASSUME Undisturbed PROVE Undisturbed'
  <2>1. Renaming = {}
    BY <1>1, <1>7 DEF Undisturbed
  <2>2. Renaming' = {}
    BY <1>2, <1>4, <2>1 DEF Renaming
  <2>3. Changes(c)
    BY <1>1, <1>7 DEF Undisturbed
  <2>4. Changes(c)'
    BY <1>2, <1>4, <1>5, <2>3 DEF Changes
  <2>5. \A d \in Callers \ {c} : Writing(d)' => Changes(d)'
    BY <1>4, <1>5, <1>7 DEF Undisturbed, Changes, Writing
  <2> QED
    BY <1>1, <1>7, <2>2, <2>4, <2>5 DEF Undisturbed
<1> QED
  BY <1>1, <1>3, <1>5, <1>6, <1>7 DEF DbInv

(* The temporary file is written and the next operation begins. *)
LEMMA WrittenKeepsInv ==
  ASSUME DbInv, NEW c \in Callers, Written(c)
  PROVE  /\ DbInv' /\ OthersStay(c) /\ UnderWay(c)
         /\ op'[c] = [op[c] EXCEPT !.pc = "renaming"]
         /\ UNCHANGED overtaken
         /\ ~overtaken => UNCHANGED path
<1> DEFINE new == [op[c] EXCEPT !.pc = "renaming"]
<1>1. /\ c \in Current /\ Writing(c) /\ UnderWay(c) /\ op[c].pc = "writing"
      /\ tmp' = (IF writeTo = "tmp" THEN op[c].records ELSE tmp)
      /\ path' = (IF writeTo = "path" THEN op[c].records ELSE path)
      /\ writeTo' = "none" /\ UNCHANGED overtaken
      /\ FinishedOperation([op EXCEPT ![c] = new])
  BY DEF Written, Current, UnderWay, Stages, Writing
<1>2. /\ new \in Operations /\ new.pc = "renaming"
      /\ new.kind = op[c].kind /\ new.key = op[c].key
      /\ new.value = op[c].value /\ new.records = op[c].records
      /\ new.records \in Records
  BY DEF DbInv, OpsTyped, Operations, Stages
<1>3. /\ OpsTyped' /\ Turns' /\ op'[c] = new /\ OthersStay(c)
  <2> HIDE DEF new
  <2> QED
    BY <1>1, <1>2, TurnEnds DEF DbInv, OthersStay
<1> HIDE DEF new
<1>4. FilesTyped'
  BY <1>1, <1>2 DEF DbInv, FilesTyped
<1>5. /\ WellFormed' /\ \A d \in Callers : ~Writing(d)'
      /\ \A d \in Callers \ {c} : (d \in Renaming)' <=> d \in Renaming
  BY <1>1, <1>2, <1>3, AfterTurn DEF DbInv
<1>6. ASSUME ~overtaken PROVE Undisturbed' /\ UNCHANGED path
  <2>1. /\ Undisturbed /\ Renaming = {} /\ Changes(c)
        /\ writeTo = "tmp" /\ path # Torn
    BY <1>1, <1>6 DEF DbInv, Undisturbed
  <2>2. Renaming' = {c} /\ op'[c].records = op[c].records
    BY <1>2, <1>3, <1>5, <2>1 DEF Renaming
  <2>3. UNCHANGED path /\ tmp' = op[c].records /\ Contents' = Contents
    BY <1>1, <2>1 DEF Contents
  <2>4. Changes(c)'
    BY <1>2, <1>3, <2>1, <2>3 DEF Changes
  <2>5. \A d \in Callers : op'[d].pc # "writing"
    BY <1>5 DEF Writing
  <2> QED
    BY <1>1, <1>5, <2>1, <2>2, <2>3, <2>4, <2>5 DEF Undisturbed
<1> QED
  BY <1>1, <1>3, <1>4, <1>5, <1>6 DEF DbInv, new

(* The rename of a set() is done, or failed. *)
LEMMA RenameKeepsInv ==
  ASSUME DbInv, NEW c \in Callers, NEW new \in Operations,
         op[c].pc = "renaming", new.pc \in {"done", "failed"},
         op' = [op EXCEPT ![c] = new], UNCHANGED <<queue, busy, overtaken>>,
         \/ UNCHANGED <<path, tmp, writeTo>>
         \/ /\ tmp # Absent /\ path' = tmp /\ tmp' = Absent
            /\ writeTo' = (IF writeTo = "tmp" THEN "path" ELSE "none")
  PROVE  DbInv'
<1>1. c \in Renaming
  BY DEF Renaming
<1>2. OpsTyped' /\ Turns'
  BY <1>1, RenameIsNoTurn DEF DbInv
<1>3. op'[c] = new /\ \A d \in Callers \ {c} : op'[d] = op[d]
  BY DEF DbInv, OpsTyped
<1>4. FilesTyped'
  BY DEF DbInv, FilesTyped
<1>5. WellFormed'
  BY <1>3 DEF DbInv, WellFormed, UnderWay, Stages
<1>6. ASSUME Undisturbed PROVE Undisturbed'
  <2>1. /\ Renaming = {c} /\ writeTo = "none" /\ tmp = op[c].records
        /\ \A d \in Callers : ~Writing(d)
    BY <1>1, <1>6 DEF Undisturbed
  <2>2. /\ Renaming' = {} /\ \A d \in Callers : ~Writing(d)'
        /\ \A d \in Callers : op'[d].pc # "writing"
    BY <1>3, <2>1 DEF Renaming, Writing
  <2>3. path' # Torn /\ writeTo' # "path"
    BY <1>6, <2>1, TornIsNoRecords
       DEF Undisturbed, DbInv, OpsTyped, Operations
  <2> QED
    BY <2>2, <2>3 DEF Undisturbed
<1> QED
  BY <1>2, <1>4, <1>5, <1>6 DEF DbInv

(* The rename has ended, either way. *)
LEMMA RenamedKeepsInv ==
  ASSUME DbInv, NEW c \in Callers, Renamed(c) \/ RenameFails(c)
  PROVE  DbInv'
<1>1. CASE Renamed(c)
  <2> DEFINE new == [op[c] EXCEPT !.pc = "done"]
  <2>1. new \in Operations /\ new.pc = "done"
    BY DEF DbInv, OpsTyped, Operations
  <2>2. op' = [op EXCEPT ![c] = new]
    BY <1>1 DEF Renamed
  <2> HIDE DEF new
  <2> QED
    BY <1>1, <2>1, <2>2, RenameKeepsInv DEF Renamed
<1>2. CASE RenameFails(c)
  <2> DEFINE new == [op[c] EXCEPT !.pc = "failed"]
  <2>1. new \in Operations /\ new.pc = "failed"
    BY DEF DbInv, OpsTyped, Operations
  <2>2. op' = [op EXCEPT ![c] = new]
    BY <1>2 DEF RenameFails, Rejected
  <2> HIDE DEF new
  <2> QED
    BY <1>2, <2>1, <2>2, RenameKeepsInv DEF RenameFails, File
<1> QED
  BY <1>1, <1>2

(* A caller that has not called has no operation under way. *)
LEMMA NoOperationTyped ==
  /\ NoOperation \in Operations /\ NoOperation.pc = "done"
BY DEF NoOperation, Operations, NoRecords, Records

(* Nobody has called since the start, or the restart. *)
LEMMA NobodyCalls ==
  ASSUME op = [c \in Callers |-> NoOperation], queue = <<>>, busy = FALSE,
         writeTo = "none", FilesTyped, ~overtaken => path # Torn
  PROVE  DbInv
<1>1. \A c \in Callers : op[c].pc = "done"
  BY NoOperationTyped
<1>2. /\ Current = {} /\ Renaming = {} /\ \A c : ~InQueue(c)
      /\ \A c \in Callers : ~Writing(c) /\ ~UnderWay(c)
  BY <1>1 DEF Current, Renaming, InQueue, Writing, UnderWay, Stages
<1>3. OpsTyped
  <2>1. op \in [Callers -> Operations]
    BY NoOperationTyped
  <2>2. queue \in Seq(Callers)
    OBVIOUS
  <2>3. busy \in BOOLEAN
    OBVIOUS
  <2> QED
    BY <2>1, <2>2, <2>3 DEF OpsTyped
<1>4. Turns
  BY <1>1, <1>2 DEF Turns
<1>5. WellFormed
  BY <1>2 DEF WellFormed
<1>6. ~overtaken => Undisturbed
  BY <1>1, <1>2 DEF Undisturbed
<1> QED
  BY <1>3, <1>4, <1>5, <1>6 DEF DbInv

(* A restart forgets the operations, and only a temporary file is torn. *)
LEMMA RestartKeepsInv ==
  ASSUME DbInv, Restart
  PROVE  DbInv'
<1>1. FilesTyped' /\ (~overtaken' => path' # Torn)
  BY DEF Restart, DbInv, FilesTyped, Undisturbed
<1>2. \A c \in Callers : op'[c].pc = "done"
  BY NoOperationTyped DEF Restart
<1>3. /\ Current' = {} /\ Renaming' = {} /\ \A c : ~InQueue(c)'
      /\ \A c \in Callers : ~Writing(c)' /\ ~UnderWay(c)'
  BY <1>2 DEF Restart, Current, Renaming, InQueue, Writing, UnderWay, Stages
<1>4. OpsTyped'
  <2>1. op' \in [Callers -> Operations]
    BY NoOperationTyped DEF Restart
  <2>2. queue' \in Seq(Callers)
    BY DEF Restart
  <2>3. busy' \in BOOLEAN
    BY DEF Restart
  <2> QED
    BY <2>1, <2>2, <2>3 DEF OpsTyped
<1>5. Turns'
  BY <1>2, <1>3 DEF Turns, Restart
<1>6. WellFormed'
  BY <1>3 DEF WellFormed
<1>7. ~overtaken' => Undisturbed'
  BY <1>1, <1>2, <1>3 DEF Undisturbed, Restart
<1> QED
  BY <1>1, <1>4, <1>5, <1>6, <1>7 DEF DbInv

(* The invariant holds at first. *)
LEMMA InitInv == DbInit => DbInv
<1>1. SUFFICES ASSUME DbInit PROVE DbInv
  OBVIOUS
<1>2. path # Torn
  BY <1>1, DatabaseAssumption DEF DbInit
<1>3. FilesTyped
  <2>1. /\ path \in Records \cup {Absent, Torn}
        /\ tmp \in Records \cup {Absent, Torn}
        /\ writeTo \in {"none", "tmp", "path"}
    BY <1>1 DEF DbInit
  <2>2. overtaken \in BOOLEAN
    BY <1>1 DEF DbInit
  <2> QED
    BY <2>1, <2>2 DEF FilesTyped
<1> QED
  BY <1>1, <1>2, <1>3, NobodyCalls DEF DbInit

(* And every step keeps it. *)
LEMMA StepInv == DbInv /\ [DbNext]_dbVars => DbInv'
<1> SUFFICES ASSUME DbInv, [DbNext]_dbVars PROVE DbInv'
  OBVIOUS
<1>1. CASE \E c \in Callers, k \in Keys :
             Get(c, k) \/ \E v \in Values : Set(c, k, v)
  BY <1>1, CallKeepsInv DEF Get, Set
<1>2. CASE \E c \in Callers : Progress(c)
  BY <1>2, FailureKeepsInv, ReadForGetKeepsInv, ReadForSetKeepsInv,
     OpenedKeepsInv, WrittenKeepsInv, RenamedKeepsInv DEF Progress
<1>3. CASE Restart
  BY <1>3, RestartKeepsInv
<1>4. CASE UNCHANGED dbVars
  BY <1>4
     DEF dbVars, DbInv, OpsTyped, FilesTyped, Turns, InQueue, Current,
         WellFormed, UnderWay, Undisturbed, Renaming, Writing, Changes, Contents
<1> QED
  BY <1>1, <1>2, <1>3, <1>4 DEF DbNext

(* The inductive invariant holds throughout. *)
THEOREM DatabaseInvariant == DbSpec => []DbInv
BY InitInv, StepInv, PTL DEF DbSpec

(***************************************************************************)
(* Errors, queueing and restarts never start two operations at a time and  *)
(* never lose one, for any number of callers.                              *)
(***************************************************************************)
THEOREM TakesTurns == DbSpec => []OneAtATime
<1>1. DbInv => OneAtATime
  BY OneAtATimeParts DEF DbInv
<1> QED
  BY <1>1, DatabaseInvariant, PTL

(***************************************************************************)
(* As long as no set() overtook a rename the file is never torn, whatever  *)
(* fails or crashes, and what waits for its rename is what its set() wrote.*)
(***************************************************************************)
THEOREM FileStaysWhole == DbSpec => []FileIsWhole
<1>1. DbInv => FileIsWhole
  BY DEF DbInv, Undisturbed, FileIsWhole
<1> QED
  BY <1>1, DatabaseInvariant, PTL

-----------------------------------------------------------------------------
(* Refinement.  What is queued or begins is asked for, no more and no less. *)
LEMMA OthersLookTheSame ==
  ASSUME OpsTyped, NEW c \in Callers, OthersStay(c)
  PROVE  \A d \in Callers \ {c} : AbstractCall(d)' = AbstractCall(d)
<1> TAKE d \in Callers \ {c}
<1>1. CASE op'[d] = op[d]
  BY <1>1 DEF AbstractCall, UnderWay
<1>2. CASE op[d].pc = "queued" /\ op'[d] = [op[d] EXCEPT !.pc = "reading"]
  <2>1. /\ op'[d].kind = op[d].kind /\ op'[d].key = op[d].key
        /\ op'[d].value = op[d].value /\ op'[d].pc = "reading"
    BY <1>2 DEF OpsTyped, Operations
  <2> QED
    BY <1>2, <2>1 DEF AbstractCall, UnderWay, Stages
<1> QED
  BY <1>1, <1>2 DEF OthersStay

(* One call of the abstract store is as given and the others are the same. *)
LEMMA OneCallChanges ==
  ASSUME NEW c \in Callers, NEW new, AbstractCall(c)' = new,
         \A d \in Callers \ {c} : AbstractCall(d)' = AbstractCall(d)
  PROVE  [d \in Callers |-> AbstractCall(d)]' =
         [[d \in Callers |-> AbstractCall(d)] EXCEPT ![c] = new]
OBVIOUS

(* get() and set() ask. *)
LEMMA CallAsks ==
  ASSUME DbInv, NEW c \in Callers, NEW k \in Keys,
         NEW v \in Values \cup {Nothing}, NEW kind \in {"get", "set"},
         Call(c, kind, k, v)
  PROVE  Abstract!Ask(c)
<1> DEFINE new == [kind |-> kind, key |-> k, value |-> v, pc |-> "reading",
                   records |-> NoRecords]
           asked == [kind |-> kind, key |-> k, value |-> v, status |-> "asked"]
           call == [d \in Callers |-> AbstractCall(d)]
<1>1. /\ ~UnderWay(c) /\ UNCHANGED <<path, overtaken>>
      /\ \E pc \in {"reading", "queued"} :
           op' = [op EXCEPT ![c] = [new EXCEPT !.pc = pc]]
  BY DEF Call, Perform, File
<1>2. /\ op'[c].pc \in {"reading", "queued"}
      /\ op'[c].kind = kind /\ op'[c].key = k /\ op'[c].value = v
      /\ \A d \in Callers \ {c} : op'[d] = op[d]
  BY <1>1 DEF DbInv, OpsTyped
<1>3. AbstractCall(c)' = asked
  BY <1>2 DEF AbstractCall, UnderWay, Stages
<1>4. \A d \in Callers \ {c} : AbstractCall(d)' = AbstractCall(d)
  BY <1>2 DEF AbstractCall, UnderWay
<1>5. call' = [call EXCEPT ![c] = asked]
  BY <1>3, <1>4, OneCallChanges
<1>6. call[c].status # "asked"
  <2>1. op[c].pc # "asked"
    BY DEF DbInv, OpsTyped, Operations, Stages
  <2> QED
    BY <1>1, <2>1 DEF AbstractCall
<1>7. call'[c] = asked
  BY <1>3
<1>8. asked \in Abstract!Calls /\ asked.status = "asked"
  BY DEF Abstract!Calls
<1>9. UNCHANGED <<Contents, overtaken>>
  BY <1>1 DEF Contents
<1> HIDE DEF asked
<1> QED
  BY <1>5, <1>6, <1>7, <1>8, <1>9 DEF Abstract!Ask

(* An error fails a call and changes no record, unless all is lost. *)
LEMMA FailureFails ==
  ASSUME DbInv, NEW c \in Callers,
         ReadFails(c) \/ ParseFails(c) \/ OpenFails(c) \/ WriteFails(c)
         \/ RenameFails(c)
  PROVE  Abstract!Fail(c) \/ Abstract!AnythingGoes
<1> DEFINE call == [d \in Callers |-> AbstractCall(d)]
<1>1. /\ OthersStay(c) /\ UnderWay(c) /\ UNCHANGED overtaken
      /\ op'[c] = [op[c] EXCEPT !.pc = "failed"]
      /\ ~overtaken => UNCHANGED path
  <2>1. CASE RenameFails(c)
    BY <2>1 DEF RenameFails, Rejected, OthersStay, UnderWay, Stages, File,
                DbInv, OpsTyped
  <2>2. CASE ReadFails(c) \/ ParseFails(c) \/ OpenFails(c) \/ WriteFails(c)
    BY <2>2, FailureKeepsInv
  <2> QED
    BY <2>1, <2>2
<1>2. AbstractCall(c)' = [AbstractCall(c) EXCEPT !.status = "failed"]
  <2>1. /\ op'[c].kind = op[c].kind /\ op'[c].key = op[c].key
        /\ op'[c].value = op[c].value /\ op'[c].pc = "failed"
    BY <1>1 DEF DbInv, OpsTyped, Operations
  <2> QED
    BY <2>1 DEF AbstractCall, UnderWay, Stages
<1>3. \A d \in Callers \ {c} : AbstractCall(d)' = AbstractCall(d)
  BY <1>1, OthersLookTheSame DEF DbInv
<1>4. call' = [call EXCEPT ![c] = [AbstractCall(c) EXCEPT !.status = "failed"]]
  BY <1>2, <1>3, OneCallChanges
<1>5. call[c].status = "asked"
  BY <1>1 DEF AbstractCall
<1>6. overtaken' \/ UNCHANGED <<Contents, overtaken>>
  BY <1>1 DEF Contents, DbInv, FilesTyped
<1> QED
  BY <1>4, <1>5, <1>6 DEF Abstract!Fail, Abstract!AnythingGoes

(* A get() is answered with what the store holds at that moment. *)
LEMMA ReadAnswersGet ==
  ASSUME DbInv, NEW c \in Callers, ReadForGet(c)
  PROVE  Abstract!AnswerGet(c)
<1> DEFINE call == [d \in Callers |-> AbstractCall(d)]
           answered == [AbstractCall(c) EXCEPT !.status = "done",
                          !.value = Contents[AbstractCall(c).key]]
<1>1. /\ OthersStay(c) /\ UnderWay(c) /\ UNCHANGED <<File, overtaken>>
      /\ op'[c] = [op[c] EXCEPT !.pc = "done", !.value = Contents[op[c].key]]
      /\ op[c].kind = "get"
  BY ReadForGetKeepsInv DEF ReadForGet
<1>2. AbstractCall(c)' = answered
  <2>1. /\ op'[c].kind = op[c].kind /\ op'[c].key = op[c].key
        /\ op'[c].value = Contents[op[c].key] /\ op'[c].pc = "done"
    BY <1>1 DEF DbInv, OpsTyped, Operations
  <2>2. AbstractCall(c)' =
        [kind |-> op[c].kind, key |-> op[c].key,
         value |-> Contents[op[c].key], status |-> "done"]
    BY <2>1 DEF AbstractCall, UnderWay, Stages
  <2>3. PICK asked : asked = AbstractCall(c)
    OBVIOUS
  <2>4. PICK read : read = Contents[op[c].key]
    OBVIOUS
  <2>5. asked = [kind |-> op[c].kind, key |-> op[c].key,
                 value |-> op[c].value, status |-> "asked"]
    BY <1>1, <2>3 DEF AbstractCall
  <2>6. [asked EXCEPT !.status = "done", !.value = read] =
        [kind |-> op[c].kind, key |-> op[c].key,
         value |-> read, status |-> "done"]
    <3>1. PICK done : done = [asked EXCEPT !.status = "done"]
      OBVIOUS
    <3>2. done = [kind |-> op[c].kind, key |-> op[c].key,
                  value |-> op[c].value, status |-> "done"]
      BY <2>5, <3>1
    <3>3. [done EXCEPT !.value = read] =
          [kind |-> op[c].kind, key |-> op[c].key,
           value |-> read, status |-> "done"]
      BY <3>2
    <3> QED
      BY <3>1, <3>3
  <2>7. asked.key = op[c].key
    BY <2>5
  <2> QED
    BY <2>2, <2>3, <2>4, <2>6, <2>7
<1>3. \A d \in Callers \ {c} : AbstractCall(d)' = AbstractCall(d)
  BY <1>1, OthersLookTheSame DEF DbInv
<1>4. call' = [call EXCEPT ![c] = answered]
  BY <1>2, <1>3, OneCallChanges
<1>5. call[c].status = "asked" /\ call[c].kind = "get"
  BY <1>1 DEF AbstractCall
<1>6. UNCHANGED <<Contents, overtaken>>
  BY <1>1 DEF Contents, File
<1> QED
  BY <1>4, <1>5, <1>6 DEF Abstract!AnswerGet

(* Reading for a set(), opening and writing change nothing to be seen. *)
LEMMA WorkIsHidden ==
  ASSUME DbInv, NEW c \in Callers,
         ReadForSet(c) \/ Opened(c) \/ Written(c)
  PROVE  UNCHANGED Abstract!storeVars \/ Abstract!AnythingGoes
<1> DEFINE call == [d \in Callers |-> AbstractCall(d)]
<1>1. /\ OthersStay(c) /\ UnderWay(c) /\ UnderWay(c)'
      /\ op'[c].kind = op[c].kind /\ op'[c].key = op[c].key
      /\ op'[c].value = op[c].value
      /\ overtaken' \/ UNCHANGED <<path, overtaken>>
  <2>1. CASE ReadForSet(c)
    BY <2>1 DEF ReadForSet, OthersStay, UnderWay, Stages, File, DbInv,
                OpsTyped, FilesTyped, Operations
  <2>2. CASE Opened(c)
    BY <2>2 DEF Opened, OthersStay, UnderWay, Stages, DbInv, OpsTyped, Operations
  <2>3. CASE Written(c)
    <3>1. /\ OthersStay(c) /\ UnderWay(c)
          /\ op'[c] = [op[c] EXCEPT !.pc = "renaming"]
          /\ UNCHANGED overtaken
          /\ ~overtaken => UNCHANGED path
      BY <2>3, WrittenKeepsInv
    <3>2. op[c] \in Operations
      BY DEF DbInv, OpsTyped
    <3>3. /\ op'[c].pc = "renaming" /\ op'[c].kind = op[c].kind
          /\ op'[c].key = op[c].key /\ op'[c].value = op[c].value
      BY <3>1, <3>2 DEF Operations
    <3>4. overtaken' \/ UNCHANGED <<path, overtaken>>
      BY <3>1
    <3> QED
      BY <3>1, <3>3, <3>4 DEF UnderWay, Stages
  <2> QED
    BY <2>1, <2>2, <2>3
<1>2. AbstractCall(c)' = AbstractCall(c)
  BY <1>1 DEF AbstractCall
<1>3. \A d \in Callers : AbstractCall(d)' = AbstractCall(d)
  BY <1>1, <1>2, OthersLookTheSame DEF DbInv
<1>4. UNCHANGED call
  BY <1>3
<1> QED
  BY <1>1, <1>4 DEF Contents, Abstract!storeVars, Abstract!AnythingGoes

(* The rename gives the file the one record that the set() changes. *)
LEMMA RenameAnswersSet ==
  ASSUME DbInv, NEW c \in Callers, Renamed(c)
  PROVE  Abstract!AnswerSet(c) \/ Abstract!AnythingGoes
<1> DEFINE call == [d \in Callers |-> AbstractCall(d)]
<1>1. CASE overtaken
  BY <1>1 DEF Renamed, Abstract!AnythingGoes
<1>2. CASE ~overtaken
  <2>1. /\ UnderWay(c) /\ OthersStay(c) /\ c \in Renaming
        /\ op'[c] = [op[c] EXCEPT !.pc = "done"]
        /\ path' = tmp /\ UNCHANGED overtaken
    BY DEF Renamed, UnderWay, OthersStay, Renaming, Stages, DbInv, OpsTyped
  <2>2. tmp = op[c].records /\ Changes(c)
    BY <1>2, <2>1 DEF DbInv, Undisturbed
  <2>3. path' \notin {Absent, Torn}
    BY <2>1, <2>2, TornIsNoRecords DEF DbInv, OpsTyped, Operations
  <2>4. Contents' = [Contents EXCEPT ![op[c].key] = op[c].value]
    BY <2>1, <2>2, <2>3 DEF Contents, Changes
  <2>5. AbstractCall(c)' = [AbstractCall(c) EXCEPT !.status = "done"]
    <3>1. /\ op'[c].kind = op[c].kind /\ op'[c].key = op[c].key
          /\ op'[c].value = op[c].value /\ op'[c].pc = "done"
      BY <2>1 DEF DbInv, OpsTyped, Operations
    <3> QED
      BY <3>1 DEF AbstractCall, UnderWay, Stages
  <2>6. \A d \in Callers \ {c} : AbstractCall(d)' = AbstractCall(d)
    BY <2>1, OthersLookTheSame DEF DbInv
  <2>7. call' = [call EXCEPT ![c] = [AbstractCall(c) EXCEPT !.status = "done"]]
    BY <2>5, <2>6, OneCallChanges
  <2>8. /\ call[c].status = "asked" /\ call[c].kind = "set"
        /\ call[c].key = op[c].key /\ call[c].value = op[c].value
    BY <2>1, <2>2 DEF AbstractCall, Changes
  <2> QED
    BY <2>1, <2>4, <2>7, <2>8 DEF Abstract!AnswerSet
<1> QED
  BY <1>1, <1>2

(* A restart forgets the calls and keeps the records. *)
LEMMA RestartForgets ==
  ASSUME DbInv, Restart PROVE Abstract!StoreRestarts
<1>1. \A c \in Callers : AbstractCall(c)' = Abstract!NoCall
  BY DEF Restart, AbstractCall, NoOperation, UnderWay, Stages, Abstract!NoCall
<1>2. [c \in Callers |-> AbstractCall(c)]' =
      [c \in Callers |-> Abstract!NoCall]
  BY <1>1
<1>3. UNCHANGED <<Contents, overtaken>>
  BY DEF Restart, Contents
<1> QED
  BY <1>2, <1>3 DEF Abstract!StoreRestarts

(***************************************************************************)
(* get() and set() of database.js are atomic operations of a store: each   *)
(* takes effect at one moment between call and answer, for any callers,    *)
(* keys and values, until a set() overtakes a rename.                      *)
(***************************************************************************)
THEOREM ImplementsStore == DbSpec => StoreSpec
<1>1. DbInit => Abstract!StoreInit
  <2>1. SUFFICES ASSUME DbInit PROVE Abstract!StoreInit
    OBVIOUS
  <2>2. Contents = [k \in Keys |-> Nothing]
    BY <2>1 DEF DbInit, Contents, NoRecords
  <2>3. \A c \in Callers : AbstractCall(c) = Abstract!NoCall
    BY <2>1 DEF DbInit, AbstractCall, NoOperation, UnderWay, Stages,
                Abstract!NoCall
  <2>4. [c \in Callers |-> AbstractCall(c)] =
        [c \in Callers |-> Abstract!NoCall]
    BY <2>3
  <2>5. overtaken = FALSE
    BY <2>1 DEF DbInit
  <2> QED
    BY <2>2, <2>4, <2>5 DEF Abstract!StoreInit
<1>2. DbInv /\ [DbNext]_dbVars => [Abstract!StoreNext]_(Abstract!storeVars)
  <2> SUFFICES ASSUME DbInv, [DbNext]_dbVars
               PROVE  [Abstract!StoreNext]_(Abstract!storeVars)
    OBVIOUS
  <2>1. CASE \E c \in Callers, k \in Keys :
               Get(c, k) \/ \E v \in Values : Set(c, k, v)
    BY <2>1, CallAsks DEF Get, Set, Abstract!StoreNext
  <2>2. CASE \E c \in Callers : Progress(c)
    BY <2>2, FailureFails, ReadAnswersGet, WorkIsHidden, RenameAnswersSet
       DEF Progress, Abstract!StoreNext
  <2>3. CASE Restart
    BY <2>3, RestartForgets DEF Abstract!StoreNext
  <2>4. CASE UNCHANGED dbVars
    BY <2>4 DEF dbVars, Abstract!storeVars, Contents, AbstractCall, UnderWay
  <2> QED
    BY <2>1, <2>2, <2>3, <2>4 DEF DbNext
<1> QED
  BY <1>1, <1>2, DatabaseInvariant, PTL DEF DbSpec, StoreSpec, Abstract!StoreSpec

-----------------------------------------------------------------------------
(* The requests.                                                           *)

(* A request has its four fields. *)
Formed ==
  /\ req = [r \in Requests |-> req[r]]
  /\ \A r \in Requests :
       req[r] = [kind |-> req[r].kind, name |-> req[r].name,
                 pc |-> req[r].pc, users |-> req[r].users]

(* r is about to add or to remove a user. *)
Changing(r) == req[r].pc \in Handling /\ req[r].kind # "login"

(* The property, in these terms. *)
OneEach ==
  /\ \A u : u \in pendingUsers <=>
              \E r \in Requests : Changing(r) /\ req[r].name = u
  /\ \A r, q \in Requests :
       Changing(r) /\ Changing(q) /\ req[r].name = req[q].name => r = q

PendingInv == Formed /\ OneEach

(* What r does is seen by r only. *)
Others(r) ==
  \A q \in Requests \ {r} : /\ Changing(q)' <=> Changing(q)
                            /\ req'[q].name = req[q].name

(* A name is claimed that no other request changes. *)
LEMMA ClaimKeeps ==
  ASSUME OneEach, NEW r \in Requests, Others(r), ~Changing(r), Changing(r)',
         req'[r].name \notin pendingUsers,
         pendingUsers' = pendingUsers \cup {req'[r].name}
  PROVE  OneEach'
<1>1. \A q \in Requests \ {r} : Changing(q)' => req'[q].name # req'[r].name
  BY DEF OneEach, Others
<1>2. ASSUME NEW u
      PROVE  u \in pendingUsers' <=>
               \E q \in Requests : Changing(q)' /\ req'[q].name = u
  BY DEF OneEach, Others
<1> QED
  BY <1>1, <1>2 DEF OneEach, Others

(* A name is released by the one request that had claimed it. *)
LEMMA ReleaseKeeps ==
  ASSUME OneEach, NEW r \in Requests, Others(r), Changing(r), ~Changing(r)',
         pendingUsers' = pendingUsers \ {req[r].name}
  PROVE  OneEach'
<1>1. \A q \in Requests \ {r} : Changing(q) => req[q].name # req[r].name
  BY DEF OneEach
<1>2. ASSUME NEW u
      PROVE  u \in pendingUsers' <=>
               \E q \in Requests : Changing(q)' /\ req'[q].name = u
  BY <1>1 DEF OneEach, Others
<1> QED
  BY <1>2 DEF OneEach, Others

(* Nothing is claimed and nothing released. *)
LEMMA StayKeeps ==
  ASSUME OneEach, NEW r \in Requests, Others(r), Changing(r)' <=> Changing(r),
         Changing(r) => req'[r].name = req[r].name,
         pendingUsers' = pendingUsers
  PROVE  OneEach'
<1>1. \A q \in Requests : /\ Changing(q)' <=> Changing(q)
                          /\ Changing(q) => req'[q].name = req[q].name
  BY DEF Others
<1> QED
  BY <1>1 DEF OneEach

(* A step of r that keeps its kind and its name, or is a new request. *)
LEMMA OneRequestMoves ==
  ASSUME Formed, NEW r \in Requests, NEW kind, NEW name, NEW pc, NEW users,
         req' = [req EXCEPT ![r] = [kind |-> kind, name |-> name,
                                    pc |-> pc, users |-> users]]
  PROVE  /\ Formed' /\ Others(r)
         /\ req'[r].name = name
         /\ Changing(r)' <=> pc \in Handling /\ kind # "login"
BY DEF Formed, Others, Changing

(* The same for the way the handlers write it. *)
LEMMA RequestGoesTo ==
  ASSUME Formed, NEW r \in Requests, NEW pc
  PROVE  /\ GoTo(r, pc) =>
              req' = [req EXCEPT ![r] = [kind |-> req[r].kind,
                        name |-> req[r].name, pc |-> pc,
                        users |-> req[r].users]]
         /\ \A users :
              req' = [req EXCEPT ![r].pc = pc, ![r].users = users] =>
              req' = [req EXCEPT ![r] = [kind |-> req[r].kind,
                        name |-> req[r].name, pc |-> pc, users |-> users]]
<1>1. GoTo(r, pc) => req' = [req EXCEPT ![r] = [req[r] EXCEPT !.pc = pc]]
  BY DEF GoTo
<1>2. [req[r] EXCEPT !.pc = pc] =
      [kind |-> req[r].kind, name |-> req[r].name, pc |-> pc,
       users |-> req[r].users]
  BY DEF Formed
<1>3. ASSUME NEW users,
             req' = [req EXCEPT ![r].pc = pc, ![r].users = users]
      PROVE  req' = [req EXCEPT ![r] = [kind |-> req[r].kind,
                       name |-> req[r].name, pc |-> pc, users |-> users]]
  <2>1. req' = [req EXCEPT ![r] = [req[r] EXCEPT !.pc = pc, !.users = users]]
    BY <1>3 DEF Formed
  <2>2. [req[r] EXCEPT !.pc = pc, !.users = users] =
        [kind |-> req[r].kind, name |-> req[r].name, pc |-> pc,
         users |-> users]
    <3> DEFINE old == [kind |-> req[r].kind, name |-> req[r].name,
                       pc |-> req[r].pc, users |-> req[r].users]
               mid == [kind |-> req[r].kind, name |-> req[r].name,
                       pc |-> pc, users |-> req[r].users]
    <3>1. req[r] = old
      BY DEF Formed
    <3>2. [old EXCEPT !.pc = pc] = mid
      OBVIOUS
    <3>3. [mid EXCEPT !.users = users] =
          [kind |-> req[r].kind, name |-> req[r].name, pc |-> pc,
           users |-> users]
      OBVIOUS
    <3>4. [old EXCEPT !.pc = pc, !.users = users] =
          [[old EXCEPT !.pc = pc] EXCEPT !.users = users]
      OBVIOUS
    <3> HIDE DEF old, mid
    <3> QED
      BY <3>1, <3>2, <3>3, <3>4, Zenon
  <2> QED
    BY <2>1, <2>2
<1> QED
  BY <1>1, <1>2, <1>3

(* A request begins, or is turned down because its name is in use. *)
LEMMA BeginKeepsInv ==
  ASSUME PendingInv, NEW r \in Requests, NEW kind, NEW u, Begin(r, kind, u)
  PROVE  PendingInv'
<1>1. ~Changing(r) /\ "over" \notin Handling
  BY DEF Begin, Changing, Handling
<1>2. CASE /\ Claim(kind, u)
           /\ req' = [req EXCEPT ![r] = [kind |-> kind, name |-> u,
                                         pc |-> "getting",
                                         users |-> NoUsers]]
  <2>1. /\ Formed' /\ Others(r) /\ req'[r].name = u
        /\ Changing(r)' <=> "getting" \in Handling /\ kind # "login"
    BY <1>2, OneRequestMoves DEF PendingInv
  <2>2. "getting" \in Handling
    BY DEF Handling
  <2>3. CASE kind = "login"
    BY <1>1, <1>2, <2>1, <2>3, StayKeeps DEF Claim, PendingInv
  <2>4. CASE kind # "login"
    BY <1>1, <1>2, <2>1, <2>2, <2>4, ClaimKeeps DEF Claim, PendingInv
  <2> QED
    BY <2>3, <2>4
<1>3. CASE GoTo(r, "over") /\ UNCHANGED pendingUsers
  <2>1. Formed' /\ Others(r) /\ ~Changing(r)'
    <3>1. req' = [req EXCEPT ![r] = [kind |-> req[r].kind,
                    name |-> req[r].name, pc |-> "over",
                    users |-> req[r].users]]
      BY <1>3, RequestGoesTo DEF PendingInv
    <3> QED
      BY <1>1, <3>1, OneRequestMoves DEF PendingInv
  <2> QED
    BY <1>1, <1>3, <2>1, StayKeeps DEF PendingInv
<1> QED
  BY <1>2, <1>3 DEF Begin

(* A reply: finally() releases the name, unless the request was a login. *)
LEMMA ReplyKeepsInv ==
  ASSUME PendingInv, NEW r \in Requests, req[r].pc \in Handling,
         GoTo(r, "over"), Finally(r)
  PROVE  PendingInv'
<1>1. Formed' /\ Others(r) /\ ~Changing(r)'
  <2>1. req' = [req EXCEPT ![r] = [kind |-> req[r].kind,
                  name |-> req[r].name, pc |-> "over",
                  users |-> req[r].users]]
    BY RequestGoesTo DEF PendingInv
  <2>2. "over" \notin Handling
    BY DEF Handling
  <2> QED
    BY <2>1, <2>2, OneRequestMoves DEF PendingInv
<1>2. CASE req[r].kind = "login"
  BY <1>1, <1>2, StayKeeps DEF Finally, Changing, PendingInv
<1>3. CASE req[r].kind # "login"
  BY <1>1, <1>3, ReleaseKeeps DEF Finally, Changing, PendingInv
<1> QED
  BY <1>2, <1>3

(* A handler that goes on to its next promise. *)
LEMMA GoingOnKeepsInv ==
  ASSUME PendingInv, NEW r \in Requests, NEW pc \in Handling,
         req[r].pc \in Handling, UNCHANGED pendingUsers,
         \/ GoTo(r, pc)
         \/ \E users : req' = [req EXCEPT ![r].pc = pc, ![r].users = users]
  PROVE  PendingInv'
<1>1. PICK users :
        req' = [req EXCEPT ![r] = [kind |-> req[r].kind,
                  name |-> req[r].name, pc |-> pc, users |-> users]]
  BY RequestGoesTo DEF PendingInv
<1>2. /\ Formed' /\ Others(r) /\ req'[r].name = req[r].name
      /\ Changing(r)' <=> pc \in Handling /\ req[r].kind # "login"
  BY <1>1, OneRequestMoves DEF PendingInv
<1>3. Changing(r)' <=> Changing(r)
  BY <1>2 DEF Changing
<1> QED
  BY <1>2, <1>3, StayKeeps DEF PendingInv

(* The steps of a request. *)
LEMMA RequestStepKeepsInv ==
  ASSUME PendingInv, NEW r \in Requests, RequestStep(r)
  PROVE  PendingInv'
<1>1. CASE GotUsers(r)
  <2>1. req[r].pc \in Handling
    BY <1>1 DEF GotUsers, Handling
  <2>2. CASE Refuse(r)
    BY <2>1, <2>2, ReplyKeepsInv DEF Refuse
  <2>3. CASE ~Refuse(r)
    <3>1. /\ UNCHANGED pendingUsers
          /\ \E pc \in Handling : \E users :
               req' = [req EXCEPT ![r].pc = pc, ![r].users = users]
      BY <1>1, <2>3 DEF GotUsers, Handling
    <3> QED
      BY <2>1, <3>1, GoingOnKeepsInv
  <2> QED
    BY <2>2, <2>3
<1>2. CASE HandlerFails(r) \/ Stored(r)
  <2>1. req[r].pc \in Handling /\ GoTo(r, "over") /\ Finally(r)
    BY <1>2 DEF HandlerFails, Stored, Refuse, Handling
  <2> QED
    BY <2>1, ReplyKeepsInv
<1>3. CASE Computed(r)
  <2>1. /\ req[r].pc \in Handling /\ "setting" \in Handling
        /\ GoTo(r, "setting") /\ UNCHANGED pendingUsers
    BY <1>3 DEF Computed, Handling
  <2> QED
    BY <2>1, GoingOnKeepsInv
<1> QED
  BY <1>1, <1>2, <1>3 DEF RequestStep

(* After a restart no request is in hand and no name is pending. *)
LEMMA RestartKeepsPending ==
  ASSUME PendingInv, SchedulerRestarts
  PROVE  PendingInv'
<1>1. \A r \in Requests :
        req'[r] = IF r \in InHand
                  THEN [kind |-> "none", name |-> "none", pc |-> "over",
                        users |-> NoUsers]
                  ELSE req[r]
  BY DEF SchedulerRestarts, NoRequest
<1>2. \A r \in Requests : ~Changing(r)'
  BY <1>1 DEF Changing, InHand, Handling
<1>3. Formed'
  <2>1. req' = [r \in Requests |-> req'[r]]
    BY DEF SchedulerRestarts
  <2>2. \A r \in Requests :
          req'[r] = [kind |-> req'[r].kind, name |-> req'[r].name,
                     pc |-> req'[r].pc, users |-> req'[r].users]
    BY <1>1 DEF PendingInv, Formed
  <2> QED
    BY <2>1, <2>2 DEF Formed
<1>4. pendingUsers' = {}
  BY DEF SchedulerRestarts
<1> QED
  BY <1>2, <1>3, <1>4 DEF PendingInv, OneEach

(* Links and the database do not concern the requests. *)
LEMMA ElsewhereKeepsInv ==
  ASSUME PendingInv, UNCHANGED <<req, pendingUsers>>
  PROVE  PendingInv'
BY DEF PendingInv, Formed, OneEach, Changing

(***************************************************************************)
(* A name is pending while, and only while, one request to add or remove   *)
(* that user is in hand, whatever the database answers and whenever the    *)
(* scheduler restarts.                                                     *)
(***************************************************************************)
THEOREM NamesAreReleased == Spec => []PendingIsInHand
<1>1. Init => PendingInv
  BY DEF Init, PendingInv, Formed, OneEach, Changing, Handling, NoRequest
<1>2. PendingInv /\ [Next]_vars => PendingInv'
  <2> SUFFICES ASSUME PendingInv, [Next]_vars PROVE PendingInv'
    OBVIOUS
  <2>1. ASSUME NEW r \in Requests,
               \/ RequestStep(r)
               \/ \E kind \in {"addUser", "removeUser", "login"}, u \in Names :
                    Begin(r, kind, u)
        PROVE  PendingInv'
    BY <2>1, RequestStepKeepsInv, BeginKeepsInv
  <2>2. CASE SchedulerRestarts
    BY <2>2, RestartKeepsPending
  <2>3. CASE \/ \E s \in Syncs : LinksChange(s)
             \/ Load \/ Loaded
             \/ \E c \in Callers : DatabaseStep(c)
             \/ UNCHANGED vars
    BY <2>3, ElsewhereKeepsInv
    DEF LinksChange, Load, Loaded, DatabaseStep, handlerVars, vars
  <2> QED
    BY <2>1, <2>2, <2>3 DEF Next
<1>3. PendingInv => PendingIsInHand
  <2> SUFFICES ASSUME PendingInv PROVE PendingIsInHand
    OBVIOUS
  <2>1. \A r : r \in InHand /\ req[r].kind # "login" <=>
                 r \in Requests /\ Changing(r)
    BY DEF InHand, Changing
  <2> QED
    BY <2>1 DEF PendingInv, OneEach, PendingIsInHand
<1> QED
  BY <1>1, <1>2, <1>3, PTL DEF Spec

-----------------------------------------------------------------------------
(***************************************************************************)
(* Every caller has one record of the database, and what it reads and      *)
(* writes is such a record.  So the file has such records only.            *)
(***************************************************************************)
RecordOf(c) == IF c \in Requests THEN "users" ELSE "links"
ValuesOf(c) == IF c \in Requests THEN UserRecords ELSE LinkRecords
Shaped(records) ==
  /\ records["users"] \in UserRecords \cup {Nothing}
  /\ records["links"] \in LinkRecords \cup {Nothing}
Shapes ==
  /\ \A c \in Callers :
       /\ op[c].kind # "none" => op[c].key = RecordOf(c)
       /\ op[c].value \in ValuesOf(c) \cup {Nothing}
       /\ op[c].kind = "set" => op[c].value \in ValuesOf(c)
       /\ Shaped(op[c].records)
  /\ path \notin {Absent, Torn} => Shaped(path)
  /\ tmp \notin {Absent, Torn} => Shaped(tmp)

(* A request and its operation of the database fit together. *)
Fits ==
  \A r \in Requests :
    /\ req[r].pc \notin {"getting", "setting"} => ~UnderWay(r)
    /\ req[r].pc = "getting" => op[r].kind = "get"
    /\ req[r].pc = "setting" =>
         op[r].kind = "set" /\ op[r].value = [table |-> req[r].users]
    /\ r \in InHand => req[r].name \in Names /\ req[r].kind # "none"

HandlersTyped ==
  /\ req \in [Requests -> RequestRecord]
  /\ pendingUsers \subseteq Names
  /\ links \in 0..MaxChanges
  /\ up \in {"down", "loading", "up"}
  /\ registry \in Tables /\ overlapped \in BOOLEAN

(***************************************************************************)
(* Links are changed when the scheduler is up, and their records are       *)
(* performed in the order they were made.                                  *)
(***************************************************************************)
SetsLinks(s) == s \in Syncs /\ op[s].kind = "set"
Change(s) == op[s].value.changes
Ahead(s, t) == \E i, j \in 1..Len(queue) : i < j /\ queue[i] = s /\ queue[j] = t
InOrder ==
  /\ \A s \in Syncs : SetsLinks(s) => up = "up" /\ Change(s) <= links
  /\ up = "loading" => op[Loader].kind = "get"
  /\ \A s, t \in Syncs :
       /\ SetsLinks(s) /\ SetsLinks(t)
       /\ \/ Ahead(s, t)
          \/ UnderWay(s) /\ op[s].pc # "queued" /\ op[t].pc = "queued"
       => Change(s) < Change(t)

(* What began to write before is older, and the newest is what is there. *)
LinksKept ==
  /\ \A s, t \in Syncs :
       SetsLinks(s) /\ SetsLinks(t) /\ s # t /\ UnderWay(t)
         /\ op[s].pc \in {"opening", "writing", "renaming", "done"}
         => Change(s) < Change(t)
  /\ \A s \in Syncs :
       SetsLinks(s) /\ op[s].pc = "done" /\ Change(s) = links
         => Contents["links"] = op[s].value

(* The table of users that a request in hand reads, changes and writes. *)
Wrote(r) == req[r].pc = "setting" /\ op[r].pc = "done"
UsersKept ==
  /\ \A r, q \in InHand : r = q
  /\ (\A r \in Requests : ~Wrote(r)) => StoredUsers = registry
  /\ \A r \in Requests :
       /\ req[r].pc = "getting" /\ op[r].pc = "done"
            => op[r].value = Contents["users"]
       /\ req[r].pc \in {"computing", "setting"}
            => req[r].users = [registry EXCEPT ![req[r].name] =
                                                 req[r].users[req[r].name]]
       /\ Wrote(r) => StoredUsers = req[r].users

-----------------------------------------------------------------------------
(***************************************************************************)
(* What a step of an operation does, to it, to the queue and to the files. *)
(***************************************************************************)
QueueMoves(c) ==
  \/ /\ UNCHANGED queue
     /\ \A d \in Callers \ {c} : op'[d] = op[d]
  \/ \E h \in Callers \ {c} :
       /\ queue # <<>> /\ h = Head(queue) /\ queue' = Tail(queue)
       /\ op[h].pc = "queued" /\ op'[h] = [op[h] EXCEPT !.pc = "reading"]
       /\ \A d \in Callers \ {c, h} : op'[d] = op[d]
OperationMoves(c) ==
  /\ UnderWay(c) /\ op[c].pc # "queued" /\ op'[c].pc # "queued"
  /\ op'[c].kind = op[c].kind /\ op'[c].key = op[c].key
  /\ \/ op'[c].value = op[c].value
     \/ op[c].kind = "get" /\ op'[c].value = Contents[op[c].key]
  /\ \/ op'[c].records = op[c].records
     \/ /\ op[c].kind = "set"
        /\ op'[c].records = [Contents EXCEPT ![op[c].key] = op[c].value]
  /\ path' \in {path, Absent, tmp, op[c].records}
  /\ tmp' \in {tmp, Absent, Torn, op[c].records}
  /\ overtaken => overtaken'
(* ... and until a set() overtakes a rename. *)
Undisturbing(c) ==
  /\ \/ /\ Contents' = Contents
        /\ op'[c].pc = "done"
             => op[c].kind = "get" /\ op'[c].value = Contents[op[c].key]
     \/ /\ op[c].kind = "set" /\ op'[c].pc = "done"
        /\ op'[c].value = op[c].value
        /\ Contents' = [Contents EXCEPT ![op[c].key] = op[c].value]
  /\ op[c].kind = "set" /\ op'[c].pc # "failed"
       => op[c].pc \in {"opening", "writing", "renaming"} \/ Renaming = {}

(* The end of a turn moves the queue. *)
LEMMA FinishMovesQueue ==
  ASSUME OpsTyped, Turns, NEW c \in Current, NEW new \in Operations,
         new.pc \in {"done", "failed", "renaming"},
         FinishedOperation([op EXCEPT ![c] = new])
  PROVE  QueueMoves(c) /\ op'[c] = new
<1>1. /\ c \in Callers /\ op[c].pc # "queued" /\ ~InQueue(c)
  BY DEF Turns, Current
<1>2. op'[c] = new
  BY TurnEnds
<1> DEFINE ops == [op EXCEPT ![c] = new]
<1>3. /\ ops \in [Callers -> Operations]
      /\ \A d \in Callers \ {c} : ops[d] = op[d]
  BY <1>1 DEF OpsTyped
<1> HIDE DEF ops
<1>4. CASE /\ queue # <<>> /\ queue' = Tail(queue)
           /\ op' = [ops EXCEPT ![Head(queue)].pc = "reading"]
  <2>1. PICK h \in Callers : h = Head(queue) /\ InQueue(h)
    BY <1>4, Head(queue) \in Callers /\ InQueue(Head(queue)) DEF OpsTyped, InQueue
  <2>2. h # c /\ op[h].pc = "queued"
    BY <1>1, <2>1 DEF Turns
  <2>3. op'[h] = [op[h] EXCEPT !.pc = "reading"]
    BY <1>3, <1>4, <2>1, <2>2
  <2>4. \A d \in Callers \ {c, h} : op'[d] = op[d]
    BY <1>3, <1>4, <2>1
  <2> QED
    BY <1>2, <1>4, <2>1, <2>2, <2>3, <2>4 DEF QueueMoves
<1>5. CASE UNCHANGED queue /\ op' = ops
  BY <1>2, <1>3, <1>5 DEF QueueMoves
<1> QED
  BY <1>4, <1>5 DEF FinishedOperation, ops

(* Every step of an operation is such a move. *)
LEMMA ProgressMoves ==
  ASSUME DbInv, NEW c \in Callers, Progress(c)
  PROVE  /\ DbInv' /\ QueueMoves(c) /\ OperationMoves(c)
         /\ ~overtaken' => Undisturbing(c)
<1>1. DbInv'
  BY FailureKeepsInv, ReadForGetKeepsInv, ReadForSetKeepsInv,
     OpenedKeepsInv, WrittenKeepsInv, RenamedKeepsInv DEF Progress
<1>2. OpsTyped /\ Turns /\ op[c] \in Operations /\ FilesTyped
  BY DEF DbInv, OpsTyped
<1>3. CASE ReadFails(c) \/ ParseFails(c) \/ OpenFails(c) \/ WriteFails(c)
  <2> DEFINE new == [op[c] EXCEPT !.pc = "failed"]
  <2>1. /\ new \in Operations /\ new.pc = "failed" /\ new.kind = op[c].kind
        /\ new.key = op[c].key /\ new.value = op[c].value
        /\ new.records = op[c].records
    BY <1>2 DEF Operations
  <2>2. /\ c \in Current /\ UnderWay(c) /\ op[c].pc # "queued"
        /\ path' \in {path, Absent} /\ tmp' = tmp
        /\ FinishedOperation([op EXCEPT ![c] = new])
    BY <1>3 DEF ReadFails, ParseFails, OpenFails, WriteFails, Current, UnderWay,
                Stages, Rejected, File
  <2> HIDE DEF new
  <2>3. QueueMoves(c) /\ op'[c] = new
    BY <1>2, <2>1, <2>2, FinishMovesQueue
  <2>4. overtaken' = overtaken /\ (~overtaken => path' = path)
    BY <1>3, FailureKeepsInv
  <2>5. OperationMoves(c)
    BY <2>1, <2>2, <2>3, <2>4 DEF OperationMoves
  <2>6. ~overtaken' => Undisturbing(c)
    BY <2>1, <2>3, <2>4 DEF Undisturbing, Contents
  <2> QED
    BY <1>1, <2>3, <2>5, <2>6
<1>4. CASE ReadForGet(c)
  <2> DEFINE new == [op[c] EXCEPT !.pc = "done", !.value = Contents[op[c].key]]
  <2>1. /\ c \in Current /\ UnderWay(c) /\ op[c].pc = "reading" /\ op[c].kind = "get"
        /\ UNCHANGED <<path, tmp, overtaken>>
    BY <1>4 DEF ReadForGet, Current, UnderWay, Stages, File
  <2>2. Contents[op[c].key] \in Values \cup {Nothing}
    BY <2>1, ContentsTyped DEF DbInv, WellFormed, Records
  <2>3. /\ new \in Operations /\ new.pc = "done" /\ new.kind = op[c].kind
        /\ new.key = op[c].key /\ new.value = Contents[op[c].key]
        /\ new.records = op[c].records
    BY <1>2, <2>2 DEF Operations
  <2>4. FinishedOperation([op EXCEPT ![c] = new])
    <3>1. [op EXCEPT ![c].pc = "done", ![c].value = Contents[op[c].key]]
            = [op EXCEPT ![c] = new]
      BY <1>2 DEF OpsTyped
    <3> QED
      BY <1>4, <3>1 DEF ReadForGet
  <2> HIDE DEF new
  <2>5. QueueMoves(c) /\ op'[c] = new
    BY <1>2, <2>1, <2>3, <2>4, FinishMovesQueue
  <2>6. OperationMoves(c)
    BY <2>1, <2>3, <2>5 DEF OperationMoves
  <2>7. Undisturbing(c)
    BY <2>1, <2>3, <2>5 DEF Undisturbing, Contents
  <2> QED
    BY <1>1, <2>5, <2>6, <2>7
<1>5. CASE ReadForSet(c)
  <2> DEFINE records == [Contents EXCEPT ![op[c].key] = op[c].value]
             new == [op[c] EXCEPT !.pc = "opening", !.records = records]
  <2>1. /\ UnderWay(c) /\ op[c].pc = "reading" /\ op[c].kind = "set"
        /\ UNCHANGED <<path, tmp, queue>>
        /\ overtaken' = (overtaken \/ Renaming # {})
        /\ op' = [op EXCEPT ![c] = new]
    BY <1>2, <1>5 DEF ReadForSet, UnderWay, Stages, File, OpsTyped
  <2> HIDE DEF records
  <2>2. /\ new.pc = "opening" /\ new.kind = op[c].kind /\ new.records = records
        /\ new.key = op[c].key /\ new.value = op[c].value
    BY <1>2 DEF Operations
  <2> HIDE DEF new
  <2>3. op'[c] = new /\ \A d \in Callers \ {c} : op'[d] = op[d]
    BY <1>2, <2>1 DEF OpsTyped
  <2>4. QueueMoves(c)
    BY <2>1, <2>3 DEF QueueMoves
  <2>5. OperationMoves(c)
    BY <2>1, <2>2, <2>3 DEF OperationMoves, records
  <2>6. ~overtaken' => Undisturbing(c)
    BY <2>1, <2>2, <2>3 DEF Undisturbing, Contents
  <2> QED
    BY <1>1, <2>4, <2>5, <2>6
<1>6. CASE Opened(c)
  <2> DEFINE new == [op[c] EXCEPT !.pc = "writing"]
  <2>1. /\ UnderWay(c) /\ op[c].pc = "opening" /\ tmp' = Torn
        /\ UNCHANGED <<path, queue, overtaken>>
        /\ op' = [op EXCEPT ![c] = new]
    BY <1>2, <1>6 DEF Opened, UnderWay, Stages, OpsTyped
  <2>2. /\ new.pc = "writing" /\ new.kind = op[c].kind
        /\ new.records = op[c].records
        /\ new.key = op[c].key /\ new.value = op[c].value
    BY <1>2 DEF Operations
  <2> HIDE DEF new
  <2>3. op'[c] = new /\ \A d \in Callers \ {c} : op'[d] = op[d]
    BY <1>2, <2>1 DEF OpsTyped
  <2>4. QueueMoves(c)
    BY <2>1, <2>3 DEF QueueMoves
  <2>5. OperationMoves(c)
    BY <2>1, <2>2, <2>3 DEF OperationMoves
  <2>6. Undisturbing(c)
    BY <2>1, <2>2, <2>3 DEF Undisturbing, Contents
  <2> QED
    BY <1>1, <2>4, <2>5, <2>6
<1>7. CASE Written(c)
  <2> DEFINE new == [op[c] EXCEPT !.pc = "renaming"]
  <2>1. /\ c \in Current /\ UnderWay(c) /\ op[c].pc = "writing"
        /\ tmp' \in {tmp, op[c].records} /\ path' \in {path, op[c].records}
        /\ UNCHANGED overtaken
        /\ FinishedOperation([op EXCEPT ![c] = new])
    BY <1>2, <1>7 DEF Written, UnderWay, Stages, Current, OpsTyped
  <2>2. /\ new.pc = "renaming" /\ new.kind = op[c].kind
        /\ new.records = op[c].records /\ new \in Operations
        /\ new.key = op[c].key /\ new.value = op[c].value
    BY <1>2 DEF Operations, Stages
  <2> HIDE DEF new
  <2>3. QueueMoves(c) /\ op'[c] = new
    BY <1>2, <2>1, <2>2, FinishMovesQueue
  <2>4. ~overtaken => path' = path
    BY <1>7, WrittenKeepsInv
  <2>5. OperationMoves(c)
    BY <2>1, <2>2, <2>3 DEF OperationMoves
  <2>6. ~overtaken' => Undisturbing(c)
    BY <2>1, <2>2, <2>3, <2>4 DEF Undisturbing, Contents
  <2> QED
    BY <1>1, <2>3, <2>5, <2>6
<1>8. CASE Renamed(c)
  <2> DEFINE new == [op[c] EXCEPT !.pc = "done"]
  <2>1. /\ UnderWay(c) /\ op[c].pc = "renaming" /\ c \in Renaming
        /\ path' = tmp /\ tmp' = Absent /\ UNCHANGED <<queue, overtaken>>
        /\ op' = [op EXCEPT ![c] = new]
    BY <1>2, <1>8 DEF Renamed, UnderWay, Stages, OpsTyped, Renaming
  <2>2. /\ new.pc = "done" /\ new.kind = op[c].kind
        /\ new.records = op[c].records
        /\ new.key = op[c].key /\ new.value = op[c].value
    BY <1>2 DEF Operations
  <2> HIDE DEF new
  <2>3. op'[c] = new /\ \A d \in Callers \ {c} : op'[d] = op[d]
    BY <1>2, <2>1 DEF OpsTyped
  <2>4. QueueMoves(c)
    BY <2>1, <2>3 DEF QueueMoves
  <2>5. OperationMoves(c)
    BY <2>1, <2>2, <2>3 DEF OperationMoves
  <2>6. ASSUME ~overtaken PROVE Undisturbing(c)
    <3>1. tmp = op[c].records /\ Changes(c)
      BY <2>1, <2>6 DEF DbInv, Undisturbed
    <3>2. path' \notin {Absent, Torn}
      BY <1>2, <2>1, <3>1, TornIsNoRecords DEF Operations
    <3>3. Contents' = [Contents EXCEPT ![op[c].key] = op[c].value] /\ op[c].kind = "set"
      BY <2>1, <3>1, <3>2 DEF Contents, Changes
    <3> QED
      BY <2>1, <2>2, <2>3, <3>3 DEF Undisturbing
  <2> QED
    BY <1>1, <2>1, <2>4, <2>5, <2>6
<1>9. CASE RenameFails(c)
  <2> DEFINE new == [op[c] EXCEPT !.pc = "failed"]
  <2>1. /\ UnderWay(c) /\ op[c].pc = "renaming"
        /\ UNCHANGED <<queue, path, tmp, overtaken>>
        /\ op' = [op EXCEPT ![c] = new]
    BY <1>2, <1>9 DEF RenameFails, Rejected, UnderWay, Stages, OpsTyped, File
  <2>2. /\ new.pc = "failed" /\ new.kind = op[c].kind
        /\ new.records = op[c].records
        /\ new.key = op[c].key /\ new.value = op[c].value
    BY <1>2 DEF Operations
  <2> HIDE DEF new
  <2>3. op'[c] = new /\ \A d \in Callers \ {c} : op'[d] = op[d]
    BY <1>2, <2>1 DEF OpsTyped
  <2>4. QueueMoves(c)
    BY <2>1, <2>3 DEF QueueMoves
  <2>5. OperationMoves(c)
    BY <2>1, <2>2, <2>3 DEF OperationMoves
  <2>6. Undisturbing(c)
    BY <2>1, <2>2, <2>3 DEF Undisturbing, Contents
  <2> QED
    BY <1>1, <2>4, <2>5, <2>6
<1> QED
  BY <1>3, <1>4, <1>5, <1>6, <1>7, <1>8, <1>9 DEF Progress

(* What get() and set() do. *)
CallMoves(c, kind, v) ==
  /\ op'[c].pc \in {"reading", "queued"} /\ op'[c].kind = kind
  /\ op'[c].key = RecordOf(c) /\ op'[c].value = v /\ op'[c].records = NoRecords
  /\ \A d \in Callers \ {c} : op'[d] = op[d]
  /\ \/ op'[c].pc = "queued" /\ queue' = Append(queue, c)
     \/ op'[c].pc = "reading" /\ UNCHANGED queue /\ ~busy
  /\ UNCHANGED <<path, tmp, overtaken>>

(* ... when the record is that of the caller. *)
LEMMA CallDoes ==
  ASSUME DbInv, NEW c \in Callers, RecordOf(c) \in Keys,
         NEW v \in Values \cup {Nothing}, NEW kind \in {"get", "set"},
         Call(c, kind, RecordOf(c), v)
  PROVE  DbInv' /\ ~UnderWay(c) /\ CallMoves(c, kind, v)
<1>1. DbInv' /\ ~UnderWay(c) /\ op \in [Callers -> Operations]
  BY CallKeepsInv DEF Call, DbInv, OpsTyped
<1> DEFINE new == [kind |-> kind, key |-> RecordOf(c), value |-> v,
                   pc |-> "reading", records |-> NoRecords]
           waits == [kind |-> kind, key |-> RecordOf(c), value |-> v,
                     pc |-> "queued", records |-> NoRecords]
<1>2. [new EXCEPT !.pc = "queued"] = waits
  OBVIOUS
<1>3. \/ /\ busy /\ op' = [op EXCEPT ![c] = waits] /\ queue' = Append(queue, c)
      \/ /\ ~busy /\ op' = [op EXCEPT ![c] = new] /\ UNCHANGED queue
  BY <1>2 DEF Call, Perform
<1>4. UNCHANGED <<path, tmp, overtaken>>
  BY DEF Call, File
<1> QED
  BY <1>1, <1>3, <1>4 DEF CallMoves

-----------------------------------------------------------------------------
(* Users and links are two records, and neither is missing. *)
LEMMA TwoRecords ==
  /\ "users" \in Keys /\ "links" \in Keys
  /\ UserRecords \subseteq Values /\ LinkRecords \subseteq Values
  /\ Nothing \notin UserRecords /\ Nothing \notin LinkRecords
  /\ \A c \in Callers : c \in Syncs <=> c \notin Requests
  /\ Requests \subseteq Callers /\ Syncs \subseteq Callers
BY UsersAssumption, DatabaseAssumption

(* What a reader finds are such records. *)
LEMMA ContentsShaped ==
  ASSUME Shapes
  PROVE  Shaped(Contents) /\ Shaped(NoRecords)
BY TwoRecords DEF Shapes, Shaped, Contents, NoRecords

(* What an operation of c is about to write. *)
LEMMA ChangedShaped ==
  ASSUME Shapes, FilesTyped, NEW c \in Callers, op[c].kind = "set"
  PROVE  Shaped([Contents EXCEPT ![op[c].key] = op[c].value])
<1>1. op[c].key = RecordOf(c) /\ op[c].value \in ValuesOf(c)
  BY DEF Shapes
<1>2. DOMAIN Contents = Keys
  BY ContentsTyped DEF Records
<1> QED
  BY <1>1, <1>2, TwoRecords, ContentsShaped DEF Shaped, RecordOf, ValuesOf

(* An operation that moves keeps the shape of what it has and writes. *)
LEMMA ProgressKeepsShapes ==
  ASSUME DbInv, Shapes, NEW c \in Callers, QueueMoves(c), OperationMoves(c)
  PROVE  Shapes'
<1>1. Shaped(Contents) /\ FilesTyped
  BY ContentsShaped DEF DbInv
<1>2. /\ op'[c].kind # "none" => op'[c].key = RecordOf(c)
      /\ op'[c].kind = "set" => op'[c].value \in ValuesOf(c)
  BY DEF OperationMoves, Shapes
<1>3. op'[c].value \in ValuesOf(c) \cup {Nothing}
  <2>1. CASE op'[c].value = op[c].value
    BY <2>1 DEF Shapes
  <2>2. CASE op[c].kind = "get" /\ op'[c].value = Contents[op[c].key]
    <3>1. op[c].key = RecordOf(c)
      BY <2>2 DEF Shapes
    <3> QED
      BY <1>1, <2>2, <3>1 DEF Shaped, RecordOf, ValuesOf
  <2> QED
    BY <2>1, <2>2 DEF OperationMoves
<1>4. Shaped(op'[c].records)
  <2>1. CASE op'[c].records = op[c].records
    BY <2>1 DEF Shapes
  <2>2. CASE /\ op[c].kind = "set"
             /\ op'[c].records = [Contents EXCEPT ![op[c].key] = op[c].value]
    BY <1>1, <2>2, ChangedShaped
  <2> QED
    BY <2>1, <2>2 DEF OperationMoves
<1>5. \A d \in Callers \ {c} :
        /\ op'[d].kind = op[d].kind /\ op'[d].key = op[d].key
        /\ op'[d].value = op[d].value /\ op'[d].records = op[d].records
  <2>1. \A d \in Callers : op[d] \in Operations
    BY DEF DbInv, OpsTyped
  <2>2. ASSUME NEW d \in Callers, op'[d] = [op[d] EXCEPT !.pc = "reading"]
        PROVE  /\ op'[d].kind = op[d].kind /\ op'[d].key = op[d].key
               /\ op'[d].value = op[d].value /\ op'[d].records = op[d].records
    BY <2>1, <2>2 DEF Operations
  <2> QED
    BY <2>2 DEF QueueMoves
<1>6. ASSUME NEW d \in Callers
      PROVE  /\ op'[d].kind # "none" => op'[d].key = RecordOf(d)
             /\ op'[d].value \in ValuesOf(d) \cup {Nothing}
             /\ op'[d].kind = "set" => op'[d].value \in ValuesOf(d)
             /\ Shaped(op'[d].records)
  <2>1. CASE d = c
    BY <1>2, <1>3, <1>4, <2>1
  <2>2. CASE d # c
    BY <1>5, <2>2 DEF Shapes
  <2> QED
    BY <2>1, <2>2
<1>7. /\ path' \notin {Absent, Torn} => Shaped(path')
      /\ tmp' \notin {Absent, Torn} => Shaped(tmp')
  BY DEF OperationMoves, Shapes
<1> QED
  BY <1>6, <1>7 DEF Shapes, Shaped, RecordOf, ValuesOf

(* So does a call that asks for the record of its caller. *)
LEMMA CallKeepsShapes ==
  ASSUME Shapes, NEW c \in Callers, NEW kind, NEW v \in ValuesOf(c) \cup {Nothing},
         kind = "set" => v \in ValuesOf(c), CallMoves(c, kind, v)
  PROVE  Shapes'
<1>1. Shaped(NoRecords)
  BY ContentsShaped
<1>2. ASSUME NEW d \in Callers
      PROVE  /\ op'[d].kind # "none" => op'[d].key = RecordOf(d)
             /\ op'[d].value \in ValuesOf(d) \cup {Nothing}
             /\ op'[d].kind = "set" => op'[d].value \in ValuesOf(d)
             /\ Shaped(op'[d].records)
  <2>1. CASE d = c
    BY <1>1, <2>1 DEF CallMoves
  <2>2. CASE d # c
    <3>1. op'[d] = op[d]
      BY <2>2 DEF CallMoves
    <3> QED
      BY <3>1 DEF Shapes
  <2> QED
    BY <2>1, <2>2
<1>3. /\ path' \notin {Absent, Torn} => Shaped(path')
      /\ tmp' \notin {Absent, Torn} => Shaped(tmp')
  BY DEF CallMoves, Shapes
<1> QED
  BY <1>2, <1>3 DEF Shapes, Shaped, RecordOf, ValuesOf

(* Before anyone calls. *)
LEMMA NobodysShapes ==
  ASSUME op' = [c \in Callers |-> NoOperation],
         path' \notin {Absent, Torn} => Shaped(path'),
         tmp' \notin {Absent, Torn} => Shaped(tmp')
  PROVE  Shapes'
<1>1. Shaped(NoRecords)
  BY TwoRecords DEF Shaped, NoRecords
<1>2. ASSUME NEW d \in Callers
      PROVE  /\ op'[d].kind # "none" => op'[d].key = RecordOf(d)
             /\ op'[d].value \in ValuesOf(d) \cup {Nothing}
             /\ op'[d].kind = "set" => op'[d].value \in ValuesOf(d)
             /\ Shaped(op'[d].records)
  <2>1. op'[d] = NoOperation
    OBVIOUS
  <2> QED
    BY <1>1, <2>1 DEF NoOperation
<1> QED
  BY <1>2 DEF Shapes, Shaped, RecordOf, ValuesOf

-----------------------------------------------------------------------------
(* The order of the queue. *)
LEMMA AheadAfterTail ==
  ASSUME queue \in Seq(Callers), queue # <<>>, queue' = Tail(queue),
         NEW s, NEW t, Ahead(s, t)'
  PROVE  Ahead(s, t)
<1>1. PICK i \in 1..Len(queue'), j \in 1..Len(queue') :
        i < j /\ queue'[i] = s /\ queue'[j] = t
  BY DEF Ahead
<1>2. /\ Len(queue) \in Nat /\ i + 1 \in 1..Len(queue) /\ j + 1 \in 1..Len(queue)
      /\ queue'[i] = queue[i + 1] /\ queue'[j] = queue[j + 1] /\ i + 1 < j + 1
  BY <1>1
<1> QED
  BY <1>1, <1>2 DEF Ahead

(* ... which who joins it stands behind. *)
LEMMA AheadAfterAppend ==
  ASSUME queue \in Seq(Callers), NEW c \in Callers, queue' = Append(queue, c),
         NEW s, NEW t, Ahead(s, t)'
  PROVE  InQueue(s) /\ (t # c => Ahead(s, t))
<1>1. PICK i \in 1..Len(queue'), j \in 1..Len(queue') :
        i < j /\ queue'[i] = s /\ queue'[j] = t
  BY DEF Ahead
<1>2. Len(queue) \in Nat /\ i \in 1..Len(queue) /\ queue'[i] = queue[i]
  BY <1>1
<1>3. t # c => j \in 1..Len(queue) /\ queue'[j] = queue[j]
  BY <1>1
<1> QED
  BY <1>1, <1>2, <1>3 DEF Ahead, InQueue

(* ... so that a call has no one go ahead who did not before. *)
LEMMA AheadAfterCall ==
  ASSUME queue \in Seq(Callers), NEW c \in Callers, NEW kind, NEW v,
         CallMoves(c, kind, v), NEW s, NEW t, Ahead(s, t)'
  PROVE  InQueue(s) /\ (t # c => Ahead(s, t))
<1>1. CASE queue' = Append(queue, c)
  BY <1>1, AheadAfterAppend
<1>2. CASE UNCHANGED queue
  BY <1>2 DEF Ahead, InQueue
<1> QED
  BY <1>1, <1>2 DEF CallMoves

(* The first is ahead of the others. *)
LEMMA HeadIsAhead ==
  ASSUME queue \in Seq(Callers), queue # <<>>, NEW t, InQueue(t), t # Head(queue)
  PROVE  Ahead(Head(queue), t)
<1>1. PICK j \in 1..Len(queue) : queue[j] = t
  BY DEF InQueue
<1>2. Len(queue) \in Nat /\ 1 \in 1..Len(queue) /\ queue[1] = Head(queue)
  OBVIOUS
<1>3. 1 < j
  BY <1>1, <1>2
<1> QED
  BY <1>1, <1>2, <1>3 DEF Ahead

(* What is ahead in the queue is in the queue. *)
LEMMA AheadIsQueued ==
  ASSUME Turns, NEW s \in Callers, NEW t \in Callers, Ahead(s, t)
  PROVE  op[s].pc = "queued" /\ op[t].pc = "queued"
BY DEF Turns, InQueue, Ahead

(* An operation that moves keeps the order of the links. *)
LEMMA ProgressKeepsOrder ==
  ASSUME DbInv, InOrder, NEW c \in Callers, QueueMoves(c), OperationMoves(c),
         UNCHANGED <<links, up>>
  PROVE  InOrder'
<1>1. Turns /\ queue \in Seq(Callers) /\ \A d \in Callers : op[d] \in Operations
  BY DEF DbInv, OpsTyped
<1>2. ASSUME NEW d \in Callers
      PROVE  /\ op'[d].kind = op[d].kind
             /\ op[d].kind = "set" => op'[d].value = op[d].value
             /\ op'[d].pc = "queued" => op[d].pc = "queued"
  <2>1. CASE d = c
    BY <2>1 DEF OperationMoves
  <2>2. CASE op'[d] = op[d]
    BY <2>2
  <2>3. CASE op'[d] = [op[d] EXCEPT !.pc = "reading"]
    BY <1>1, <2>3 DEF Operations
  <2> QED
    BY <2>1, <2>2, <2>3 DEF QueueMoves
<1>3. ASSUME NEW s \in Syncs
      PROVE  /\ s \in Callers /\ (SetsLinks(s)' <=> SetsLinks(s))
             /\ SetsLinks(s) => Change(s)' = Change(s)
  BY <1>2, TwoRecords DEF SetsLinks, Change
<1>4. \A s \in Syncs : SetsLinks(s)' => up' = "up" /\ Change(s)' <= links'
  BY <1>3 DEF InOrder
<1>5. up' = "loading" => op'[Loader].kind = "get"
  <2>1. Loader \in Callers
    BY TwoRecords, UsersAssumption DEF Loader
  <2> QED
    BY <1>2, <2>1 DEF InOrder
<1>6. ASSUME NEW s \in Syncs, NEW t \in Syncs, SetsLinks(s), SetsLinks(t), Ahead(s, t)'
      PROVE  Change(s) < Change(t)
  <2>1. Ahead(s, t)
    BY <1>1, <1>6, AheadAfterTail DEF QueueMoves, Ahead
  <2> QED
    BY <1>6, <2>1 DEF InOrder
<1>7. ASSUME NEW s \in Syncs, NEW t \in Syncs, SetsLinks(s), SetsLinks(t),
             UnderWay(s)', op'[s].pc # "queued", op'[t].pc = "queued"
      PROVE  Change(s) < Change(t)
  <2>0. s \in Callers /\ t \in Callers
    BY <1>3
  <2>1. op[t].pc = "queued"
    BY <1>2, <1>7, <2>0
  <2>2. CASE op[s].pc # "queued"
    <3>1. UnderWay(s)
      <4>1. CASE s = c
        BY <4>1 DEF OperationMoves
      <4>2. CASE op'[s] = op[s]
        BY <1>7, <4>2 DEF UnderWay
      <4> QED
        BY <2>0, <2>2, <4>1, <4>2 DEF QueueMoves
    <3> QED
      BY <1>7, <2>1, <2>2, <3>1 DEF InOrder
  <2>3. CASE op[s].pc = "queued"
    <3>1. s # c /\ op'[s] # op[s]
      BY <1>7, <2>3 DEF OperationMoves
    <3>2. queue # <<>> /\ s = Head(queue)
      BY <2>0, <3>1 DEF QueueMoves
    <3>3. InQueue(t) /\ t # s
      BY <1>1, <1>7, <2>0, <2>1 DEF Turns
    <3>4. Ahead(s, t)
      BY <1>1, <3>2, <3>3, HeadIsAhead
    <3> QED
      BY <1>7, <3>4 DEF InOrder
  <2> QED
    BY <2>2, <2>3
<1>8. ASSUME NEW s \in Syncs, NEW t \in Syncs, SetsLinks(s)', SetsLinks(t)',
             \/ Ahead(s, t)'
             \/ (UnderWay(s)' /\ op'[s].pc # "queued" /\ op'[t].pc = "queued")
      PROVE  Change(s)' < Change(t)'
  <2>1. SetsLinks(s) /\ SetsLinks(t) /\ Change(s)' = Change(s) /\ Change(t)' = Change(t)
    BY <1>3, <1>8
  <2>2. Change(s) < Change(t)
    BY <1>6, <1>7, <1>8, <2>1
  <2> QED
    BY <2>1, <2>2
<1> QED
  BY <1>4, <1>5, <1>8 DEF InOrder

(* A caller that does not write links does not disturb their order. *)
LEMMA OtherCallKeepsOrder ==
  ASSUME DbInv, InOrder, NEW c \in Callers, NEW kind, NEW v,
         CallMoves(c, kind, v), ~SetsLinks(c), ~SetsLinks(c)',
         UNCHANGED links, up' = up \/ (up' = "loading" /\ up = "down"),
         up' = "loading" => op'[Loader].kind = "get"
  PROVE  InOrder'
<1>1. Turns /\ queue \in Seq(Callers)
  BY DEF DbInv, OpsTyped
<1>2. ASSUME NEW s \in Syncs
      PROVE  /\ s \in Callers /\ (SetsLinks(s)' <=> SetsLinks(s))
             /\ SetsLinks(s) => /\ op'[s] = op[s] /\ s # c /\ up = "up"
                                /\ Change(s)' = Change(s)
  <2>1. CASE s = c
    BY <2>1
  <2>2. CASE s # c
    <3>1. op'[s] = op[s] /\ s \in Callers
      BY <2>2, TwoRecords DEF CallMoves
    <3> QED
      BY <2>2, <3>1 DEF SetsLinks, Change, InOrder
  <2> QED
    BY <2>1, <2>2
<1>3. \A s \in Syncs : SetsLinks(s)' => up' = "up" /\ Change(s)' <= links'
  BY <1>2 DEF InOrder
<1>4. ASSUME NEW s \in Syncs, NEW t \in Syncs, SetsLinks(s)', SetsLinks(t)',
             \/ Ahead(s, t)'
             \/ (UnderWay(s)' /\ op'[s].pc # "queued" /\ op'[t].pc = "queued")
      PROVE  Change(s)' < Change(t)'
  <2>1. /\ SetsLinks(s) /\ SetsLinks(t) /\ t # c /\ op'[s] = op[s] /\ op'[t] = op[t]
        /\ Change(s)' = Change(s) /\ Change(t)' = Change(t)
    BY <1>2, <1>4
  <2>2. Ahead(s, t)' => Ahead(s, t)
    BY <1>1, <2>1, AheadAfterCall
  <2>3. UnderWay(s)' => UnderWay(s)
    BY <2>1 DEF UnderWay
  <2>4. Change(s) < Change(t)
    BY <1>4, <2>1, <2>2, <2>3 DEF InOrder
  <2> QED
    BY <2>1, <2>4
<1> QED
  BY <1>3, <1>4 DEF InOrder

(* A change of the links is newer than the others, and behind them. *)
LEMMA ChangeKeepsOrder ==
  ASSUME DbInv, InOrder, Shapes, NEW c \in Syncs, ~UnderWay(c), links \in Nat,
         CallMoves(c, "set", [changes |-> links + 1]),
         up = "up", up' = up, links' = links + 1
  PROVE  /\ InOrder'
         /\ \A s \in Syncs : s # c /\ SetsLinks(s)' => Change(s)' < Change(c)'
         /\ Change(c)' = links'
<1>1. Turns /\ queue \in Seq(Callers) /\ c \in Callers
  BY TwoRecords DEF DbInv, OpsTyped
<1>2. SetsLinks(c)' /\ Change(c)' = links'
  BY DEF CallMoves, SetsLinks, Change
<1>3. ASSUME NEW s \in Syncs, s # c, SetsLinks(s)'
      PROVE  /\ op'[s] = op[s] /\ SetsLinks(s) /\ Change(s)' = Change(s)
             /\ Change(s)' \in Nat /\ Change(s)' < Change(c)'
  <2>1. s \in Callers
    BY TwoRecords
  <2>2. op'[s] = op[s]
    BY <1>3, <2>1 DEF CallMoves
  <2>3. SetsLinks(s) /\ Change(s)' = Change(s)
    BY <1>3, <2>2 DEF SetsLinks, Change
  <2>4. Change(s) \in Nat
    <3>1. op[s].value \in LinkRecords
      BY <2>1, <2>3, TwoRecords DEF Shapes, SetsLinks, ValuesOf
    <3> QED
      BY <3>1, UsersAssumption DEF LinkRecords, Change
  <2>5. Change(s) <= links
    BY <2>3 DEF InOrder
  <2> QED
    BY <1>2, <2>2, <2>3, <2>4, <2>5
<1>4. ASSUME NEW s \in Syncs, SetsLinks(s)' PROVE up' = "up" /\ Change(s)' <= links'
  <2>1. CASE s = c
    BY <1>2, <2>1
  <2>2. CASE s # c
    BY <1>2, <1>3, <1>4, <2>2
  <2> QED
    BY <2>1, <2>2
<1>5. ~InQueue(c)
  BY <1>1 DEF Turns, UnderWay, Stages
<1>6. ASSUME NEW s \in Syncs, NEW t \in Syncs, SetsLinks(s)', SetsLinks(t)',
             \/ Ahead(s, t)'
             \/ (UnderWay(s)' /\ op'[s].pc # "queued" /\ op'[t].pc = "queued"),
             t # c
      PROVE  Change(s)' < Change(t)'
  <2>1. op'[t] = op[t] /\ SetsLinks(t) /\ Change(t)' = Change(t) /\ t \in Callers
    <3>1. t \in Callers
      BY TwoRecords
    <3>2. t # c /\ SetsLinks(t)'
      BY <1>6
    <3>3. op'[t] = op[t] /\ SetsLinks(t) /\ Change(t)' = Change(t)
      BY <1>3, <3>2
    <3> QED
      BY <3>1, <3>3
  <2>2. CASE Ahead(s, t)'
    <3>1. Ahead(s, t) /\ InQueue(s)
      BY <1>1, <1>6, <2>2, AheadAfterCall
    <3>2. SetsLinks(s) /\ Change(s)' = Change(s)
      BY <1>3, <1>5, <1>6, <3>1
    <3> QED
      BY <2>1, <3>1, <3>2 DEF InOrder
  <2>3. CASE UnderWay(s)' /\ op'[s].pc # "queued" /\ op'[t].pc = "queued"
    <3>1. InQueue(t)
      BY <1>1, <2>1, <2>3 DEF Turns
    <3>2. busy
      BY <1>1, <3>1 DEF Turns, InQueue
    <3>3. s # c
      BY <2>3, <3>2 DEF CallMoves
    <3>4. op'[s] = op[s] /\ SetsLinks(s) /\ Change(s)' = Change(s)
      BY <1>3, <1>6, <3>3
    <3>5. UnderWay(s) /\ op[s].pc # "queued" /\ op[t].pc = "queued"
      BY <2>1, <2>3, <3>4 DEF UnderWay
    <3> QED
      BY <2>1, <3>4, <3>5 DEF InOrder
  <2> QED
    BY <1>6, <2>2, <2>3
<1>7. ASSUME NEW s \in Syncs, SetsLinks(s)',
             \/ Ahead(s, c)'
             \/ (UnderWay(s)' /\ op'[s].pc # "queued" /\ op'[c].pc = "queued")
      PROVE  Change(s)' < Change(c)'
  <2>1. s # c
    <3>1. CASE Ahead(s, c)'
      BY <1>1, <1>5, <3>1, AheadAfterCall
    <3>2. CASE op'[s].pc # "queued" /\ op'[c].pc = "queued"
      BY <3>2
    <3> QED
      BY <1>7, <3>1, <3>2
  <2> QED
    BY <1>3, <1>7, <2>1
<1>8. ASSUME NEW s \in Syncs, NEW t \in Syncs, SetsLinks(s)', SetsLinks(t)',
             \/ Ahead(s, t)'
             \/ (UnderWay(s)' /\ op'[s].pc # "queued" /\ op'[t].pc = "queued")
      PROVE  Change(s)' < Change(t)'
  <2>1. CASE t # c
    BY <1>6, <1>8, <2>1
  <2>2. CASE t = c
    BY <1>7, <1>8, <2>2
  <2> QED
    BY <2>1, <2>2
<1> QED
  BY <1>2, <1>3, <1>4, <1>8 DEF InOrder

-----------------------------------------------------------------------------
(* What is written of the links, as operations go on. *)
LEMMA ProgressKeepsLinks ==
  ASSUME DbInv, Shapes, InOrder, LinksKept, NEW c \in Callers,
         QueueMoves(c), OperationMoves(c), Undisturbing(c), UNCHANGED links
  PROVE  LinksKept'
<1>1. Turns /\ (\A d \in Callers : op[d] \in Operations) /\ Contents \in Records
  BY ContentsTyped DEF DbInv, OpsTyped
<1>2. ASSUME NEW s \in Syncs
      PROVE  /\ s \in Callers /\ (SetsLinks(s)' <=> SetsLinks(s))
             /\ SetsLinks(s) => op'[s].value = op[s].value
             /\ \/ op'[s].pc = op[s].pc \/ s = c
                \/ op[s].pc = "queued" /\ op'[s].pc = "reading"
  <2>1. s \in Callers
    BY TwoRecords
  <2>2. CASE s = c
    BY <2>1, <2>2 DEF OperationMoves, SetsLinks
  <2>3. CASE op'[s] = op[s]
    BY <2>1, <2>3 DEF SetsLinks
  <2>4. CASE op[s].pc = "queued" /\ op'[s] = [op[s] EXCEPT !.pc = "reading"]
    BY <1>1, <2>1, <2>4 DEF Operations, SetsLinks
  <2> QED
    BY <2>1, <2>2, <2>3, <2>4 DEF QueueMoves
<1>3. \A s \in Syncs : SetsLinks(s) => Change(s)' = Change(s)
  BY <1>2 DEF Change
<1>4. ASSUME NEW s \in Syncs, NEW t \in Syncs, SetsLinks(s), SetsLinks(t), s # t,
             UnderWay(t)', op'[s].pc \in {"opening", "writing", "renaming", "done"}
      PROVE  Change(s) < Change(t)
  <2>1. UnderWay(t)
    BY <1>2, <1>4 DEF UnderWay, OperationMoves, Stages
  <2>2. CASE op[s].pc \in {"opening", "writing", "renaming", "done"}
    BY <1>4, <2>1, <2>2 DEF LinksKept
  <2>3. CASE op[s].pc \notin {"opening", "writing", "renaming", "done"}
    <3>1. s = c
      BY <1>2, <1>4, <2>3
    <3>2. /\ op[s].kind = "set" /\ UnderWay(s) /\ op[s].pc = "reading"
          /\ Renaming = {} /\ s \in Current
      BY <1>2, <1>4, <2>3, <3>1
      DEF SetsLinks, OperationMoves, Undisturbing, UnderWay, Stages, Current
    <3>3. op[t].pc = "queued"
      <4>1. t \in Callers /\ t \notin Current /\ t \notin Renaming
        BY <1>1, <1>2, <1>4, <3>2 DEF Turns
      <4> QED
        BY <2>1, <4>1 DEF Current, Renaming, UnderWay, Stages
    <3> QED
      BY <1>4, <3>2, <3>3 DEF InOrder
  <2> QED
    BY <2>2, <2>3
<1>5. ASSUME NEW s \in Syncs, SetsLinks(s), op'[s].pc = "done", Change(s) = links
      PROVE  Contents'["links"] = op[s].value
  <2>1. CASE s = c
    <3>1. op[c].kind = "set" /\ op[c].key = "links"
      BY <1>2, <1>5, <2>1, TwoRecords DEF SetsLinks, Shapes, RecordOf
    <3>2. Contents' = [Contents EXCEPT ![op[c].key] = op[c].value]
      BY <1>5, <2>1, <3>1 DEF Undisturbing
    <3> QED
      BY <1>1, <2>1, <3>1, <3>2, TwoRecords DEF Records
  <2>2. CASE s # c
    <3>1. op[s].pc = "done"
      BY <1>2, <1>5, <2>2
    <3>2. Contents["links"] = op[s].value
      BY <1>5, <3>1 DEF LinksKept
    <3>3. CASE Contents' = Contents
      BY <3>2, <3>3
    <3>4. CASE /\ op[c].kind = "set"
               /\ Contents' = [Contents EXCEPT ![op[c].key] = op[c].value]
      <4>1. op[c].key = RecordOf(c)
        BY <3>4 DEF Shapes
      <4>2. CASE c \in Requests
        BY <1>1, <3>2, <3>4, <4>1, <4>2, TwoRecords DEF Records, RecordOf
      <4>3. CASE c \in Syncs
        <5>1. SetsLinks(c) /\ UnderWay(c)
          BY <3>4, <4>3 DEF SetsLinks, OperationMoves
        <5>2. Change(s) < Change(c)
          BY <1>5, <2>2, <3>1, <4>3, <5>1 DEF LinksKept
        <5>3. /\ Change(c) <= links /\ links = Change(s)
              /\ Change(s) \in Nat /\ Change(c) \in Nat
          <6>1. op[s].value \in LinkRecords /\ op[c].value \in LinkRecords
            BY <1>2, <1>5, <4>3, <5>1, TwoRecords DEF Shapes, SetsLinks, ValuesOf
          <6> QED
            BY <1>5, <4>3, <5>1, <6>1, UsersAssumption
               DEF InOrder, LinkRecords, Change
        <5> QED
          BY <5>2, <5>3
      <4> QED
        BY <4>2, <4>3, TwoRecords
    <3> QED
      BY <3>3, <3>4 DEF Undisturbing
  <2> QED
    BY <2>1, <2>2
<1>6. \A s, t \in Syncs :
        SetsLinks(s)' /\ SetsLinks(t)' /\ s # t /\ UnderWay(t)'
          /\ op'[s].pc \in {"opening", "writing", "renaming", "done"}
          => Change(s)' < Change(t)'
  BY <1>2, <1>3, <1>4
<1>7. \A s \in Syncs :
        SetsLinks(s)' /\ op'[s].pc = "done" /\ Change(s)' = links'
          => Contents'["links"] = op'[s].value
  BY <1>2, <1>3, <1>5
<1> QED
  BY <1>6, <1>7 DEF LinksKept

(* A request's operation is not about links. *)
LEMMA OtherCallKeepsLinks ==
  ASSUME LinksKept, NEW c \in Callers, NEW kind, NEW v, CallMoves(c, kind, v),
         ~SetsLinks(c), ~SetsLinks(c)', UNCHANGED links
  PROVE  LinksKept'
<1>1. \A s \in Syncs : s # c => op'[s] = op[s]
  BY TwoRecords DEF CallMoves
<1>2. ASSUME NEW s \in Syncs
      PROVE  /\ (SetsLinks(s)' <=> SetsLinks(s))
             /\ SetsLinks(s) => /\ op'[s] = op[s] /\ Change(s)' = Change(s)
                                /\ (UnderWay(s)' <=> UnderWay(s))
  <2>1. CASE s = c
    BY <2>1
  <2>2. CASE s # c
    BY <1>1, <2>2 DEF SetsLinks, Change, UnderWay
  <2> QED
    BY <2>1, <2>2
<1>3. Contents' = Contents
  BY DEF CallMoves, Contents
<1>4. \A s, t \in Syncs :
        SetsLinks(s)' /\ SetsLinks(t)' /\ s # t /\ UnderWay(t)'
          /\ op'[s].pc \in {"opening", "writing", "renaming", "done"}
          => Change(s)' < Change(t)'
  BY <1>2 DEF LinksKept
<1>5. \A s \in Syncs :
        SetsLinks(s)' /\ op'[s].pc = "done" /\ Change(s)' = links'
          => Contents'["links"] = op'[s].value
  BY <1>2, <1>3 DEF LinksKept
<1> QED
  BY <1>4, <1>5 DEF LinksKept

(* A change of the links is newer than what was written. *)
LEMMA ChangeKeepsLinks ==
  ASSUME LinksKept, NEW c \in Syncs, CallMoves(c, "set", [changes |-> links + 1]),
         links \in Nat, links' = links + 1, Change(c)' = links',
         \A s \in Syncs : s # c /\ SetsLinks(s)' => Change(s)' < Change(c)'
  PROVE  LinksKept'
<1>1. \A s \in Syncs : s # c => op'[s] = op[s]
  BY TwoRecords DEF CallMoves
<1>2. op'[c].pc \in {"reading", "queued"}
  BY DEF CallMoves
<1>3. ASSUME NEW s \in Syncs, s # c
      PROVE  /\ (SetsLinks(s)' <=> SetsLinks(s))
             /\ op'[s] = op[s] /\ Change(s)' = Change(s)
             /\ (UnderWay(s)' <=> UnderWay(s))
  BY <1>1, <1>3 DEF SetsLinks, Change, UnderWay
<1>4. ASSUME NEW s \in Syncs, NEW t \in Syncs, SetsLinks(s)', SetsLinks(t)', s # t,
             UnderWay(t)', op'[s].pc \in {"opening", "writing", "renaming", "done"}
      PROVE  Change(s)' < Change(t)'
  <2>1. s # c
    BY <1>2, <1>4
  <2>2. CASE t = c
    BY <1>4, <2>1, <2>2
  <2>3. CASE t # c
    BY <1>3, <1>4, <2>1, <2>3 DEF LinksKept
  <2> QED
    BY <2>2, <2>3
<1>5. ASSUME NEW s \in Syncs, SetsLinks(s)', op'[s].pc = "done", Change(s)' = links'
      PROVE  FALSE
  <2>1. s # c
    BY <1>2, <1>5
  <2>2. Change(s)' < links'
    BY <1>5, <2>1
  <2> QED
    BY <1>5, <2>2
<1> QED
  BY <1>4, <1>5 DEF LinksKept

(* Nobody writes links. *)
LEMMA NobodyKeepsLinks ==
  ASSUME \A s \in Syncs : ~SetsLinks(s)'
  PROVE  LinksKept'
BY DEF LinksKept

-----------------------------------------------------------------------------
(* The table of users that the file holds. *)
LEMMA UsersStored ==
  ASSUME Shapes
  PROVE  /\ StoredUsers \in Tables
         /\ \A r \in Requests : Read(r) \in Tables
<1>1. Contents["users"] \in UserRecords \cup {Nothing} /\ NoUsers \in Tables
  BY ContentsShaped DEF Shaped, NoUsers, Tables
<1>2. \A r \in Requests : op[r].value \in UserRecords \cup {Nothing}
  BY TwoRecords DEF Shapes, ValuesOf
<1> QED
  BY <1>1, <1>2 DEF StoredUsers, Read, UserRecords

(* A request and its operation, as that goes on. *)
LEMMA ProgressKeepsFits ==
  ASSUME DbInv, Fits, NEW c \in Callers, QueueMoves(c), OperationMoves(c), UNCHANGED req
  PROVE  Fits'
<1>1. \A d \in Callers : op[d] \in Operations
  BY DEF DbInv, OpsTyped
<1>2. ASSUME NEW r \in Requests
      PROVE  /\ UnderWay(r)' => UnderWay(r)
             /\ op'[r].kind = op[r].kind
             /\ op[r].kind = "set" => op'[r].value = op[r].value
  <2>1. r \in Callers
    BY TwoRecords
  <2>2. CASE r = c
    BY <2>2 DEF OperationMoves
  <2>3. CASE op'[r] = op[r]
    BY <2>3 DEF UnderWay
  <2>4. CASE op[r].pc = "queued" /\ op'[r] = [op[r] EXCEPT !.pc = "reading"]
    BY <1>1, <2>1, <2>4 DEF Operations, UnderWay, Stages
  <2> QED
    BY <2>1, <2>2, <2>3, <2>4 DEF QueueMoves
<1> QED
  BY <1>2 DEF Fits, InHand

(* What a request was told is in the file, as operations go on. *)
LEMMA ProgressKeepsUsers ==
  ASSUME DbInv, Shapes, Fits, UsersKept, NEW c \in Callers,
         QueueMoves(c), OperationMoves(c), Undisturbing(c), UNCHANGED <<req, registry>>
  PROVE  UsersKept'
<1>1. Contents \in Records /\ InHand' = InHand /\ \A d \in Callers : op[d] \in Operations
  BY ContentsTyped DEF DbInv, OpsTyped, InHand
<1>2. ASSUME NEW r \in Requests, r # c
      PROVE  /\ (Wrote(r)' <=> Wrote(r))
             /\ op'[r].pc = "done" => op'[r] = op[r]
  <2>1. r \in Callers
    BY TwoRecords
  <2>2. CASE op'[r] = op[r]
    BY <2>2 DEF Wrote
  <2>3. CASE op[r].pc = "queued" /\ op'[r] = [op[r] EXCEPT !.pc = "reading"]
    BY <1>1, <2>1, <2>3 DEF Operations, Wrote
  <2> QED
    BY <1>2, <2>1, <2>2, <2>3 DEF QueueMoves
<1>3. c \in Requests => ~Wrote(c)
  BY DEF OperationMoves, Wrote, UnderWay, Stages
<1>4. ASSUME c \in Requests, op[c].kind = "set", op'[c].pc = "done",
             Contents' = [Contents EXCEPT ![op[c].key] = op[c].value]
      PROVE  UsersKept'
  <2>1. req[c].pc = "setting" /\ op[c].value = [table |-> req[c].users]
    BY <1>4 DEF Fits, OperationMoves
  <2>2. op[c].key = "users" /\ op[c].value \in UserRecords
    BY <1>4, TwoRecords DEF Shapes, RecordOf, ValuesOf
  <2>3. Contents'["users"] = [table |-> req[c].users] /\ Contents'["users"] # Nothing
    BY <1>1, <1>4, <2>1, <2>2, TwoRecords DEF Records
  <2>4. StoredUsers' = req[c].users
    BY <2>3 DEF StoredUsers
  <2>5. Wrote(c)' /\ c \in InHand
    BY <1>4, <2>1 DEF Wrote, InHand, Handling
  <2>6. ASSUME NEW r \in Requests
        PROVE  /\ ~(req'[r].pc = "getting" /\ op'[r].pc = "done")
               /\ req'[r].pc \in {"computing", "setting"}
                    => req'[r].users = [registry' EXCEPT ![req'[r].name] =
                                                 req'[r].users[req'[r].name]]
               /\ Wrote(r)' => StoredUsers' = req'[r].users
    <3>1. r \in InHand => r = c
      BY <2>5 DEF UsersKept
    <3>2. req[r].pc \in Handling => r = c
      BY <3>1 DEF InHand
    <3> QED
      BY <2>1, <2>4, <3>2 DEF UsersKept, Wrote, Handling
  <2> QED
    BY <1>1, <2>5, <2>6, <1>4 DEF UsersKept
<1>5. ASSUME Contents'["users"] = Contents["users"],
             c \in Requests /\ op'[c].pc = "done" =>
               op[c].kind = "get" /\ op'[c].value = Contents[op[c].key]
      PROVE  UsersKept'
  <2>1. StoredUsers' = StoredUsers
    BY <1>5 DEF StoredUsers
  <2>2. c \in Requests => ~Wrote(c)'
    BY <1>5 DEF Wrote, OperationMoves, Fits
  <2>3. \A r \in Requests : Wrote(r)' <=> Wrote(r)
    BY <1>2, <1>3, <2>2
  <2>4. ASSUME NEW r \in Requests
        PROVE  /\ req'[r].pc = "getting" /\ op'[r].pc = "done"
                    => op'[r].value = Contents'["users"]
               /\ req'[r].pc \in {"computing", "setting"}
                    => req'[r].users = [registry' EXCEPT ![req'[r].name] =
                                                 req'[r].users[req'[r].name]]
               /\ Wrote(r)' => StoredUsers' = req'[r].users
    <3>1. CASE r = c
      <4>1. op'[c].pc = "done" => op[c].key = "users"
        BY <1>5, <3>1, TwoRecords DEF Shapes, RecordOf
      <4> QED
        BY <1>5, <2>1, <2>3, <3>1, <4>1 DEF UsersKept
    <3>2. CASE r # c
      BY <1>2, <1>5, <2>1, <2>3, <3>2 DEF UsersKept
    <3> QED
      BY <3>1, <3>2
  <2> QED
    BY <1>1, <2>1, <2>3, <2>4 DEF UsersKept
<1>6. CASE /\ Contents' = Contents
           /\ op'[c].pc = "done"
                => op[c].kind = "get" /\ op'[c].value = Contents[op[c].key]
  BY <1>5, <1>6
<1>7. CASE /\ op[c].kind = "set" /\ op'[c].pc = "done"
           /\ Contents' = [Contents EXCEPT ![op[c].key] = op[c].value]
  <2>1. CASE c \in Requests
    BY <1>4, <1>7, <2>1
  <2>2. CASE c \notin Requests
    <3>1. op[c].key = "links"
      BY <1>7, <2>2 DEF Shapes, RecordOf
    <3>2. Contents'["users"] = Contents["users"]
      BY <1>1, <1>7, <3>1, TwoRecords DEF Records
    <3> QED
      BY <1>5, <2>2, <3>2
  <2> QED
    BY <2>1, <2>2
<1> QED
  BY <1>6, <1>7 DEF Undisturbing

-----------------------------------------------------------------------------
(* A step of the handler of r, to where it goes and with what users. *)
Proceeds(r, pc, users) ==
  /\ req' \in [Requests -> RequestRecord]
  /\ req'[r].pc = pc /\ req'[r].users = users
  /\ req'[r].kind = req[r].kind /\ req'[r].name = req[r].name
  /\ \A q \in Requests \ {r} : req'[q] = req[q]

(* A handler goes on, its users as they were. *)
LEMMA GoToProceeds ==
  ASSUME HandlersTyped, NEW r \in Requests,
         NEW pc \in {"idle", "over"} \cup Handling, GoTo(r, pc)
  PROVE  Proceeds(r, pc, req[r].users)
<1> DEFINE new == [req[r] EXCEPT !.pc = pc]
<1>1. req' = [req EXCEPT ![r] = new] /\ req \in [Requests -> RequestRecord]
  BY DEF GoTo, HandlersTyped
<1>2. /\ new \in RequestRecord /\ new.pc = pc /\ new.users = req[r].users
      /\ new.kind = req[r].kind /\ new.name = req[r].name
  BY <1>1 DEF RequestRecord
<1> HIDE DEF new
<1> QED
  BY <1>1, <1>2 DEF Proceeds

(* ... or to the next promise, with a changed table of users. *)
LEMMA ChangeProceeds ==
  ASSUME HandlersTyped, NEW r \in Requests, NEW pc \in Handling,
         NEW users \in Tables,
         req' = [req EXCEPT ![r].pc = pc, ![r].users = users]
  PROVE  Proceeds(r, pc, users)
<1> DEFINE new == [req[r] EXCEPT !.pc = pc, !.users = users]
<1>1. req' = [req EXCEPT ![r] = new] /\ req \in [Requests -> RequestRecord]
  BY DEF HandlersTyped
<1>2. /\ new \in RequestRecord /\ new.pc = pc /\ new.users = users
      /\ new.kind = req[r].kind /\ new.name = req[r].name
  BY <1>1 DEF RequestRecord
<1> HIDE DEF new
<1> QED
  BY <1>1, <1>2 DEF Proceeds

(* A request alone in hand. *)
LEMMA AloneInHand ==
  ASSUME UsersKept, NEW r \in InHand
  PROVE  \A q \in Requests \ {r} : req[q].pc \notin Handling /\ ~Wrote(q)
BY DEF UsersKept, InHand, Wrote, Handling

(* A reply. *)
LEMMA ReplyKeepsFits ==
  ASSUME Fits, NEW r \in InHand, ~UnderWay(r),
         Proceeds(r, "over", req[r].users), UNCHANGED dbVars
  PROVE  /\ Fits'
         /\ UsersKept /\ registry' = StoredUsers => UsersKept'
<1>1. /\ r \in Requests /\ op' = op /\ StoredUsers' = StoredUsers
      /\ Contents' = Contents
      /\ \A q \in Requests : UnderWay(q)' <=> UnderWay(q)
  BY DEF dbVars, StoredUsers, Contents, UnderWay, InHand
<1>2. \A q \in InHand' : q \in InHand /\ q # r
  BY DEF InHand, Proceeds, Handling
<1>3. Fits'
  <2>1. ASSUME NEW q \in Requests
        PROVE  /\ req'[q].pc \notin {"getting", "setting"} => ~UnderWay(q)'
               /\ req'[q].pc = "getting" => op'[q].kind = "get"
               /\ req'[q].pc = "setting" =>
                    op'[q].kind = "set" /\ op'[q].value = [table |-> req'[q].users]
               /\ q \in InHand' => req'[q].name \in Names /\ req'[q].kind # "none"
    <3>1. CASE q = r
      BY <1>1, <1>2, <3>1 DEF Proceeds
    <3>2. CASE q # r
      BY <1>1, <1>2, <3>2 DEF Proceeds, Fits
    <3> QED
      BY <3>1, <3>2
  <2> QED
    BY <2>1 DEF Fits
<1>4. ASSUME UsersKept, registry' = StoredUsers PROVE UsersKept'
  <2>1. InHand' = {}
    BY <1>1, <1>2, <1>4 DEF UsersKept
  <2>2. \A q \in Requests : req'[q].pc \notin Handling /\ ~Wrote(q)'
    BY <2>1 DEF InHand, Wrote, Handling
  <2> QED
    BY <1>1, <1>4, <2>1, <2>2 DEF UsersKept, Handling
<1> QED
  BY <1>3, <1>4

(* A request goes on to compute or to write. *)
LEMMA GoingOnKeepsFits ==
  ASSUME Fits, NEW r \in InHand, NEW users, NEW pc \in {"computing", "setting"},
         Proceeds(r, pc, users), UNCHANGED registry, Contents' = Contents,
         req[r].pc \in {"getting", "computing"},
         \A q \in Requests \ {r} : op'[q] = op[q],
         pc = "computing" => ~UnderWay(r)',
         pc = "setting" => /\ op'[r].kind = "set" /\ op'[r].pc # "done"
                           /\ op'[r].value = [table |-> users]
  PROVE  /\ Fits'
         /\ UsersKept /\ users = [registry EXCEPT ![req[r].name] = users[req[r].name]]
              => UsersKept'
<1>1. /\ r \in Requests /\ StoredUsers' = StoredUsers
      /\ \A q \in Requests \ {r} : UnderWay(q)' <=> UnderWay(q)
  BY DEF StoredUsers, UnderWay, InHand
<1>2. InHand' = InHand
  BY DEF InHand, Proceeds, Handling
<1>3. Fits'
  <2>1. ASSUME NEW q \in Requests
        PROVE  /\ req'[q].pc \notin {"getting", "setting"} => ~UnderWay(q)'
               /\ req'[q].pc = "getting" => op'[q].kind = "get"
               /\ req'[q].pc = "setting" =>
                    op'[q].kind = "set" /\ op'[q].value = [table |-> req'[q].users]
               /\ q \in InHand' => req'[q].name \in Names /\ req'[q].kind # "none"
    <3>1. CASE q = r
      BY <1>1, <1>2, <3>1 DEF Proceeds, Fits
    <3>2. CASE q # r
      BY <1>1, <1>2, <3>2 DEF Proceeds, Fits
    <3> QED
      BY <3>1, <3>2
  <2> QED
    BY <2>1 DEF Fits
<1>4. ASSUME UsersKept,
             users = [registry EXCEPT ![req[r].name] = users[req[r].name]]
      PROVE  UsersKept'
  <2>1. \A q \in Requests \ {r} : req'[q].pc \notin Handling /\ ~Wrote(q) /\ ~Wrote(q)'
    BY <1>4, AloneInHand DEF Proceeds, Wrote, Handling
  <2>2. ~Wrote(r) /\ ~Wrote(r)'
    BY DEF Wrote, Proceeds
  <2>3. StoredUsers' = registry'
    BY <1>1, <1>4, <2>1, <2>2 DEF UsersKept
  <2>4. ASSUME NEW q \in Requests
        PROVE  /\ req'[q].pc = "getting" /\ op'[q].pc = "done"
                    => op'[q].value = Contents'["users"]
               /\ req'[q].pc \in {"computing", "setting"}
                    => req'[q].users = [registry' EXCEPT ![req'[q].name] =
                                                 req'[q].users[req'[q].name]]
               /\ Wrote(q)' => StoredUsers' = req'[q].users
    <3>1. CASE q = r
      BY <1>4, <2>2, <3>1 DEF Proceeds
    <3>2. CASE q # r
      BY <2>1, <3>2 DEF Handling
    <3> QED
      BY <3>1, <3>2
  <2> QED
    BY <1>2, <1>4, <2>3, <2>4 DEF UsersKept
<1> QED
  BY <1>3, <1>4

(* A request begins. *)
LEMMA BeginKeepsFits ==
  ASSUME HandlersTyped, Fits, NEW r \in Requests, NEW u \in Names,
         NEW kind \in {"addUser", "removeUser", "login"}, req[r].pc = "idle",
         req' = [req EXCEPT ![r] = [kind |-> kind, name |-> u, pc |-> "getting",
                                    users |-> NoUsers]],
         CallMoves(r, "get", Nothing), UNCHANGED registry
  PROVE  /\ req' \in [Requests -> RequestRecord]
         /\ Fits'
         /\ UsersKept /\ InHand = {} => UsersKept'
<1> DEFINE new == [kind |-> kind, name |-> u, pc |-> "getting", users |-> NoUsers]
<1>1. new \in RequestRecord
  BY DEF RequestRecord, Handling, NoUsers, Tables
<1>2. /\ req'[r] = new /\ req' \in [Requests -> RequestRecord]
      /\ \A q \in Requests \ {r} : req'[q] = req[q]
  BY <1>1 DEF HandlersTyped
<1>3. /\ Contents' = Contents /\ StoredUsers' = StoredUsers
      /\ op'[r].kind = "get" /\ op'[r].pc # "done"
      /\ \A q \in Requests \ {r} : op'[q] = op[q] /\ (UnderWay(q)' <=> UnderWay(q))
  BY TwoRecords DEF CallMoves, Contents, StoredUsers, UnderWay
<1>4. ASSUME NEW q \in Requests
      PROVE  /\ req'[q].pc \notin {"getting", "setting"} => ~UnderWay(q)'
             /\ req'[q].pc = "getting" => op'[q].kind = "get"
             /\ req'[q].pc = "setting" =>
                  op'[q].kind = "set" /\ op'[q].value = [table |-> req'[q].users]
             /\ q \in InHand' => req'[q].name \in Names /\ req'[q].kind # "none"
  <2>1. CASE q = r
    BY <1>2, <1>3, <2>1
  <2>2. CASE q # r
    BY <1>2, <1>3, <2>2 DEF Fits, InHand
  <2> QED
    BY <2>1, <2>2
<1>5. Fits'
  BY <1>4 DEF Fits
<1>6. ASSUME UsersKept, InHand = {} PROVE UsersKept'
  <2>1. \A q \in Requests : req[q].pc \notin Handling
    BY <1>6 DEF InHand
  <2>2. \A q \in Requests \ {r} : req'[q].pc \notin Handling /\ ~Wrote(q) /\ ~Wrote(q)'
    BY <1>2, <2>1 DEF Wrote, Handling
  <2>3. ~Wrote(r) /\ ~Wrote(r)'
    BY <1>2 DEF Wrote
  <2>4. \A q, p \in InHand' : q = p
    BY <2>2 DEF InHand
  <2>5. StoredUsers' = registry'
    BY <1>3, <1>6, <2>2, <2>3 DEF UsersKept
  <2>6. ASSUME NEW q \in Requests
        PROVE  /\ req'[q].pc = "getting" /\ op'[q].pc = "done"
                    => op'[q].value = Contents'["users"]
               /\ req'[q].pc \in {"computing", "setting"}
                    => req'[q].users = [registry' EXCEPT ![req'[q].name] =
                                                 req'[q].users[req'[q].name]]
               /\ Wrote(q)' => StoredUsers' = req'[q].users
    <3>1. CASE q = r
      BY <1>2, <1>3, <2>3, <3>1
    <3>2. CASE q # r
      BY <2>2, <3>2 DEF Handling
    <3> QED
      BY <3>1, <3>2
  <2> QED
    BY <2>4, <2>5, <2>6 DEF UsersKept
<1> QED
  BY <1>2, <1>5, <1>6

(* What concerns neither the requests nor their operations. *)
LEMMA ElsewhereKeepsFits ==
  ASSUME Fits, UNCHANGED <<req, registry>>, Contents' = Contents,
         \A r \in Requests : op'[r] = op[r]
  PROVE  /\ Fits'
         /\ UsersKept => UsersKept'
<1>1. /\ InHand' = InHand /\ StoredUsers' = StoredUsers
      /\ \A r \in Requests : /\ UnderWay(r)' <=> UnderWay(r)
                             /\ Wrote(r)' <=> Wrote(r)
  BY DEF InHand, StoredUsers, UnderWay, Wrote
<1>2. Fits'
  BY <1>1 DEF Fits
<1>3. UsersKept => UsersKept'
  BY <1>1 DEF UsersKept
<1> QED
  BY <1>2, <1>3

-----------------------------------------------------------------------------
(* The invariant, in two parts. *)
LinksInv == Shapes /\ InOrder /\ (~overtaken => LinksKept)
RequestsInv ==
  HandlersTyped /\ Fits /\ (~overtaken /\ ~overlapped => UsersKept)

(* A request's call of the database. *)
LEMMA RequestCalls ==
  ASSUME DbInv, LinksInv, NEW r \in Requests, NEW v \in UserRecords \cup {Nothing},
         NEW kind \in {"get", "set"}, kind = "set" => v \in UserRecords,
         Call(r, kind, "users", v), UNCHANGED <<links, up>>
  PROVE  /\ DbInv' /\ LinksInv' /\ CallMoves(r, kind, v) /\ ~UnderWay(r)
         /\ overtaken' = overtaken
<1>1. r \in Callers /\ RecordOf(r) = "users" /\ ValuesOf(r) = UserRecords
  BY TwoRecords DEF RecordOf, ValuesOf
<1>2. DbInv' /\ CallMoves(r, kind, v) /\ ~UnderWay(r)
  BY <1>1, CallDoes, TwoRecords
<1>3. ~SetsLinks(r) /\ ~SetsLinks(r)'
  BY <1>1, TwoRecords DEF SetsLinks
<1>4. Shapes'
  BY <1>1, <1>2, CallKeepsShapes DEF LinksInv
<1>5. up' = "loading" => op'[Loader].kind = "get"
  <2>1. Loader \in Syncs
    BY UsersAssumption DEF Loader
  <2>2. op'[Loader] = op[Loader]
    BY <1>1, <1>2, <2>1, TwoRecords DEF CallMoves
  <2> QED
    BY <2>2 DEF LinksInv, InOrder
<1>6. InOrder'
  BY <1>1, <1>2, <1>3, <1>5, OtherCallKeepsOrder DEF LinksInv
<1>7. overtaken' = overtaken
  BY <1>2 DEF CallMoves
<1>8. ~overtaken' => LinksKept'
  BY <1>1, <1>2, <1>3, <1>7, OtherCallKeepsLinks DEF LinksInv
<1> QED
  BY <1>2, <1>4, <1>6, <1>7, <1>8 DEF LinksInv

(* Nothing happens to the database or the links. *)
LEMMA StillKeepsLinks ==
  ASSUME DbInv, LinksInv, UNCHANGED <<dbVars, links, up>>
  PROVE  DbInv' /\ LinksInv' /\ overtaken' = overtaken
<1>1. DbInv'
  BY StepInv
<1>2. \A c \in Callers : op'[c] = op[c]
  BY DEF dbVars
<1>3. Shapes'
  BY DEF LinksInv, Shapes, Shaped, RecordOf, ValuesOf, dbVars
<1>4. InOrder'
  BY DEF LinksInv, InOrder, SetsLinks, Change, Ahead, UnderWay, dbVars
<1>5. ~overtaken' => LinksKept'
  BY DEF LinksInv, LinksKept, SetsLinks, Change, UnderWay, Contents, dbVars
<1> QED
  BY <1>1, <1>3, <1>4, <1>5 DEF LinksInv, dbVars

-----------------------------------------------------------------------------
(* The registry after a request changed its user. *)
LEMMA UsersChange ==
  ASSUME NEW table \in Tables, NEW u \in Names, NEW x \in Requests \cup {Nobody}
  PROVE  /\ [table EXCEPT ![u] = x] \in Tables
         /\ [table EXCEPT ![u] = x] = [table EXCEPT ![u] = [table EXCEPT ![u] = x][u]]
BY DEF Tables

(* What a request in hand read is what the monitors know. *)
LEMMA ReadIsRegistry ==
  ASSUME UsersKept, Shapes, NEW r \in Requests, req[r].pc = "getting",
         op[r].pc = "done"
  PROVE  Read(r) = registry
<1>1. op[r].value = Contents["users"] /\ r \in InHand
  BY DEF UsersKept, InHand, Handling
<1>2. Read(r) = StoredUsers
  BY <1>1 DEF Read, StoredUsers
<1>3. \A q \in Requests : ~Wrote(q)
  BY <1>1, AloneInHand DEF Wrote
<1> QED
  BY <1>2, <1>3 DEF UsersKept

(* The steps of a request keep the invariant, and call the database. *)
LEMMA RefuseKeepsReplies ==
  ASSUME DbInv, LinksInv, RequestsInv, NEW r \in InHand, Refuse(r),
         ~UnderWay(r), ~Wrote(r)
  PROVE  DbInv' /\ LinksInv' /\ RequestsInv' /\ UNCHANGED dbVars
<1>1. /\ UNCHANGED <<dbVars, links, up>> /\ r \in Requests
      /\ UNCHANGED <<registry, overlapped>>
  BY DEF Refuse, InHand
<1>2. DbInv' /\ LinksInv' /\ overtaken' = overtaken
  BY <1>1, StillKeepsLinks
<1>3. Proceeds(r, "over", req[r].users)
  BY <1>1, GoToProceeds DEF Refuse, RequestsInv
<1>4. HandlersTyped'
  BY <1>1, <1>3 DEF Refuse, Finally, RequestsInv, HandlersTyped, Proceeds
<1>5. UsersKept => registry' = StoredUsers
  BY <1>1, AloneInHand DEF UsersKept
<1>6. Fits' /\ (UsersKept => UsersKept')
  BY <1>1, <1>3, <1>5, ReplyKeepsFits DEF RequestsInv
<1> QED
  BY <1>1, <1>2, <1>4, <1>6 DEF RequestsInv

(* A reply of success: what it says is what the file has. *)
LEMMA StoredKeepsReplies ==
  ASSUME DbInv, LinksInv, RequestsInv, NEW r \in Requests, Stored(r)
  PROVE  DbInv' /\ LinksInv' /\ RequestsInv' /\ UNCHANGED dbVars
<1>1. /\ UNCHANGED <<dbVars, links, up>> /\ r \in InHand /\ UNCHANGED overlapped
      /\ Wrote(r) /\ ~UnderWay(r)
      /\ registry' = [registry EXCEPT ![req[r].name] = req[r].users[req[r].name]]
  BY DEF Stored, InHand, Handling, Wrote, UnderWay, Stages
<1>2. DbInv' /\ LinksInv' /\ overtaken' = overtaken
  BY <1>1, StillKeepsLinks
<1>3. Proceeds(r, "over", req[r].users)
  BY GoToProceeds DEF Stored, RequestsInv
<1>4. HandlersTyped'
  <2>1. req[r].name \in Names /\ req[r].users \in Tables /\ registry \in Tables
    BY <1>1 DEF RequestsInv, Fits, HandlersTyped, RequestRecord
  <2>2. req[r].users[req[r].name] \in Requests \cup {Nobody}
    BY <2>1 DEF Tables
  <2>3. registry' \in Tables
    BY <1>1, <2>1, <2>2, UsersChange
  <2> QED
    BY <1>1, <1>3, <2>3
       DEF Stored, Finally, RequestsInv, HandlersTyped, Proceeds
<1>5. UsersKept => registry' = StoredUsers
  BY <1>1 DEF UsersKept, Wrote
<1>6. Fits' /\ (UsersKept => UsersKept')
  BY <1>1, <1>3, <1>5, ReplyKeepsFits DEF RequestsInv
<1> QED
  BY <1>1, <1>2, <1>4, <1>6 DEF RequestsInv

(* The users were read: a refusal, a write or a computation. *)
LEMMA GotUsersKeepsReplies ==
  ASSUME DbInv, LinksInv, RequestsInv, NEW r \in Requests, GotUsers(r)
  PROVE  /\ DbInv' /\ LinksInv' /\ RequestsInv'
         /\ UNCHANGED dbVars \/ \E v \in Values : Set(r, "users", v)
<1>1. /\ req[r].pc = "getting" /\ op[r].pc = "done" /\ r \in InHand
      /\ ~UnderWay(r) /\ ~Wrote(r) /\ r \in Callers
  BY TwoRecords DEF GotUsers, InHand, Handling, UnderWay, Stages, Wrote
<1>2. /\ req[r].name \in Names /\ Read(r) \in Tables /\ Shapes
      /\ UsersKept => Read(r) = registry
  BY <1>1, UsersStored, ReadIsRegistry DEF RequestsInv, LinksInv, Fits
<1>3. ASSUME NEW x \in Requests \cup {Nobody}, NEW pc \in {"computing", "setting"},
             req' = [req EXCEPT ![r].pc = pc,
                                ![r].users = [Read(r) EXCEPT ![req[r].name] = x]],
             UNCHANGED <<pendingUsers, links, up, registry, overlapped>>,
             Contents' = Contents, overtaken' = overtaken,
             \A q \in Requests \ {r} : op'[q] = op[q],
             pc = "computing" => ~UnderWay(r)',
             pc = "setting" =>
               /\ op'[r].kind = "set" /\ op'[r].pc # "done"
               /\ op'[r].value = [table |-> [Read(r) EXCEPT ![req[r].name] = x]]
      PROVE  RequestsInv'
  <2> DEFINE users == [Read(r) EXCEPT ![req[r].name] = x]
  <2>1. /\ users \in Tables
        /\ users = [Read(r) EXCEPT ![req[r].name] = users[req[r].name]]
    BY <1>2, UsersChange
  <2>2. pc \in Handling
    BY DEF Handling
  <2> HIDE DEF users
  <2>3. Proceeds(r, pc, users)
    BY <1>3, <2>1, <2>2, ChangeProceeds DEF RequestsInv, users
  <2>4. HandlersTyped'
    BY <1>3, <2>3 DEF RequestsInv, HandlersTyped, Proceeds
  <2>5. UsersKept =>
          users = [registry EXCEPT ![req[r].name] = users[req[r].name]]
    BY <1>2, <2>1
  <2>6. pc = "setting" => op'[r].value = [table |-> users]
    BY <1>3 DEF users
  <2>7. Fits' /\ (UsersKept => UsersKept')
    BY <1>1, <1>3, <2>3, <2>5, <2>6, GoingOnKeepsFits DEF RequestsInv
  <2> QED
    BY <1>3, <2>4, <2>7 DEF RequestsInv
<1>4. CASE Refuse(r)
  BY <1>1, <1>4, RefuseKeepsReplies
<1>5. CASE /\ Set(r, "users", [table |-> [Read(r) EXCEPT ![req[r].name] = Nobody]])
           /\ req' = [req EXCEPT ![r].pc = "setting",
                        ![r].users = [Read(r) EXCEPT ![req[r].name] = Nobody]]
           /\ UNCHANGED <<pendingUsers, links, up, registry, overlapped>>
  <2> DEFINE v == [table |-> [Read(r) EXCEPT ![req[r].name] = Nobody]]
  <2>1. v \in UserRecords /\ v \in Values
    BY <1>2, UsersChange, TwoRecords DEF UserRecords
  <2> HIDE DEF v
  <2>2. Call(r, "set", "users", v) /\ UNCHANGED <<links, up>>
    BY <1>5 DEF Set, v
  <2>3. DbInv' /\ LinksInv' /\ CallMoves(r, "set", v) /\ overtaken' = overtaken
    BY <2>1, <2>2, RequestCalls
  <2>4. /\ op'[r].kind = "set" /\ op'[r].pc # "done" /\ op'[r].value = v
        /\ \A q \in Requests \ {r} : op'[q] = op[q]
        /\ Contents' = Contents
    BY <2>3, TwoRecords DEF CallMoves, Contents
  <2>5. RequestsInv'
    BY <1>3, <1>5, <2>3, <2>4 DEF v
  <2> QED
    BY <2>1, <2>2, <2>3, <2>5 DEF Set
<1>6. CASE /\ req' = [req EXCEPT ![r].pc = "computing",
                        ![r].users = [Read(r) EXCEPT ![req[r].name] = r]]
           /\ UNCHANGED <<dbVars, pendingUsers, links, up, registry, overlapped>>
  <2>1. DbInv' /\ LinksInv' /\ overtaken' = overtaken
    BY <1>6, StillKeepsLinks
  <2>2. op' = op /\ Contents' = Contents /\ ~UnderWay(r)'
    BY <1>1, <1>6 DEF dbVars, Contents, UnderWay
  <2>3. RequestsInv'
    BY <1>3, <1>6, <2>1, <2>2
  <2> QED
    BY <1>6, <2>1, <2>3
<1> QED
  BY <1>4, <1>5, <1>6 DEF GotUsers

(* The hash was computed, and the users are written. *)
LEMMA ComputedKeepsReplies ==
  ASSUME DbInv, LinksInv, RequestsInv, NEW r \in Requests, Computed(r)
  PROVE  /\ DbInv' /\ LinksInv' /\ RequestsInv'
         /\ \E v \in Values : Set(r, "users", v)
<1> DEFINE v == [table |-> req[r].users]
<1>1. /\ req[r].pc = "computing" /\ r \in InHand
      /\ UNCHANGED <<pendingUsers, links, up, registry, overlapped>>
  BY DEF Computed, InHand, Handling
<1>2. v \in UserRecords /\ v \in Values
  <2>1. req[r].users \in Tables
    BY DEF RequestsInv, HandlersTyped, RequestRecord
  <2> QED
    BY <2>1, TwoRecords DEF UserRecords
<1> HIDE DEF v
<1>3. Set(r, "users", v)
  BY DEF Computed, v
<1>4. DbInv' /\ LinksInv' /\ CallMoves(r, "set", v) /\ overtaken' = overtaken
  BY <1>1, <1>2, <1>3, RequestCalls DEF Set
<1>5. /\ op'[r].kind = "set" /\ op'[r].pc # "done" /\ op'[r].value = v
      /\ \A q \in Requests \ {r} : op'[q] = op[q]
      /\ Contents' = Contents
  BY <1>4, TwoRecords DEF CallMoves, Contents
<1>6. Proceeds(r, "setting", req[r].users)
  BY GoToProceeds DEF Computed, RequestsInv, Handling
<1>7. HandlersTyped'
  BY <1>1, <1>6 DEF RequestsInv, HandlersTyped, Proceeds
<1>8. Fits' /\ (UsersKept => UsersKept')
  <2>1. UsersKept => req[r].users =
          [registry EXCEPT ![req[r].name] = req[r].users[req[r].name]]
    BY <1>1 DEF UsersKept
  <2> QED
    BY <1>1, <1>5, <1>6, <2>1, GoingOnKeepsFits DEF RequestsInv, v
<1> QED
  BY <1>1, <1>2, <1>3, <1>4, <1>7, <1>8 DEF RequestsInv

(* A request begins, or is turned down. *)
LEMMA BeginKeepsReplies ==
  ASSUME DbInv, LinksInv, RequestsInv, NEW r \in Requests, NEW u \in Names,
         NEW kind \in {"addUser", "removeUser", "login"}, Begin(r, kind, u)
  PROVE  /\ DbInv' /\ LinksInv' /\ RequestsInv'
         /\ UNCHANGED dbVars \/ Get(r, "users")
<1>1. req[r].pc = "idle" /\ UNCHANGED <<links, up, registry>>
  BY DEF Begin
<1>2. CASE /\ Claim(kind, u)
           /\ req' = [req EXCEPT ![r] = [kind |-> kind, name |-> u,
                                         pc |-> "getting", users |-> NoUsers]]
           /\ overlapped' = (overlapped \/ InHand # {})
           /\ Get(r, "users")
  <2>1. DbInv' /\ LinksInv' /\ CallMoves(r, "get", Nothing) /\ overtaken' = overtaken
    BY <1>1, <1>2, RequestCalls DEF Get
  <2>2. /\ req' \in [Requests -> RequestRecord] /\ Fits'
        /\ UsersKept /\ InHand = {} => UsersKept'
    BY <1>1, <1>2, <2>1, BeginKeepsFits DEF RequestsInv
  <2>3. pendingUsers' \subseteq Names /\ overlapped' \in BOOLEAN
    BY <1>2 DEF Claim, RequestsInv, HandlersTyped
  <2>4. HandlersTyped'
    BY <1>1, <2>2, <2>3 DEF RequestsInv, HandlersTyped
  <2> QED
    BY <1>2, <2>1, <2>2, <2>4 DEF RequestsInv
<1>3. CASE GoTo(r, "over") /\ UNCHANGED <<dbVars, pendingUsers, overlapped>>
  <2>1. DbInv' /\ LinksInv' /\ overtaken' = overtaken
    BY <1>1, <1>3, StillKeepsLinks
  <2>2. Proceeds(r, "over", req[r].users)
    BY <1>3, GoToProceeds DEF RequestsInv
  <2>3. HandlersTyped'
    BY <1>1, <1>3, <2>2 DEF RequestsInv, HandlersTyped, Proceeds
  <2>4. /\ op' = op /\ StoredUsers' = StoredUsers /\ Contents' = Contents
        /\ \A q \in Requests : UnderWay(q)' <=> UnderWay(q)
    BY <1>3 DEF dbVars, StoredUsers, Contents, UnderWay
  <2>5. InHand' = InHand /\ r \notin InHand
    BY <1>1, <2>2 DEF InHand, Proceeds, Handling
  <2>6. \A q \in Requests : q = r \/ (q # r /\ req'[q] = req[q])
    BY <2>2 DEF Proceeds
  <2>7. Fits'
    <3>1. ASSUME NEW q \in Requests
          PROVE  /\ req'[q].pc \notin {"getting", "setting"} => ~UnderWay(q)'
                 /\ req'[q].pc = "getting" => op'[q].kind = "get"
                 /\ req'[q].pc = "setting" =>
                      op'[q].kind = "set" /\ op'[q].value = [table |-> req'[q].users]
                 /\ q \in InHand' => req'[q].name \in Names /\ req'[q].kind # "none"
      BY <1>1, <2>2, <2>4, <2>5, <2>6 DEF RequestsInv, Fits, Proceeds
    <3> QED
      BY <3>1 DEF Fits
  <2>8. UsersKept => UsersKept'
    <3>1. /\ \A q \in Requests : Wrote(q)' <=> Wrote(q)
          /\ req'[r].pc = "over"
      BY <1>1, <2>2, <2>4, <2>6 DEF Wrote, Proceeds
    <3>2. ASSUME UsersKept, NEW q \in Requests
          PROVE  /\ req'[q].pc = "getting" /\ op'[q].pc = "done"
                      => op'[q].value = Contents'["users"]
                 /\ req'[q].pc \in {"computing", "setting"}
                      => req'[q].users = [registry' EXCEPT ![req'[q].name] =
                                                   req'[q].users[req'[q].name]]
                 /\ Wrote(q)' => StoredUsers' = req'[q].users
      <4>1. CASE q = r
        BY <3>1, <4>1 DEF Wrote
      <4>2. CASE q # r
        <5>1. req'[q] = req[q]
          BY <2>6, <4>2
        <5> QED
          BY <1>1, <2>4, <3>1, <3>2, <5>1 DEF UsersKept
      <4> QED
        BY <4>1, <4>2
    <3> QED
      BY <1>1, <2>4, <2>5, <3>1, <3>2 DEF UsersKept
  <2> QED
    BY <1>3, <2>1, <2>3, <2>7, <2>8 DEF RequestsInv
<1> QED
  BY <1>2, <1>3 DEF Begin

-----------------------------------------------------------------------------
(* The links, restarts and the database.                                   *)

(* A change of the links, written behind the changes before it. *)
LEMMA LinksChangeKeepsReplies ==
  ASSUME DbInv, LinksInv, RequestsInv, NEW s \in Syncs, LinksChange(s)
  PROVE  /\ DbInv' /\ LinksInv' /\ RequestsInv'
         /\ \E v \in Values : Set(s, "links", v)
<1> DEFINE v == [changes |-> links + 1]
<1>1. /\ s \in Callers /\ RecordOf(s) = "links" /\ ValuesOf(s) = LinkRecords
      /\ links \in Nat /\ links + 1 \in 0..MaxChanges
      /\ v \in LinkRecords /\ v \in Values
  <2>1. s \in Callers /\ s \notin Requests
    BY TwoRecords
  <2>2. links \in Nat /\ links + 1 \in 0..MaxChanges
    BY UsersAssumption DEF LinksChange, RequestsInv, HandlersTyped
  <2>3. v \in LinkRecords
    BY <2>2 DEF LinkRecords
  <2> QED
    BY <2>1, <2>2, <2>3, TwoRecords DEF RecordOf, ValuesOf
<1>2. /\ Set(s, "links", v) /\ up = "up" /\ links' = links + 1
      /\ UNCHANGED <<req, pendingUsers, up, registry, overlapped>>
  BY DEF LinksChange
<1>3. DbInv' /\ ~UnderWay(s) /\ CallMoves(s, "set", v)
  BY <1>1, <1>2, CallDoes, TwoRecords DEF Set
<1>4. Shapes'
  BY <1>1, <1>3, CallKeepsShapes DEF LinksInv
<1>5. /\ InOrder' /\ Change(s)' = links'
      /\ \A t \in Syncs : t # s /\ SetsLinks(t)' => Change(t)' < Change(s)'
  BY <1>1, <1>2, <1>3, ChangeKeepsOrder DEF LinksInv
<1>6. /\ overtaken' = overtaken /\ Contents' = Contents
      /\ \A r \in Requests : op'[r] = op[r]
  BY <1>3, TwoRecords DEF CallMoves, Contents
<1>7. ~overtaken' => LinksKept'
  BY <1>1, <1>2, <1>3, <1>5, <1>6, ChangeKeepsLinks DEF LinksInv
<1>8. Fits' /\ (UsersKept => UsersKept')
  BY <1>2, <1>6, ElsewhereKeepsFits DEF RequestsInv
<1>9. HandlersTyped'
  BY <1>1, <1>2 DEF RequestsInv, HandlersTyped
<1> QED
  BY <1>1, <1>2, <1>3, <1>4, <1>5, <1>6, <1>7, <1>8, <1>9 DEF LinksInv, RequestsInv

(* The links are asked for, when there are none in memory. *)
LEMMA LoadKeepsReplies ==
  ASSUME DbInv, LinksInv, RequestsInv, Load
  PROVE  DbInv' /\ LinksInv' /\ RequestsInv' /\ Loader \in Callers
<1>1. /\ Loader \in Syncs /\ Loader \in Callers /\ RecordOf(Loader) = "links"
  BY UsersAssumption, TwoRecords DEF Loader, RecordOf
<1>2. /\ Get(Loader, "links") /\ up = "down" /\ up' = "loading"
      /\ UNCHANGED <<req, pendingUsers, links, registry, overlapped>>
  BY DEF Load
<1>3. DbInv' /\ CallMoves(Loader, "get", Nothing)
  BY <1>1, <1>2, CallDoes, TwoRecords DEF Get
<1>4. Shapes'
  BY <1>1, <1>3, CallKeepsShapes DEF LinksInv
<1>5. ~SetsLinks(Loader) /\ ~SetsLinks(Loader)' /\ op'[Loader].kind = "get"
  BY <1>1, <1>2, <1>3 DEF LinksInv, InOrder, SetsLinks, CallMoves
<1>6. InOrder'
  BY <1>1, <1>2, <1>3, <1>5, OtherCallKeepsOrder DEF LinksInv
<1>7. /\ overtaken' = overtaken /\ Contents' = Contents
      /\ \A r \in Requests : op'[r] = op[r]
  BY <1>1, <1>3, TwoRecords DEF CallMoves, Contents
<1>8. ~overtaken' => LinksKept'
  BY <1>1, <1>2, <1>3, <1>5, <1>7, OtherCallKeepsLinks DEF LinksInv
<1>9. Fits' /\ (UsersKept => UsersKept')
  BY <1>2, <1>7, ElsewhereKeepsFits DEF RequestsInv
<1>10. HandlersTyped'
  BY <1>2 DEF RequestsInv, HandlersTyped
<1> QED
  BY <1>1, <1>2, <1>3, <1>4, <1>6, <1>7, <1>8, <1>9, <1>10 DEF LinksInv, RequestsInv

(* They were read. *)
LEMMA LoadedKeepsReplies ==
  ASSUME DbInv, LinksInv, RequestsInv, Loaded
  PROVE  DbInv' /\ LinksInv' /\ RequestsInv' /\ UNCHANGED dbVars
<1>1. /\ up = "loading" /\ up' = "up" /\ op[Loader].pc = "done"
      /\ links' = IF op[Loader].value = Nothing THEN 0
                  ELSE op[Loader].value.changes
      /\ UNCHANGED <<dbVars, req, pendingUsers, registry, overlapped>>
  BY DEF Loaded
<1>2. DbInv'
  BY <1>1, StepInv
<1>3. Shapes'
  BY <1>1 DEF LinksInv, Shapes, Shaped, RecordOf, ValuesOf, dbVars
<1>4. \A s \in Syncs : ~SetsLinks(s) /\ ~SetsLinks(s)'
  BY <1>1 DEF LinksInv, InOrder, SetsLinks, dbVars
<1>5. InOrder' /\ LinksKept'
  BY <1>1, <1>4 DEF InOrder, LinksKept
<1>6. links' \in 0..MaxChanges
  <2>1. op[Loader].value \in LinkRecords \cup {Nothing}
    BY UsersAssumption, TwoRecords DEF Loader, LinksInv, Shapes, ValuesOf
  <2> QED
    BY <1>1, <2>1, UsersAssumption DEF LinkRecords
<1>7. /\ overtaken' = overtaken /\ Contents' = Contents
      /\ \A r \in Requests : op'[r] = op[r]
  BY <1>1 DEF dbVars, Contents
<1>8. Fits' /\ (UsersKept => UsersKept')
  BY <1>1, <1>7, ElsewhereKeepsFits DEF RequestsInv
<1>9. HandlersTyped'
  BY <1>1, <1>6 DEF RequestsInv, HandlersTyped
<1> QED
  BY <1>1, <1>2, <1>3, <1>5, <1>7, <1>8, <1>9 DEF LinksInv, RequestsInv

(* Requests and operations are gone, the files are as they were. *)
LEMMA RestartKeepsReplies ==
  ASSUME DbInv, LinksInv, RequestsInv, SchedulerRestarts
  PROVE  DbInv' /\ LinksInv' /\ RequestsInv'
<1>1. /\ Restart /\ up' = "down" /\ links' = 0 /\ pendingUsers' = {}
      /\ registry' = StoredUsers /\ UNCHANGED overlapped
      /\ op' = [c \in Callers |-> NoOperation]
      /\ UNCHANGED <<path, tmp, overtaken>>
  BY DEF SchedulerRestarts, Restart
<1>2. DbInv'
  BY <1>1, RestartKeepsInv
<1>3. Shapes'
  BY <1>1, NobodysShapes DEF LinksInv, Shapes, Shaped
<1>4. \A c \in Callers : op'[c].kind = "none" /\ op'[c].pc = "done"
  BY <1>1 DEF NoOperation
<1>5. InOrder' /\ LinksKept'
  BY <1>1, <1>4, TwoRecords DEF InOrder, LinksKept, SetsLinks
<1>6. \A r \in Requests :
        /\ req'[r] \in RequestRecord
        /\ req'[r].pc \in {"idle", "over"}
  <2>1. ASSUME NEW r \in Requests, r \in InHand
        PROVE  req'[r] \in RequestRecord /\ req'[r].pc = "over"
    <3> DEFINE new == [NoRequest EXCEPT !.pc = "over"]
    <3>1. NoRequest \in RequestRecord
      BY DEF NoRequest, RequestRecord, NoUsers, Tables
    <3>2. new \in RequestRecord /\ new.pc = "over"
      BY <3>1 DEF RequestRecord
    <3>3. req'[r] = new
      BY <2>1 DEF SchedulerRestarts
    <3> QED
      BY <3>2, <3>3
  <2>2. ASSUME NEW r \in Requests, r \notin InHand
        PROVE  req'[r] \in RequestRecord /\ req'[r].pc \in {"idle", "over"}
    <3>1. req'[r] = req[r] /\ req[r] \in RequestRecord
      BY <2>2 DEF SchedulerRestarts, RequestsInv, HandlersTyped
    <3> QED
      BY <2>2, <3>1 DEF RequestRecord, InHand, Handling
  <2> QED
    BY <2>1, <2>2
<1>7. HandlersTyped'
  <2>1. req' \in [Requests -> RequestRecord]
    BY <1>6 DEF SchedulerRestarts
  <2>2. registry' \in Tables
    BY <1>1, UsersStored DEF LinksInv
  <2>3. links' \in 0..MaxChanges
    BY <1>1, UsersAssumption
  <2> QED
    BY <1>1, <2>1, <2>2, <2>3 DEF HandlersTyped, RequestsInv
<1>8. InHand' = {} /\ \A r \in Requests : ~UnderWay(r)' /\ ~Wrote(r)'
  BY <1>4, <1>6, TwoRecords DEF InHand, UnderWay, Stages, Wrote, Handling
<1>9. Fits'
  BY <1>6, <1>8 DEF Fits
<1>10. StoredUsers' = StoredUsers
  BY <1>1 DEF StoredUsers, Contents
<1>11. UsersKept'
  BY <1>1, <1>6, <1>8, <1>10 DEF UsersKept
<1> QED
  BY <1>2, <1>3, <1>5, <1>7, <1>9, <1>11 DEF LinksInv, RequestsInv

(* The database goes on with an operation. *)
LEMMA DatabaseKeepsReplies ==
  ASSUME DbInv, LinksInv, RequestsInv, NEW c \in Callers, DatabaseStep(c)
  PROVE  DbInv' /\ LinksInv' /\ RequestsInv'
<1>1. Progress(c) /\ UNCHANGED <<req, pendingUsers, links, up, registry, overlapped>>
  BY DEF DatabaseStep, handlerVars
<1>2. /\ DbInv' /\ QueueMoves(c) /\ OperationMoves(c)
      /\ ~overtaken' => Undisturbing(c)
      /\ overtaken => overtaken'
  BY <1>1, ProgressMoves DEF OperationMoves
<1>3. Shapes' /\ InOrder'
  BY <1>1, <1>2, ProgressKeepsShapes, ProgressKeepsOrder DEF LinksInv
<1>4. ~overtaken' => LinksKept'
  BY <1>1, <1>2, ProgressKeepsLinks DEF LinksInv
<1>5. Fits'
  BY <1>1, <1>2, ProgressKeepsFits DEF RequestsInv
<1>6. ~overtaken' /\ ~overlapped' => UsersKept'
  BY <1>1, <1>2, ProgressKeepsUsers DEF LinksInv, RequestsInv
<1>7. HandlersTyped'
  BY <1>1 DEF RequestsInv, HandlersTyped
<1> QED
  BY <1>2, <1>3, <1>4, <1>5, <1>6, <1>7 DEF LinksInv, RequestsInv

(* Nothing happens. *)
LEMMA StutterKeepsReplies ==
  ASSUME DbInv, LinksInv, RequestsInv, UNCHANGED vars
  PROVE  DbInv' /\ LinksInv' /\ RequestsInv'
<1>1. /\ UNCHANGED <<dbVars, links, up>>
      /\ UNCHANGED <<req, pendingUsers, registry, overlapped>>
  BY DEF vars, handlerVars
<1>2. DbInv' /\ LinksInv' /\ overtaken' = overtaken
  BY <1>1, StillKeepsLinks
<1>3. Contents' = Contents /\ op' = op
  BY <1>1 DEF dbVars, Contents
<1>4. Fits' /\ (UsersKept => UsersKept')
  BY <1>1, <1>3, ElsewhereKeepsFits DEF RequestsInv
<1>5. HandlersTyped'
  BY <1>1 DEF RequestsInv, HandlersTyped
<1> QED
  BY <1>1, <1>2, <1>4, <1>5 DEF RequestsInv

(* Every step keeps the invariant, and is one of the database's. *)
LEMMA StepKeepsReplies ==
  ASSUME DbInv, LinksInv, RequestsInv, [Next]_vars
  PROVE  DbInv' /\ LinksInv' /\ RequestsInv' /\ [DbNext]_dbVars
<1>0. /\ Requests \subseteq Callers /\ Syncs \subseteq Callers
      /\ "users" \in Keys /\ "links" \in Keys
  BY TwoRecords
<1>1. ASSUME NEW r \in Requests, RequestStep(r)
      PROVE  DbInv' /\ LinksInv' /\ RequestsInv' /\ [DbNext]_dbVars
  <2>1. CASE GotUsers(r)
    BY <1>0, <2>1, GotUsersKeepsReplies DEF DbNext
  <2>2. CASE HandlerFails(r)
    <3>1. /\ Refuse(r) /\ r \in InHand /\ ~Wrote(r) /\ ~UnderWay(r)
      BY <2>2 DEF HandlerFails, InHand, Handling, Wrote, RequestsInv, Fits,
                  UnderWay, Stages
    <3> QED
      BY <3>1, RefuseKeepsReplies
  <2>3. CASE Computed(r)
    BY <1>0, <2>3, ComputedKeepsReplies DEF DbNext
  <2>4. CASE Stored(r)
    BY <2>4, StoredKeepsReplies
  <2> QED
    BY <1>1, <2>1, <2>2, <2>3, <2>4 DEF RequestStep
<1>2. ASSUME NEW r \in Requests, NEW kind \in {"addUser", "removeUser", "login"},
             NEW u \in Names, Begin(r, kind, u)
      PROVE  DbInv' /\ LinksInv' /\ RequestsInv' /\ [DbNext]_dbVars
  BY <1>0, <1>2, BeginKeepsReplies DEF DbNext
<1>3. ASSUME NEW s \in Syncs, LinksChange(s)
      PROVE  DbInv' /\ LinksInv' /\ RequestsInv' /\ [DbNext]_dbVars
  BY <1>0, <1>3, LinksChangeKeepsReplies DEF DbNext
<1>4. CASE Load
  BY <1>0, <1>4, LoadKeepsReplies DEF DbNext, Load
<1>5. CASE Loaded
  BY <1>5, LoadedKeepsReplies
<1>6. CASE SchedulerRestarts
  BY <1>6, RestartKeepsReplies DEF DbNext, SchedulerRestarts
<1>7. ASSUME NEW c \in Callers, DatabaseStep(c)
      PROVE  DbInv' /\ LinksInv' /\ RequestsInv' /\ [DbNext]_dbVars
  BY <1>7, DatabaseKeepsReplies DEF DbNext, DatabaseStep
<1>8. CASE UNCHANGED vars
  BY <1>8, StutterKeepsReplies DEF vars
<1> QED
  BY <1>1, <1>2, <1>3, <1>4, <1>5, <1>6, <1>7, <1>8 DEF Next

(* It holds at first. *)
LEMMA InitReplies ==
  ASSUME Init
  PROVE  DbInv /\ LinksInv /\ RequestsInv
<1>1. DbInit /\ DbInv
  BY InitInv DEF Init
<1>2. \A c \in Callers : op[c] = NoOperation
  BY <1>1 DEF DbInit
<1>3. Shaped(NoRecords)
  BY TwoRecords DEF Shaped, NoRecords
<1>4. Shapes
  BY <1>1, <1>2, <1>3 DEF DbInit, Shapes, NoOperation
<1>5. InOrder /\ LinksKept
  BY <1>2, TwoRecords DEF Init, InOrder, LinksKept, SetsLinks, NoOperation
<1>6. NoRequest \in RequestRecord /\ NoUsers \in Tables
  BY DEF NoRequest, RequestRecord, NoUsers, Tables
<1>7. HandlersTyped
  <2>1. req \in [Requests -> RequestRecord] /\ registry \in Tables
    BY <1>6 DEF Init
  <2>2. links \in 0..MaxChanges
    BY UsersAssumption DEF Init
  <2>3. overlapped \in BOOLEAN
    BY DEF Init
  <2> QED
    BY <2>1, <2>2, <2>3 DEF Init, HandlersTyped
<1>8. /\ \A r \in Requests : req[r].pc = "idle" /\ ~UnderWay(r) /\ ~Wrote(r)
      /\ InHand = {}
  BY <1>2, TwoRecords
     DEF Init, NoRequest, UnderWay, Stages, Wrote, NoOperation, InHand, Handling
<1>9. Fits
  BY <1>8 DEF Fits
<1>10. StoredUsers = registry
  BY <1>1, TwoRecords DEF Init, DbInit, StoredUsers, Contents, NoRecords
<1>11. UsersKept
  BY <1>8, <1>10 DEF UsersKept
<1> QED
  BY <1>1, <1>4, <1>5, <1>7, <1>9, <1>11 DEF LinksInv, RequestsInv

(* What monitors were told, and the links in memory, are in the file. *)
LEMMA InvKeepsReplies ==
  ASSUME DbInv, LinksInv, RequestsInv
  PROVE  RepliesAreKept
<1>1. TypeOK
  BY DEF DbInv, OpsTyped, FilesTyped, DbTypeOK, TypeOK, RequestsInv, HandlersTyped
<1>2. ASSUME ~overtaken, ~overlapped, InHand = {}
      PROVE  StoredUsers = registry
  <2>1. \A r \in Requests : ~Wrote(r)
    BY <1>2 DEF InHand, Wrote, Handling
  <2> QED
    BY <1>2, <2>1 DEF RequestsInv, UsersKept
<1>3. ASSUME ~overtaken, LinksAreWritten
      PROVE  Contents["links"] = [changes |-> links]
  <2>1. PICK s \in Syncs : /\ op[s].kind = "set" /\ op[s].pc = "done"
                           /\ op[s].value.changes = links
    BY <1>3 DEF LinksAreWritten
  <2>2. Contents["links"] = op[s].value
    BY <1>3, <2>1 DEF LinksInv, LinksKept, SetsLinks, Change
  <2>3. op[s].value \in LinkRecords
    BY <2>1, TwoRecords DEF LinksInv, Shapes, ValuesOf
  <2> QED
    BY <2>1, <2>2, <2>3 DEF LinkRecords
<1> QED
  BY <1>1, <1>2, <1>3 DEF RepliesAreKept

(***************************************************************************)
(* What was answered is what the file holds: until a set() overtakes a     *)
(* rename, the file has the users that the monitors were told of, if no    *)
(* two requests were ever handled at a time, and the newest links, errors  *)
(* and restarts of the scheduler included.                                 *)
(***************************************************************************)
THEOREM RepliesStay == Spec => []RepliesAreKept
<1>1. Init => DbInv /\ LinksInv /\ RequestsInv
  BY InitReplies
<1>2. DbInv /\ LinksInv /\ RequestsInv /\ [Next]_vars
        => DbInv' /\ LinksInv' /\ RequestsInv'
  BY StepKeepsReplies
<1>3. DbInv /\ LinksInv /\ RequestsInv => RepliesAreKept
  BY InvKeepsReplies
<1> QED
  BY <1>1, <1>2, <1>3, PTL DEF Spec

(***************************************************************************)
(* The handlers use the database as any callers do: what was proved of it  *)
(* for all calls holds of theirs, and get() and set() are atomic to them.  *)
(***************************************************************************)
THEOREM HandlersAreCallers ==
  Spec => DbSpec /\ StoreSpec /\ []OneAtATime /\ []FileIsWhole
<1>1. Init => DbInit
  BY DEF Init
<1>2. Init => DbInv /\ LinksInv /\ RequestsInv
  BY InitReplies
<1>3. DbInv /\ LinksInv /\ RequestsInv /\ [Next]_vars
        => DbInv' /\ LinksInv' /\ RequestsInv' /\ [DbNext]_dbVars
  BY StepKeepsReplies
<1>4. Spec => DbSpec
  BY <1>1, <1>2, <1>3, PTL DEF Spec, DbSpec
<1> QED
  BY <1>4, ImplementsStore, TakesTurns, FileStaysWhole, PTL
=============================================================================
