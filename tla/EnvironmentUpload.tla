-------------------------- MODULE EnvironmentUpload --------------------------
(***************************************************************************)
(* How an environment gets from a client into the scheduler's store:       *)
(* requestEnvironment and purgeEnvironmentsToMaxSize of                    *)
(* scheduler/fisk-scheduler.js, and File, prepare, complete and remove of  *)
(* scheduler/environments.js.                                              *)
(*                                                                         *)
(* Handlers run to their end; between them the data of an upload is being  *)
(* written, its archive is being looked into, and sockets close and fail.  *)
(* Links and the messages to the builders are modelled elsewhere or not.   *)
(***************************************************************************)
EXTENDS Integers, FiniteSets, Sequences, SequencesExt, FiniteSetsExt, KeyOrder,
        Environments

CONSTANTS
  Clients,
  EnvOf,        \* EnvOf[c]: compile.environment of client c
  Size,         \* Size[e]: bytes of the archive of e
  MaxSize,      \* max-environment-size
  MaxRestarts   \* bound: restarts of the scheduler

ASSUME EnvironmentUploadAssumption ==
  /\ IsFiniteSet(Envs)
  /\ EnvOf \in [Clients -> Envs] /\ Size \in [Envs -> Nat \ {0}]
  /\ MaxSize \in Nat /\ MaxRestarts \in Nat

VARIABLES
  file,      \* the archives in Environments._path
  born,      \* the environments with an archive there, oldest first
  pending,   \* pendingEnvironments
  upload,    \* what requestEnvironment keeps for each client
  sock,      \* the client's websocket
  overlap,   \* history: the environments of which two uploads met
  robbed,    \* history: the end of one took another one from pending
  restarts

vars == <<data, file, born, pending, upload, sock, overlap, robbed, restarts>>

(* asked: needsEnvironment was sent; writing: file is open, data arrives;  *)
(* last: gotLast, the last data is being written; checking: complete() is  *)
(* looking into the archive; over: nothing of it is left.                  *)
Stages == {"none", "asked", "writing", "last", "checking", "over"}
HasFile == {"writing", "last"}
Underway == HasFile \cup {"asked", "checking"}

TypeOK ==
  /\ data \subseteq Envs /\ pending \subseteq Envs
  /\ file \in [Envs -> {"none", "partial", "whole"}]
  /\ born \in SeqOf(Envs, Cardinality(Envs))
  /\ ToSet(born) = {e \in Envs : file[e] # "none"}
  /\ upload \in [Clients -> Stages]
  /\ sock \in [Clients -> {"open", "closing", "closed"}]
  /\ overlap \subseteq Envs /\ robbed \in BOOLEAN /\ restarts \in 0..MaxRestarts

Total(S) == MapThenSumSet(LAMBDA e : Size[e], S)

Init ==
  /\ \E kept \in SUBSET Envs :
       /\ Total(kept) <= MaxSize
       /\ data = kept
       /\ file = [e \in Envs |-> IF e \in kept THEN "whole" ELSE "none"]
       /\ born \in SetToSeqs(kept)
  /\ pending = {} /\ upload = [c \in Clients |-> "none"]
  /\ sock = [c \in Clients |-> "open"]
  /\ overlap = {} /\ robbed = FALSE /\ restarts = 0

-----------------------------------------------------------------------------
(* Files.                                                                  *)

(* file.discard() *)
Discard(c) ==
  /\ file' = [file EXCEPT ![EnvOf[c]] = "none"]
  /\ born' = Without(born, {EnvOf[c]})
  /\ upload' = [upload EXCEPT ![c] = "over"]

(* What the directory entries f may count for: an archive that is being    *)
(* written, by whomever, has any size.                                     *)
StatSizes(f) ==
  {s \in [Envs -> {0} \cup {Size[e] : e \in Envs}] :
     \A e \in Envs : /\ f[e] = "none" => s[e] = 0
                     /\ f[e] = "whole" /\ e \notin overlap => s[e] = Size[e]}

(* Mutant of Purge: the oldest are kept. *)
PurgeNewest(known, size) ==
  LET Step(acc, e) ==
        IF size[e] <= acc.room THEN [acc EXCEPT !.room = @ - size[e]]
        ELSE [acc EXCEPT !.gone = @ \cup ({e} \cap known)]
  IN FoldLeft(Step, [room |-> MaxSize, gone |-> {}], born).gone

(* purgeEnvironmentsToMaxSize, once the environments in known are stored:  *)
(* from the newest to the oldest, as long as there is room; remove()       *)
(* throws for a file that is no environment, and that ends the purge.      *)
Purge(known, size) ==
  LET Step(acc, e) ==
        CASE acc.ended -> acc
          [] ~acc.ended /\ size[e] <= acc.room ->
               [acc EXCEPT !.room = @ - size[e]]
          [] ~acc.ended /\ size[e] > acc.room ->
               IF e \in known THEN [acc EXCEPT !.gone = @ \cup {e}]
               ELSE [acc EXCEPT !.ended = TRUE]
  IN FoldRight(LAMBDA e, acc : Step(acc, e), born,
               [room |-> MaxSize, gone |-> {}, ended |-> FALSE]).gone

-----------------------------------------------------------------------------
(* Handlers of a compile connection whose environment is asked for.        *)

(* Mutant of Request: pendingEnvironments is not looked at. *)
RequestAgain(c) ==
  /\ upload[c] = "none" /\ sock[c] = "open" /\ EnvOf[c] \notin data
  /\ pending' = pending \cup {EnvOf[c]}
  /\ upload' = [upload EXCEPT ![c] = "asked"]
  /\ UNCHANGED <<data, file, born, sock, overlap, robbed, restarts>>

(* server "compile": hasEnvironment and requestEnvironment. *)
Request(c) ==
  /\ upload[c] = "none" /\ sock[c] = "open"
  /\ EnvOf[c] \notin data \cup pending
  /\ pending' = pending \cup {EnvOf[c]}
  /\ upload' = [upload EXCEPT ![c] = "asked"]
  /\ UNCHANGED <<data, file, born, sock, overlap, robbed, restarts>>

(* overlap, once c opens the archive. *)
Met(c) ==
  IF \E d \in Clients \ {c} :
       EnvOf[d] = EnvOf[c] /\ upload[d] \in HasFile \cup {"checking"}
  THEN overlap \cup {EnvOf[c]} ELSE overlap

(* Mutant of UploadBegins: prepare() does not look at _data. *)
UploadBeginsAnyway(c) ==
  LET e == EnvOf[c]
  IN /\ upload[c] = "asked" /\ sock[c] = "open"
     /\ file' = [file EXCEPT ![e] = "partial"]
     /\ born' = IF e \in ToSet(born) THEN born ELSE Append(born, e)
     /\ upload' = [upload EXCEPT ![c] = "writing"]
     /\ overlap' = Met(c)
     /\ UNCHANGED <<sock, data, pending, robbed, restarts>>

(* "uploadEnvironment": prepare(), which truncates what is there. *)
UploadBegins(c) ==
  LET e == EnvOf[c]
  IN /\ upload[c] = "asked" /\ sock[c] = "open"
     /\ \/ /\ e \in data
           /\ upload' = [upload EXCEPT ![c] = "over"]
           /\ sock' = [sock EXCEPT ![c] = "closing"]
           /\ UNCHANGED <<file, born, overlap>>
        \/ /\ e \notin data
           /\ file' = [file EXCEPT ![e] = "partial"]
           /\ born' = IF e \in ToSet(born) THEN born ELSE Append(born, e)
           /\ upload' = [upload EXCEPT ![c] = "writing"]
           /\ overlap' = Met(c)
           /\ UNCHANGED sock
     /\ UNCHANGED <<data, pending, robbed, restarts>>

(* "uploadEnvironmentData", the last of it. *)
LastData(c) ==
  /\ upload[c] = "writing" /\ sock[c] = "open"
  /\ upload' = [upload EXCEPT ![c] = "last"]
  /\ UNCHANGED <<data, file, born, pending, sock, overlap, robbed, restarts>>

(* file.save is rejected: what was written stays. *)
SaveFails(c) ==
  /\ upload[c] \in HasFile
  /\ upload' = [upload EXCEPT ![c] = "over"]
  /\ UNCHANGED <<data, file, born, pending, sock, overlap, robbed, restarts>>

(* The last data is written: file.close(), compile.close(), complete(). *)
Saved(c) ==
  /\ upload[c] = "last"
  /\ upload' = [upload EXCEPT ![c] = "checking"]
  /\ sock' = [sock EXCEPT ![c] = IF @ = "open" THEN "closing" ELSE @]
  /\ file' = [file EXCEPT ![EnvOf[c]] = IF @ = "none" THEN @ ELSE "whole"]
  /\ UNCHANGED <<data, born, pending, overlap, robbed, restarts>>

(* What is left of the store when the environments in known are loaded,    *)
(* the archives are f, and the store was purged.                           *)
Store(known, f) ==
  \E size \in StatSizes(f) :
    LET gone == Purge(known, size)
    IN /\ data' = known \ gone
       /\ file' = [e \in Envs |-> IF e \in gone THEN "none" ELSE f[e]]
       /\ born' = Without(born, gone)

(* delete pendingEnvironments[compile.environment], whoever entered it. *)
Forget(c) ==
  /\ pending' = pending \ {EnvOf[c]}
  /\ robbed' = (robbed \/ \E d \in Clients \ {c} :
                   EnvOf[d] = EnvOf[c] /\ upload[d] \in Underway)

(* complete() resolves: the whole archive could be read, and somebody may  *)
(* have taken it away since.  The environment is stored, others are        *)
(* purged, and the builders are told.                                      *)
Checked(c) ==
  LET e == EnvOf[c]
  IN /\ upload[c] = "checking" /\ (file[e] = "whole" \/ e \in overlap)
     /\ Store(data \cup {e}, file)
     /\ Forget(c)
     /\ upload' = [upload EXCEPT ![c] = "over"]
     /\ UNCHANGED <<sock, overlap, restarts>>

(* It cannot be read: complete() stays unfinished for ever. *)
CheckFails(c) ==
  /\ upload[c] = "checking"
  /\ upload' = [upload EXCEPT ![c] = "over"]
  /\ UNCHANGED <<data, file, born, pending, sock, overlap, robbed, restarts>>

(* Mutant of Closes: gotLast is not looked at, file is never reset. *)
ClosesDiscarding(c) ==
  /\ sock[c] # "closed" /\ upload[c] \notin {"none", "asked"}
  /\ sock' = [sock EXCEPT ![c] = "closed"]
  /\ Forget(c) /\ Discard(c)
  /\ UNCHANGED <<data, overlap, restarts>>

(* "close" *)
Closes(c) ==
  /\ sock[c] # "closed"
  /\ sock' = [sock EXCEPT ![c] = "closed"]
  /\ \/ upload[c] = "none" /\ UNCHANGED <<pending, robbed>>
     \/ upload[c] # "none" /\ Forget(c)
  /\ \/ upload[c] = "writing" /\ Discard(c)
     \/ /\ upload[c] = "asked"
        /\ upload' = [upload EXCEPT ![c] = "over"] /\ UNCHANGED <<file, born>>
     \/ /\ upload[c] \notin {"asked", "writing"}
        /\ UNCHANGED <<upload, file, born>>
  /\ UNCHANGED <<data, overlap, restarts>>

(* "error": once complete() is at work, discard() throws, and the handler  *)
(* goes no further.                                                        *)
Fails(c) ==
  /\ sock[c] = "open" /\ upload[c] \notin {"none", "checking"}
  /\ sock' = [sock EXCEPT ![c] = "closing"]
  /\ Forget(c)
  /\ \/ upload[c] \in HasFile /\ Discard(c)
     \/ /\ upload[c] \notin HasFile
        /\ upload' = [upload EXCEPT ![c] = "over"] /\ UNCHANGED <<file, born>>
  /\ UNCHANGED <<data, overlap, restarts>>

(* The scheduler starts again: Environments.load takes what can be read,   *)
(* and the store is purged.  Two uploads that wrote one archive may have   *)
(* left anything in it.                                                    *)
Restart ==
  /\ restarts < MaxRestarts
  /\ restarts' = restarts + 1 /\ overlap' = {} /\ robbed' = FALSE
  /\ \E torn \in SUBSET (overlap \cap ToSet(born)) :
       LET whole == {e \in Envs : file[e] = "whole"} \ torn
       IN Store(whole, [e \in Envs |-> IF e \in torn THEN "partial" ELSE file[e]])
  /\ pending' = {} /\ upload' = [c \in Clients |-> "over"]
  /\ sock' = [c \in Clients |-> "closed"]

(* A client that was told there is no builder yet tries again later. *)
Again(c) ==
  /\ sock[c] = "closed" /\ upload[c] = "over"
  /\ sock' = [sock EXCEPT ![c] = "open"]
  /\ upload' = [upload EXCEPT ![c] = "none"]
  /\ UNCHANGED <<data, file, born, pending, overlap, robbed, restarts>>

Next ==
  \/ \E c \in Clients :
       \/ Request(c) \/ UploadBegins(c) \/ LastData(c) \/ SaveFails(c)
       \/ Saved(c) \/ Checked(c) \/ CheckFails(c) \/ Closes(c) \/ Fails(c)
       \/ Again(c)
  \/ Restart

Spec == Init /\ [][Next]_vars

-----------------------------------------------------------------------------
(* overlap has the environments of which an upload was begun while another *)
(* one was being written or checked.  That takes a client whose socket     *)
(* closes before its archive has been looked into, so pendingEnvironments  *)
(* forgets the environment and _data does not have it yet, or it takes     *)
(* robbed: the end of one upload deleted the entry of another.             *)

(* What the scheduler offers to the builders is there and whole (GET       *)
(* /environment/ reads it, fisk-scheduler.js:548).                         *)
StoredIsWhole ==
  /\ TypeOK
  /\ \A e \in data \ overlap : file[e] = "whole"

(* Two connected clients do not upload the same environment, unless a      *)
(* connection that ended late took the entry of another one.               *)
OneUploader ==
  ~robbed => \A c, d \in Clients :
    /\ EnvOf[c] = EnvOf[d] /\ upload[c] \in Underway /\ upload[d] \in Underway
    /\ sock[c] # "closed" /\ sock[d] # "closed"
    => c = d

(* The newest archive, once complete, is not taken away if it fits: not by *)
(* the purge that follows its upload, whatever failed uploads had left     *)
(* before it, nor by the end of another connection, nor by a restart.      *)
UploadSurvives ==
  [][\A e \in Envs :
       /\ born # <<>> /\ e = Last(born)
       /\ file[e] = "whole" /\ Size[e] <= MaxSize
       /\ e \notin overlap \cup overlap'
       => file'[e] # "none"]_vars

=============================================================================
