------------------------- MODULE EnvironmentsProofs -------------------------
(***************************************************************************)
(* Proofs about the environments, for any clients, environments and sizes: *)
(* how one gets from a client into the scheduler's store, and from there   *)
(* to a builder.                                                           *)
(*                                                                         *)
(* EnvironmentUpload.  An environment is uploaded by one connected client  *)
(* at a time, until the end of one connection takes the entry of another.  *)
(* OneUploader is not inductive: what keeps a second client from being     *)
(* asked is the entry in pendingEnvironments, so the invariant says that   *)
(* everybody connected who uploads has one.  What the scheduler offers is  *)
(* whole: for that the invariant says of everybody who writes an archive   *)
(* that it is not stored, unless two who write it met.  The newest archive *)
(* is spared by the purge, which is a fold over the files by age.          *)
(*                                                                         *)
(* EnvSync, the way to one builder, with the scheduler's set for has: what *)
(* the builder runs jobs in is whole, and once all is quiet both know the  *)
(* same environments.                                                      *)
(***************************************************************************)
EXTENDS EnvironmentUpload, EnvSync, KeySequences

-----------------------------------------------------------------------------
(* EnvironmentUpload: who uploads.                                         *)

Typed ==
  /\ upload \in [Clients -> Stages]
  /\ sock \in [Clients -> {"open", "closing", "closed"}]

(* c uploads, and is still connected. *)
Uploads(c) == upload[c] \in Underway /\ sock[c] # "closed"

(* Nobody's entry was taken, so whoever uploads has one, his own. *)
EntriesKept ==
  /\ \A c \in Clients : Uploads(c) => EnvOf[c] \in pending
  /\ \A c, d \in Clients :
       EnvOf[c] = EnvOf[d] /\ Uploads(c) /\ Uploads(d) => c = d

UploadInv == Typed /\ (~robbed => EntriesKept)

(* A step in which nobody but c goes on, c does not start to upload, and   *)
(* no entry but its own is deleted.                                        *)
OnlyEnds(c) ==
  /\ Typed'
  /\ \A d \in Clients : Uploads(d)' => Uploads(d)
  /\ \/ UNCHANGED <<pending, robbed>>
     \/ Forget(c) /\ ~Uploads(c)'

(* Such a step keeps the invariant: if c forgets an entry that is not its  *)
(* own, robbed becomes true.                                               *)
LEMMA EndKeepsInv ==
  ASSUME UploadInv, NEW c \in Clients, OnlyEnds(c)
  PROVE  UploadInv'
<1> SUFFICES ASSUME ~robbed' PROVE EntriesKept'
  BY DEF UploadInv, OnlyEnds
<1>1. CASE UNCHANGED <<pending, robbed>>
  BY <1>1 DEF UploadInv, OnlyEnds, EntriesKept
<1>2. CASE Forget(c) /\ ~Uploads(c)'
  <2>1. EntriesKept
    BY <1>2 DEF Forget, UploadInv
  <2>2. ASSUME NEW d \in Clients, Uploads(d)' PROVE EnvOf[d] \in pending'
    <3>1. d # c /\ Uploads(d)
      BY <1>2, <2>2 DEF OnlyEnds
    <3>2. EnvOf[d] # EnvOf[c]
      BY <1>2, <3>1 DEF Forget, Uploads
    <3> QED
      BY <1>2, <2>1, <3>1, <3>2 DEF Forget, EntriesKept
  <2> QED
    BY <2>1, <2>2 DEF OnlyEnds, EntriesKept
<1> QED
  BY <1>1, <1>2 DEF OnlyEnds

(* Whoever is asked to upload finds no entry, and makes one. *)
LEMMA RequestKeepsInv ==
  ASSUME UploadInv, NEW c \in Clients, Request(c)
  PROVE  UploadInv'
<1>1. Typed' /\ \A d \in Clients \ {c} : Uploads(d)' <=> Uploads(d)
  BY DEF Request, UploadInv, Typed, Stages, Uploads
<1> SUFFICES ASSUME ~robbed' PROVE EntriesKept'
  BY <1>1 DEF UploadInv
<1>2. EntriesKept /\ EnvOf[c] \notin pending
  BY DEF Request, UploadInv
<1>3. \A d \in Clients \ {c} : Uploads(d)' => EnvOf[d] # EnvOf[c]
  BY <1>1, <1>2 DEF EntriesKept
<1>4. pending' = pending \cup {EnvOf[c]}
  BY DEF Request
<1> QED
  BY <1>1, <1>2, <1>3, <1>4 DEF EntriesKept

(* The handlers that leave pendingEnvironments alone. *)
LEMMA QuietStepOnlyEnds ==
  ASSUME Typed, NEW c \in Clients,
         \/ UploadBegins(c) \/ LastData(c) \/ SaveFails(c) \/ Saved(c)
         \/ CheckFails(c) \/ Again(c)
  PROVE  OnlyEnds(c)
<1> USE DEF OnlyEnds, Typed, Uploads, Stages, Underway, HasFile
<1>1. CASE UploadBegins(c)
  BY <1>1 DEF UploadBegins
<1>2. CASE LastData(c) \/ SaveFails(c)
  BY <1>2 DEF LastData, SaveFails
<1>3. CASE Saved(c)
  BY <1>3 DEF Saved
<1>4. CASE CheckFails(c) \/ Again(c)
  BY <1>4 DEF CheckFails, Again
<1> QED
  BY <1>1, <1>2, <1>3, <1>4

(* The handlers that delete an entry. *)
LEMMA EndOnlyEnds ==
  ASSUME Typed, NEW c \in Clients, Checked(c) \/ Closes(c) \/ Fails(c)
  PROVE  OnlyEnds(c)
<1> USE DEF OnlyEnds, Typed, Uploads, Stages, Underway, HasFile
<1>1. CASE Checked(c)
  BY <1>1 DEF Checked
<1>2. CASE Closes(c)
  BY <1>2 DEF Closes, Discard
<1>3. CASE Fails(c)
  BY <1>3 DEF Fails, Discard
<1> QED
  BY <1>1, <1>2, <1>3

(* After a restart nobody uploads. *)
LEMMA RestartKeepsInv == Restart => UploadInv'
BY DEF Restart, UploadInv, Typed, EntriesKept, Uploads, Stages, Underway,
       HasFile

(***************************************************************************)
(* The invariant of requestEnvironment and pendingEnvironments.            *)
(***************************************************************************)
THEOREM UploadInvariant == Spec => []UploadInv
<1>1. Init => UploadInv
  BY DEF Init, UploadInv, Typed, EntriesKept, Uploads, Stages, Underway,
         HasFile
<1>2. UploadInv /\ [Next]_vars => UploadInv'
  <2> SUFFICES ASSUME UploadInv, [Next]_vars PROVE UploadInv'
    OBVIOUS
  <2>1. ASSUME NEW c \in Clients, Request(c) PROVE UploadInv'
    BY <2>1, RequestKeepsInv
  <2>2. ASSUME NEW c \in Clients,
               \/ UploadBegins(c) \/ LastData(c) \/ SaveFails(c) \/ Saved(c)
               \/ CheckFails(c) \/ Again(c)
               \/ Checked(c) \/ Closes(c) \/ Fails(c)
        PROVE  UploadInv'
    BY <2>2, QuietStepOnlyEnds, EndOnlyEnds, EndKeepsInv DEF UploadInv
  <2>3. CASE Restart
    BY <2>3, RestartKeepsInv
  <2>4. CASE UNCHANGED vars
    BY <2>4 DEF vars, UploadInv, Typed, EntriesKept, Uploads
  <2> QED
    BY <2>1, <2>2, <2>3, <2>4 DEF Next
<1> QED
  BY <1>1, <1>2, PTL DEF Spec

(***************************************************************************)
(* Two connected clients do not upload the same environment, unless the    *)
(* end of one connection took another one's entry before.                  *)
(***************************************************************************)
THEOREM UploadsAreAskedOnce == Spec => []OneUploader
<1>1. UploadInv => OneUploader
  BY DEF UploadInv, EntriesKept, Uploads, OneUploader
<1> QED
  BY <1>1, UploadInvariant, PTL

-----------------------------------------------------------------------------
(* EnvironmentUpload: the store.                                           *)

FileStates == {"none", "partial", "whole"}
Writes(c) == upload[c] \in HasFile

(* The archives, and the order in which they were made. *)
Filed(f, b) ==
  /\ f \in [Envs -> FileStates] /\ b \in Seq(Envs) /\ Distinct(b)
  /\ ToSet(b) = {e \in Envs : f[e] # "none"}

StoreTyped ==
  /\ Typed /\ Filed(file, born)
  /\ data \subseteq Envs /\ pending \subseteq Envs
  /\ overlap \subseteq Envs /\ robbed \in BOOLEAN /\ restarts \in 0..MaxRestarts

(* Two who write or check one archive have met, and what somebody writes   *)
(* has not been stored and is not whole.                                   *)
Meeting ==
  \A c, d \in Clients :
    /\ EnvOf[c] = EnvOf[d] /\ c # d
    /\ upload[c] \in HasFile \cup {"checking"}
    /\ upload[d] \in HasFile \cup {"checking"}
    => EnvOf[c] \in overlap
Unfinished ==
  \A c \in Clients :
    Writes(c) /\ EnvOf[c] \notin overlap
      => EnvOf[c] \notin data /\ file[EnvOf[c]] # "whole"

StoreInv ==
  /\ StoreTyped
  /\ \A e \in data \ overlap : file[e] = "whole"
  /\ Meeting /\ Unfinished

(* What is left of the archives when some are removed. *)
LEMMA FiledWithout ==
  ASSUME NEW f, NEW b, Filed(f, b), NEW gone
  PROVE  Filed([e \in Envs |-> IF e \in gone THEN "none" ELSE f[e]],
               Without(b, gone))
<1> DEFINE g == [e \in Envs |-> IF e \in gone THEN "none" ELSE f[e]]
<1>1. /\ Without(b, gone) \in Seq(Envs) /\ Distinct(Without(b, gone))
      /\ ToSet(Without(b, gone)) = ToSet(b) \ gone
  BY WithoutIs DEF Filed
<1>2. /\ g \in [Envs -> FileStates]
      /\ {e \in Envs : g[e] # "none"} = {e \in Envs : f[e] # "none"} \ gone
  BY DEF Filed, FileStates
<1> QED
  BY <1>1, <1>2 DEF Filed

(* An archive is begun, or begun again. *)
LEMMA FiledWith ==
  ASSUME Filed(file, born), NEW e \in Envs
  PROVE  Filed([file EXCEPT ![e] = "partial"],
               IF e \in ToSet(born) THEN born ELSE Append(born, e))
<1> DEFINE g == [file EXCEPT ![e] = "partial"]
<1>1. /\ g \in [Envs -> FileStates]
      /\ {x \in Envs : g[x] # "none"} = {x \in Envs : file[x] # "none"} \cup {e}
  BY DEF Filed, FileStates
<1> HIDE DEF g
<1> DEFINE b == IF e \in ToSet(born) THEN born ELSE Append(born, e)
<1>2. b \in Seq(Envs) /\ Distinct(b) /\ ToSet(b) = ToSet(born) \cup {e}
  <2>1. CASE e \in ToSet(born)
    <3>1. b = born /\ ToSet(born) = ToSet(born) \cup {e}
      BY <2>1
    <3> HIDE DEF b
    <3> QED
      BY <3>1 DEF Filed
  <2>2. CASE e \notin ToSet(born)
    <3>1. \A i \in 1..Len(born) : born[i] # e
      BY <2>2, LenProperties DEF Filed, ToSet
    <3>2. /\ Append(born, e) \in Seq(Envs) /\ Distinct(Append(born, e))
          /\ ToSet(Append(born, e)) = ToSet(born) \cup {e}
      BY <3>1, AppendProperties, AppendDistinct, AppendMembers DEF Filed
    <3> QED
      BY <2>2, <3>2
  <2> QED
    BY <2>1, <2>2
<1> HIDE DEF b
<1>3. Filed(g, b)
  BY <1>1, <1>2 DEF Filed
<1> QED
  BY <1>3 DEF g, b

(* What begins a purge, and what it leaves. *)
LEMMA StoreIs ==
  ASSUME NEW known, NEW f, Filed(f, born), Store(known, f)
  PROVE  /\ Filed(file', born')
         /\ data' \subseteq known
         /\ \A e \in Envs : file'[e] \in {"none", f[e]}
         /\ \A e \in data' : e \in Envs => file'[e] = f[e]
<1>1. PICK gone :
        /\ data' = known \ gone
        /\ file' = [e \in Envs |-> IF e \in gone THEN "none" ELSE f[e]]
        /\ born' = Without(born, gone)
  BY DEF Store
<1>2. Filed(file', born')
  BY <1>1, FiledWithout
<1> QED
  BY <1>1, <1>2

(* An upload ends whose archive is discarded. *)
LEMMA DiscardIs ==
  ASSUME StoreTyped, NEW c \in Clients, Discard(c), EnvOf[c] \in Envs
  PROVE  /\ Filed(file', born')
         /\ file' = [file EXCEPT ![EnvOf[c]] = "none"]
         /\ upload' = [upload EXCEPT ![c] = "over"]
<1>1. /\ file' = [file EXCEPT ![EnvOf[c]] = "none"]
      /\ born' = Without(born, {EnvOf[c]})
      /\ upload' = [upload EXCEPT ![c] = "over"]
  BY DEF Discard
<1>2. file' = [e \in Envs |-> IF e \in {EnvOf[c]} THEN "none" ELSE file[e]]
  BY <1>1 DEF StoreTyped, Filed
<1>3. PICK gone : gone = {EnvOf[c]}
  OBVIOUS
<1>4. /\ file' = [e \in Envs |-> IF e \in gone THEN "none" ELSE file[e]]
      /\ born' = Without(born, gone)
  BY <1>1, <1>2, <1>3
<1>5. Filed([e \in Envs |-> IF e \in gone THEN "none" ELSE file[e]],
            Without(born, gone))
  BY FiledWithout DEF StoreTyped
<1> QED
  BY <1>1, <1>4, <1>5

-----------------------------------------------------------------------------
(* The handlers of one client. *)

(* A step in which c goes no further than to check, nothing is stored, and *)
(* only its own archive changes, if c wrote it.                            *)
GoesOn(c) ==
  /\ StoreTyped'
  /\ UNCHANGED <<data, overlap>>
  /\ \A d \in Clients \ {c} : upload'[d] = upload[d]
  /\ upload'[c] \in HasFile => Writes(c) /\ UNCHANGED file
  /\ upload'[c] = "checking" => upload[c] \in HasFile \cup {"checking"}
  /\ \A e \in Envs : e # EnvOf[c] \/ ~Writes(c) => file'[e] = file[e]

LEMMA GoingOnKeepsStore ==
  ASSUME StoreInv, NEW c \in Clients, GoesOn(c)
  PROVE  StoreInv'
<1>1. EnvOf \in [Clients -> Envs] /\ data \subseteq Envs
  BY EnvironmentUploadAssumption DEF StoreInv, StoreTyped
<1>2. \A d \in Clients :
        upload'[d] \in HasFile \cup {"checking"}
          => upload[d] \in HasFile \cup {"checking"}
  BY DEF GoesOn, Writes
<1>3. Meeting'
  BY <1>2 DEF StoreInv, Meeting, GoesOn
<1>4. ASSUME NEW e \in data \ overlap PROVE file'[e] = "whole"
  <2>1. e # EnvOf[c] \/ ~Writes(c)
    BY <1>4 DEF StoreInv, Unfinished
  <2> QED
    BY <1>1, <1>4, <2>1 DEF StoreInv, GoesOn
<1>5. ASSUME NEW d \in Clients, Writes(d)', EnvOf[d] \notin overlap
      PROVE  EnvOf[d] \notin data /\ file'[EnvOf[d]] # "whole"
  <2>1. Writes(d) /\ (d = c => UNCHANGED file)
    BY <1>5 DEF GoesOn, Writes
  <2>2. EnvOf[d] \notin data /\ file[EnvOf[d]] # "whole"
    BY <1>5, <2>1 DEF StoreInv, Unfinished
  <2>3. d = c \/ EnvOf[d] # EnvOf[c] \/ ~Writes(c)
    BY <1>5, <2>1 DEF StoreInv, Meeting, Writes
  <2> QED
    BY <1>1, <2>1, <2>2, <2>3 DEF GoesOn
<1> QED
  BY <1>3, <1>4, <1>5 DEF StoreInv, GoesOn, Unfinished

LEMMA StepGoesOn ==
  ASSUME StoreInv, NEW c \in Clients,
         \/ Request(c) \/ LastData(c) \/ SaveFails(c) \/ Saved(c)
         \/ CheckFails(c) \/ Closes(c) \/ Fails(c) \/ Again(c)
  PROVE  GoesOn(c)
<1>1. /\ StoreTyped /\ EnvOf[c] \in Envs
      /\ upload \in [Clients -> Stages] /\ file \in [Envs -> FileStates]
      /\ sock \in [Clients -> {"open", "closing", "closed"}]
      /\ robbed \in BOOLEAN
  BY EnvironmentUploadAssumption DEF StoreInv, StoreTyped, Typed, Filed
<1>2. CASE Request(c) \/ LastData(c) \/ SaveFails(c) \/ CheckFails(c) \/ Again(c)
  <2>1. Typed' /\ pending' \subseteq Envs
    BY <1>1, <1>2 DEF Typed, StoreTyped, Stages, Request, LastData, SaveFails,
                      CheckFails, Again
  <2>2. UNCHANGED <<data, file, born, overlap, robbed, restarts>>
    BY <1>2 DEF Request, LastData, SaveFails, CheckFails, Again
  <2>3. /\ \A d \in Clients \ {c} : upload'[d] = upload[d]
        /\ upload'[c] \in HasFile => Writes(c)
        /\ upload'[c] # "checking"
    BY <1>1, <1>2 DEF Request, LastData, SaveFails, CheckFails, Again,
                      Writes, HasFile
  <2> QED
    BY <1>1, <2>1, <2>2, <2>3 DEF GoesOn, StoreTyped
<1>3. CASE Saved(c)
  <2>1. /\ upload' = [upload EXCEPT ![c] = "checking"] /\ upload[c] = "last"
        /\ sock' = [sock EXCEPT ![c] = IF @ = "open" THEN "closing" ELSE @]
        /\ file' = [file EXCEPT ![EnvOf[c]] = IF @ = "none" THEN @ ELSE "whole"]
        /\ UNCHANGED <<data, born, pending, overlap, robbed, restarts>>
    BY <1>3 DEF Saved
  <2>2. Typed'
    BY <1>1, <2>1 DEF Typed, Stages
  <2>3. /\ file' \in [Envs -> FileStates]
        /\ {e \in Envs : file'[e] # "none"} = {e \in Envs : file[e] # "none"}
        /\ \A e \in Envs : e # EnvOf[c] => file'[e] = file[e]
    BY <1>1, <2>1 DEF FileStates
  <2>4. StoreTyped'
    BY <1>1, <2>1, <2>2, <2>3 DEF StoreTyped, Filed
  <2>5. /\ upload'[c] = "checking" /\ Writes(c)
        /\ \A d \in Clients \ {c} : upload'[d] = upload[d]
    BY <1>1, <2>1 DEF Writes, HasFile
  <2> QED
    BY <2>1, <2>3, <2>4, <2>5 DEF GoesOn, HasFile
<1>4. ASSUME Forget(c) \/ UNCHANGED <<pending, robbed>>
      PROVE  pending' \subseteq Envs /\ robbed' \in BOOLEAN
  BY <1>1, <1>4 DEF Forget, StoreTyped
<1>5. CASE Closes(c) \/ Fails(c)
  <2>1. /\ UNCHANGED <<data, overlap, restarts>>
        /\ \/ sock' = [sock EXCEPT ![c] = "closed"]
           \/ sock' = [sock EXCEPT ![c] = "closing"]
        /\ Forget(c) \/ UNCHANGED <<pending, robbed>>
        /\ \/ upload[c] \in HasFile /\ Discard(c)
           \/ /\ UNCHANGED <<file, born>>
              /\ upload' = [upload EXCEPT ![c] = "over"] \/ UNCHANGED upload
    BY <1>5 DEF Closes, Fails, HasFile
  <2>2. pending' \subseteq Envs /\ robbed' \in BOOLEAN
    BY <1>4, <2>1
  <2>3. /\ Filed(file', born')
        /\ upload' = [upload EXCEPT ![c] = "over"] \/ UNCHANGED upload
        /\ upload'[c] \in HasFile => UNCHANGED file
        /\ \A e \in Envs : e # EnvOf[c] \/ ~Writes(c) => file'[e] = file[e]
    <3>1. CASE upload[c] \in HasFile /\ Discard(c)
      <4>1. /\ Filed(file', born')
            /\ file' = [file EXCEPT ![EnvOf[c]] = "none"]
            /\ upload' = [upload EXCEPT ![c] = "over"]
        BY <1>1, <3>1, DiscardIs
      <4>2. "over" \notin HasFile
        BY DEF HasFile
      <4> QED
        BY <1>1, <3>1, <4>1, <4>2 DEF Writes
    <3>2. CASE UNCHANGED <<file, born>>
      BY <1>1, <2>1, <3>2 DEF StoreTyped, Discard
    <3> QED
      BY <2>1, <3>1, <3>2
  <2>4. Typed'
    BY <1>1, <2>1, <2>3 DEF Typed, Stages
  <2>5. StoreTyped'
    BY <1>1, <2>1, <2>2, <2>3, <2>4 DEF StoreTyped
  <2>6. "over" \notin HasFile /\ "over" # "checking"
    BY DEF HasFile
  <2>7. /\ \A d \in Clients \ {c} : upload'[d] = upload[d]
        /\ upload'[c] = upload[c] \/ upload'[c] = "over"
    BY <1>1, <2>3
  <2> QED
    BY <2>1, <2>3, <2>5, <2>6, <2>7 DEF GoesOn, Writes
<1> QED
  BY <1>2, <1>3, <1>5

(* An upload is begun: the archive is truncated, and whoever has it open   *)
(* or checks it is met.                                                    *)
LEMMA BeginningKeepsStore ==
  ASSUME StoreInv, NEW c \in Clients, UploadBegins(c)
  PROVE  StoreInv'
<1>1. /\ StoreTyped /\ EnvOf[c] \in Envs /\ EnvOf \in [Clients -> Envs]
      /\ upload \in [Clients -> Stages] /\ file \in [Envs -> FileStates]
      /\ sock \in [Clients -> {"open", "closing", "closed"}]
      /\ UNCHANGED <<data, pending, robbed, restarts>>
  BY EnvironmentUploadAssumption
     DEF StoreInv, StoreTyped, Typed, Filed, UploadBegins
<1>2. CASE /\ upload' = [upload EXCEPT ![c] = "over"]
           /\ sock' = [sock EXCEPT ![c] = "closing"]
           /\ UNCHANGED <<file, born, overlap>>
  <2>1. Typed'
    BY <1>1, <1>2 DEF Typed, Stages
  <2>2. StoreTyped'
    BY <1>1, <1>2, <2>1 DEF StoreTyped
  <2>3. upload'[c] \notin HasFile /\ upload'[c] # "checking"
    BY <1>1, <1>2 DEF HasFile
  <2>4. GoesOn(c)
    BY <1>1, <1>2, <2>2, <2>3 DEF GoesOn
  <2> QED
    BY <2>4, GoingOnKeepsStore
<1>3. ASSUME /\ EnvOf[c] \notin data
             /\ file' = [file EXCEPT ![EnvOf[c]] = "partial"]
             /\ born' = IF EnvOf[c] \in ToSet(born) THEN born
                        ELSE Append(born, EnvOf[c])
             /\ upload' = [upload EXCEPT ![c] = "writing"]
             /\ overlap' = Met(c)
             /\ UNCHANGED sock
      PROVE  StoreInv'
  <2>1. Typed'
    BY <1>1, <1>3 DEF Typed, Stages
  <2>2. Filed(file', born')
    BY <1>1, <1>3, FiledWith DEF StoreTyped
  <2>3. /\ overlap \subseteq overlap' /\ overlap' \subseteq Envs
        /\ \A d \in Clients \ {c} :
             EnvOf[d] = EnvOf[c] /\ upload[d] \in HasFile \cup {"checking"}
               => EnvOf[c] \in overlap'
    BY <1>1, <1>3 DEF Met, StoreTyped
  <2>4. StoreTyped'
    BY <1>1, <2>1, <2>2, <2>3 DEF StoreTyped
  <2>5. /\ \A d \in Clients \ {c} : upload'[d] = upload[d]
        /\ upload'[c] = "writing"
        /\ \A e \in Envs \ {EnvOf[c]} : file'[e] = file[e]
        /\ file'[EnvOf[c]] = "partial"
    BY <1>1, <1>3
  <2>6. Meeting'
    BY <2>3, <2>5 DEF StoreInv, Meeting
  <2>7. ASSUME NEW e \in data \ overlap' PROVE file'[e] = "whole"
    BY <1>1, <1>3, <2>3, <2>5, <2>7 DEF StoreInv, StoreTyped
  <2>8. ASSUME NEW d \in Clients, Writes(d)', EnvOf[d] \notin overlap'
        PROVE  EnvOf[d] \notin data /\ file'[EnvOf[d]] # "whole"
    <3>1. CASE EnvOf[d] = EnvOf[c]
      BY <1>3, <2>5, <3>1
    <3>2. CASE EnvOf[d] # EnvOf[c]
      <4>1. Writes(d) /\ EnvOf[d] \notin overlap /\ EnvOf[d] \in Envs
        BY <1>1, <2>3, <2>5, <2>8, <3>2 DEF Writes
      <4> QED
        BY <2>5, <3>2, <4>1 DEF StoreInv, Unfinished
    <3> QED
      BY <3>1, <3>2
  <2> QED
    BY <1>1, <2>4, <2>6, <2>7, <2>8 DEF StoreInv, Unfinished
<1> QED
  BY <1>2, <1>3 DEF UploadBegins

(* An archive that could be read is stored, and the store is purged. *)
LEMMA CheckingKeepsStore ==
  ASSUME StoreInv, NEW c \in Clients, Checked(c)
  PROVE  StoreInv'
<1>1. /\ StoreTyped /\ EnvOf[c] \in Envs /\ EnvOf \in [Clients -> Envs]
      /\ upload \in [Clients -> Stages] /\ file \in [Envs -> FileStates]
      /\ Filed(file, born) /\ data \subseteq Envs /\ robbed \in BOOLEAN
  BY EnvironmentUploadAssumption DEF StoreInv, StoreTyped, Typed, Filed
<1>2. /\ upload[c] = "checking"
      /\ file[EnvOf[c]] = "whole" \/ EnvOf[c] \in overlap
      /\ Store(data \cup {EnvOf[c]}, file)
      /\ Forget(c)
      /\ upload' = [upload EXCEPT ![c] = "over"]
      /\ UNCHANGED <<sock, overlap, restarts>>
  BY DEF Checked
<1>3. /\ Filed(file', born')
      /\ data' \subseteq data \cup {EnvOf[c]}
      /\ \A e \in Envs : file'[e] \in {"none", file[e]}
      /\ \A e \in data' : e \in Envs => file'[e] = file[e]
  <2>1. PICK known : known = data \cup {EnvOf[c]}
    OBVIOUS
  <2>2. Store(known, file)
    BY <1>2, <2>1
  <2> QED
    BY <1>1, <2>1, <2>2, StoreIs
<1>4. Typed'
  BY <1>1, <1>2 DEF StoreTyped, Typed, Stages
<1>5. StoreTyped'
  BY <1>1, <1>2, <1>3, <1>4 DEF StoreTyped, Forget
<1>6. /\ \A d \in Clients \ {c} : upload'[d] = upload[d]
      /\ upload'[c] = "over"
  BY <1>1, <1>2
<1>7. "over" \notin HasFile \cup {"checking"}
  BY DEF HasFile
<1>8. Meeting'
  BY <1>2, <1>6, <1>7 DEF StoreInv, Meeting
<1>9. ASSUME NEW e \in data' \ overlap PROVE file'[e] = "whole"
  BY <1>1, <1>2, <1>3, <1>9 DEF StoreInv
<1>10. ASSUME NEW d \in Clients, Writes(d)', EnvOf[d] \notin overlap
       PROVE  EnvOf[d] \notin data' /\ file'[EnvOf[d]] # "whole"
  <2>1. d # c /\ Writes(d)
    BY <1>6, <1>7, <1>10 DEF Writes
  <2>2. EnvOf[d] # EnvOf[c]
    BY <1>2, <1>10, <2>1 DEF StoreInv, Meeting, Writes
  <2>3. EnvOf[d] \notin data /\ file[EnvOf[d]] # "whole" /\ EnvOf[d] \in Envs
    BY <1>1, <1>10, <2>1 DEF StoreInv, Unfinished
  <2> QED
    BY <1>3, <2>2, <2>3
<1> QED
  BY <1>2, <1>5, <1>8, <1>9, <1>10 DEF StoreInv, Unfinished

(* The scheduler starts again. *)
LEMMA RestartKeepsStore ==
  ASSUME StoreInv, Restart
  PROVE  StoreInv'
<1>1. /\ Filed(file, born) /\ overlap \subseteq Envs
      /\ restarts \in 0..MaxRestarts /\ MaxRestarts \in Nat
  BY EnvironmentUploadAssumption DEF StoreInv, StoreTyped
<1>2. PICK torn \in SUBSET (overlap \cap ToSet(born)) :
        Store({e \in Envs : file[e] = "whole"} \ torn,
              [e \in Envs |-> IF e \in torn THEN "partial" ELSE file[e]])
  BY DEF Restart
<1>3. PICK f : f = [e \in Envs |-> IF e \in torn THEN "partial" ELSE file[e]]
  OBVIOUS
<1>4. Filed(f, born)
  <2>1. torn \subseteq {e \in Envs : file[e] # "none"}
    BY <1>1, <1>2 DEF Filed
  <2>2. /\ f \in [Envs -> FileStates]
        /\ {e \in Envs : f[e] # "none"} = {e \in Envs : file[e] # "none"}
    BY <1>1, <1>3, <2>1 DEF Filed, FileStates
  <2> QED
    BY <1>1, <2>2 DEF Filed
<1>5. PICK known : known = {e \in Envs : file[e] = "whole"} \ torn
  OBVIOUS
<1>6. /\ Filed(file', born')
      /\ data' \subseteq known
      /\ \A e \in data' : e \in Envs => file'[e] = f[e]
  BY <1>2, <1>3, <1>4, <1>5, StoreIs
<1>7. /\ restarts' = restarts + 1 /\ restarts < MaxRestarts
      /\ overlap' = {} /\ robbed' = FALSE /\ pending' = {}
      /\ upload' = [c \in Clients |-> "over"]
      /\ sock' = [c \in Clients |-> "closed"]
  BY DEF Restart
<1>8. Typed'
  BY <1>7 DEF Typed, Stages
<1>9. StoreTyped'
  <2>1. restarts' \in 0..MaxRestarts
    BY <1>1, <1>7
  <2>2. data' \subseteq Envs
    BY <1>5, <1>6
  <2>3. pending' \subseteq Envs /\ overlap' \subseteq Envs /\ robbed' \in BOOLEAN
    BY <1>7
  <2> QED
    BY <1>6, <1>8, <2>1, <2>2, <2>3 DEF StoreTyped
<1>10. \A e \in data' : file'[e] = "whole"
  BY <1>3, <1>5, <1>6
<1>11. \A c \in Clients : upload'[c] \notin HasFile \cup {"checking"}
  BY <1>7 DEF HasFile
<1> QED
  BY <1>9, <1>10, <1>11 DEF StoreInv, Meeting, Unfinished, Writes

(* The store at the beginning. *)
LEMMA StoreBegins ==
  ASSUME Init
  PROVE  StoreInv
<1>1. PICK kept \in SUBSET Envs :
        /\ data = kept
        /\ file = [e \in Envs |-> IF e \in kept THEN "whole" ELSE "none"]
        /\ born \in SetToSeqs(kept)
  BY DEF Init
<1>2. /\ pending = {} /\ upload = [c \in Clients |-> "none"]
      /\ sock = [c \in Clients |-> "open"]
      /\ overlap = {} /\ robbed = FALSE /\ restarts = 0
  BY DEF Init
<1>3. /\ born \in [1..Cardinality(kept) -> kept]
      /\ \A i, j \in 1..Cardinality(kept) : born[i] = born[j] => i = j
      /\ IsFiniteSet(kept) /\ Cardinality(kept) \in Nat
  <2>1. IsFiniteSet(kept) /\ Cardinality(kept) \in Nat
    BY EnvironmentUploadAssumption, FS_Subset, FS_CardinalityType
  <2> QED
    BY <1>1, <2>1 DEF SetToSeqs, IsInjective
<1>4. born \in Seq(kept) /\ Distinct(born) /\ Len(born) = Cardinality(kept)
  BY <1>3 DEF Distinct
<1>5. ToSet(born) = kept
  <2>1. ToSet(born) \subseteq kept
    BY <1>4, LenProperties DEF ToSet
  <2>2. IsFiniteSet(ToSet(born)) /\ Cardinality(ToSet(born)) = Cardinality(kept)
    BY <1>4, MembersCounted
  <2> QED
    BY <1>3, <2>1, <2>2, FS_Subset
<1>6. Filed(file, born)
  <2>1. born \in Seq(Envs)
    BY <1>4
  <2>2. /\ file \in [Envs -> FileStates]
        /\ {e \in Envs : file[e] # "none"} = kept
    BY <1>1 DEF FileStates
  <2> QED
    BY <1>4, <1>5, <2>1, <2>2 DEF Filed
<1>7. Typed
  BY <1>2 DEF Typed, Stages
<1>8. StoreTyped
  <2>1. restarts \in 0..MaxRestarts
    BY <1>2, EnvironmentUploadAssumption
  <2>2. data \subseteq Envs
    BY <1>1
  <2>3. pending \subseteq Envs /\ overlap \subseteq Envs /\ robbed \in BOOLEAN
    BY <1>2
  <2> QED
    BY <1>6, <1>7, <2>1, <2>2, <2>3 DEF StoreTyped
<1>9. \A c \in Clients : upload[c] \notin HasFile \cup {"checking"}
  BY <1>2 DEF HasFile
<1> QED
  BY <1>1, <1>8, <1>9 DEF StoreInv, Meeting, Unfinished, Writes

LEMMA StoreKept ==
  ASSUME StoreInv, [Next]_vars
  PROVE  StoreInv'
<1>1. CASE UNCHANGED vars
  BY <1>1 DEF vars, StoreInv, StoreTyped, Typed, Filed, Meeting, Unfinished,
              Writes
<1>2. ASSUME NEW c \in Clients,
             \/ Request(c) \/ LastData(c) \/ SaveFails(c) \/ Saved(c)
             \/ CheckFails(c) \/ Closes(c) \/ Fails(c) \/ Again(c)
      PROVE  StoreInv'
  BY <1>2, StepGoesOn, GoingOnKeepsStore
<1> QED
  BY <1>1, <1>2, BeginningKeepsStore, CheckingKeepsStore, RestartKeepsStore
     DEF Next

(* There are no more archives than environments. *)
LEMMA StoreInvTypes ==
  ASSUME StoreInv
  PROVE  TypeOK
<1>1. born \in Seq(Envs) /\ Distinct(born) /\ ToSet(born) \subseteq Envs
  BY DEF StoreInv, StoreTyped, Filed
<1>2. Cardinality(ToSet(born)) = Len(born)
  BY <1>1, MembersCounted
<1>3. Len(born) <= Cardinality(Envs)
  BY <1>1, <1>2, EnvironmentUploadAssumption, FS_Subset
<1>4. Len(born) \in Nat /\ Cardinality(Envs) \in Nat
  BY <1>1, LenProperties, EnvironmentUploadAssumption, FS_CardinalityType
<1>5. born \in [1..Len(born) -> Envs] /\ Len(born) \in 0..Cardinality(Envs)
  BY <1>1, <1>3, <1>4, LenProperties
<1>6. born \in SeqOf(Envs, Cardinality(Envs))
  BY <1>5 DEF SeqOf
<1> QED
  BY <1>6 DEF StoreInv, StoreTyped, Typed, Filed, FileStates, TypeOK

(***************************************************************************)
(* What the scheduler offers to the builders is in its store, whole, as    *)
(* long as no two uploads met in the archive.                              *)
(***************************************************************************)
THEOREM StoreIsWhole == Spec => []StoredIsWhole
<1>1. Init => StoreInv
  BY StoreBegins
<1>2. StoreInv /\ [Next]_vars => StoreInv'
  BY StoreKept
<1>3. StoreInv => StoredIsWhole
  BY StoreInvTypes DEF StoreInv, StoredIsWhole
<1> QED
  BY <1>1, <1>2, <1>3, PTL DEF Spec

-----------------------------------------------------------------------------
(* EnvironmentUpload: the purge.                                           *)

(* The newest archive stays if it fits: the purge comes to it first, and   *)
(* what it removes is older.                                               *)
LEMMA PurgeSparesNewest ==
  ASSUME NEW known, NEW size \in [Envs -> Nat], born \in Seq(Envs), Distinct(born),
         born # <<>>, size[born[Len(born)]] <= MaxSize
  PROVE  born[Len(born)] \notin Purge(known, size)
<1> DEFINE N == Len(born)
           newest == born[N]
           U == [room : Int, gone : SUBSET Envs, ended : BOOLEAN]
           base == [room |-> MaxSize, gone |-> {}, ended |-> FALSE]
           Step(acc, e) ==
             CASE acc.ended -> acc
               [] ~acc.ended /\ size[e] <= acc.room ->
                    [acc EXCEPT !.room = @ - size[e]]
               [] ~acc.ended /\ size[e] > acc.room ->
                    IF e \in known THEN [acc EXCEPT !.gone = @ \cup {e}]
                    ELSE [acc EXCEPT !.ended = TRUE]
           g == [p \in U \X (1..N) |-> Step(p[1], born[p[2]])]
           pick == [t \in SUBSET (1..N) |-> Min(t)]
           Is(F) == F = [t \in SUBSET (DOMAIN born) |->
                           IF t = {} THEN base
                           ELSE Step(F[t \ {Min(t)}], born[Min(t)])]
           F == CHOOSE F : Is(F)
<1>1. /\ N \in Nat /\ N >= 1 /\ DOMAIN born = 1..N
      /\ \A i \in 1..N : born[i] \in Envs
      /\ MaxSize \in Nat
  BY LenProperties, ElementOfSeq, EmptySeq, EnvironmentUploadAssumption
<1>2. Purge(known, size) = F[DOMAIN born].gone
  BY DEF Purge, FoldRight, MapThenFoldSet
<1>3. ASSUME NEW acc \in U, NEW e \in Envs
      PROVE  /\ Step(acc, e) \in U
             /\ Step(acc, e).gone \subseteq acc.gone \cup {e}
             /\ size[e] <= acc.room => Step(acc, e).gone = acc.gone
  <2>1. size[e] \in Nat /\ acc.room \in Int /\ acc.ended \in BOOLEAN
        /\ acc.gone \in SUBSET Envs
    OBVIOUS
  <2>2. CASE acc.ended
    <3>1. Step(acc, e) = acc
      BY <2>2
    <3> HIDE DEF Step, U
    <3> QED
      BY <3>1
  <2>3. CASE ~acc.ended /\ size[e] <= acc.room
    <3>1. Step(acc, e) = [acc EXCEPT !.room = @ - size[e]]
      BY <2>3
    <3> HIDE DEF Step
    <3> QED
      BY <2>1, <3>1
  <2>4. CASE ~acc.ended /\ size[e] > acc.room
    <3>1. \/ Step(acc, e) = [acc EXCEPT !.gone = @ \cup {e}]
          \/ Step(acc, e) = [acc EXCEPT !.ended = TRUE]
      BY <2>1, <2>4
    <3>2. ~(size[e] <= acc.room)
      BY <2>1, <2>4
    <3> HIDE DEF Step
    <3>3. CASE Step(acc, e) = [acc EXCEPT !.gone = @ \cup {e}]
      <4>1. acc.gone \cup {e} \in SUBSET Envs
        BY <2>1
      <4> QED
        BY <2>1, <3>2, <3>3, <4>1
    <3>4. CASE Step(acc, e) = [acc EXCEPT !.ended = TRUE]
      BY <2>1, <3>2, <3>4
    <3> QED
      BY <3>1, <3>3, <3>4
  <2> HIDE DEF U, Step
  <2> QED
    BY <2>1, <2>2, <2>3, <2>4
<1>4. base \in U /\ base.gone = {} /\ base.room = MaxSize
  BY <1>1
<1>5. g \in [U \X (1..N) -> U]
  <2> HIDE DEF Step, U, N
  <2> QED
    BY <1>1, <1>3
<1>6. IsFiniteSet(1..N) /\ \A t \in SUBSET (1..N) : t # {} => pick[t] \in t
  <2>1. IsFiniteSet(1..N)
    <3> HIDE DEF N
    <3> QED
      BY <1>1, FS_Interval
  <2>2. \A t \in SUBSET (1..N) : t # {} => Min(t) \in t
    <3> HIDE DEF N
    <3> QED
      BY <1>1, MinIs
  <2> QED
    BY <2>1, <2>2
<1>7. PICK E \in [SUBSET (1..N) -> U] : IsFold(E, 1..N, base, g, pick)
  <2> HIDE DEF N, U, g, pick, base
  <2> QED
    BY <1>4, <1>5, <1>6, FoldExists
<1>8. ASSUME NEW t \in SUBSET (1..N)
      PROVE  E[t] = IF t = {} THEN base ELSE Step(E[t \ {Min(t)}], born[Min(t)])
  <2>1. CASE t = {}
    BY <1>7, <2>1 DEF IsFold
  <2>2. CASE t # {}
    <3>1. pick[t] = Min(t) /\ Min(t) \in 1..N /\ t \ {Min(t)} \in SUBSET (1..N)
      BY <1>6, <2>2
    <3> HIDE DEF N, U, Step, base, pick
    <3>2. E[t \ {Min(t)}] \in U
      BY <1>7, <3>1
    <3>3. g[<<E[t \ {Min(t)}], Min(t)>>] = Step(E[t \ {Min(t)}], born[Min(t)])
      BY <3>1, <3>2
    <3> HIDE DEF g
    <3> QED
      BY <1>7, <2>2, <3>1, <3>3 DEF IsFold
  <2> QED
    BY <2>1, <2>2
<1>9. Is(F)
  <2>1. Is(E)
    <3> HIDE DEF N, Step, base
    <3> QED
      BY <1>1, <1>7, <1>8
  <2> HIDE DEF Is
  <2> QED
    BY <2>1
<1> HIDE DEF F
<1>10. F[N+1..N] = base /\ \A i \in 1..N : F[i..N] = Step(F[i+1..N], born[i])
  <2> HIDE DEF N, Step, base
  <2>1. N+1..N = {} /\ {} \in SUBSET (1..N)
    BY <1>1
  <2>2. ASSUME NEW i \in 1..N PROVE F[i..N] = Step(F[i+1..N], born[i])
    <3>1. /\ i..N \in SUBSET (1..N) /\ i..N # {}
          /\ Min(i..N) = i /\ (i..N) \ {i} = i+1..N
      BY <1>1, MinOfSuffix
    <3> QED
      BY <1>1, <1>9, <3>1
  <2> QED
    BY <1>1, <1>9, <2>1, <2>2
<1> HIDE DEF Step, U, base, g, pick, Is
<1> DEFINE Right(t) == t \in U /\ newest \notin t.gone
           T == {k \in 0..N-1 : Right(F[N-k..N])}
<1>11. 0 \in T
  <2>1. N \in 1..N /\ N-0 = N /\ 0 \in 0..N-1
    <3> HIDE DEF N
    <3> QED
      BY <1>1
  <2>2. F[N..N] = Step(base, newest)
    BY <1>10, <2>1
  <2>3. size[newest] <= base.room
    BY <1>4
  <2>4. Right(F[N..N])
    BY <1>1, <1>3, <1>4, <2>1, <2>2, <2>3
  <2> HIDE DEF Right, N
  <2> QED
    BY <2>1, <2>4
<1>12. ASSUME NEW k \in 0..N-2, k \in T PROVE k+1 \in T
  <2> HIDE DEF N
  <2>1. PICK i \in 1..N-1 : i = N-(k+1)
    BY <1>1
  <2>2. i+1 = N-k /\ i \in 1..N /\ N \in 1..N /\ k+1 \in 0..N-1
    BY <1>1, <2>1
  <2>3. Right(F[i+1..N]) /\ F[i..N] = Step(F[i+1..N], born[i])
    BY <1>10, <1>12, <2>2
  <2>4. born[i] \in Envs /\ born[i] # newest
    BY <1>1, <2>1, <2>2 DEF Distinct, N
  <2>5. Right(F[i..N])
    BY <1>3, <2>3, <2>4
  <2> HIDE DEF Right
  <2> QED
    BY <2>1, <2>2, <2>5
<1>13. Right(F[1..N])
  <2> HIDE DEF T, N
  <2>1. PICK n \in Nat : n = N-1
    BY <1>1
  <2>2. \A i \in 0..n-1 : i \in 0..N-2
    BY <1>1, <2>1
  <2>3. \A i \in 0..n : i \in T
    BY <1>11, <1>12, <2>1, <2>2, Steps
  <2>4. n \in T /\ N-n = 1
    BY <1>1, <2>1, <2>3
  <2> HIDE DEF Right
  <2> QED
    BY <2>4 DEF T
<1> QED
  BY <1>1, <1>2, <1>13

(* So a purge of the store leaves it where it is. *)
LEMMA StoreSparesNewest ==
  ASSUME NEW known, NEW f, Filed(f, born), Store(known, f), born # <<>>,
         NEW e, e = Last(born), f[e] = "whole", e \notin overlap,
         Size[e] <= MaxSize
  PROVE  file'[e] = f[e]
<1>1. PICK size \in StatSizes(f) :
        file' = [x \in Envs |-> IF x \in Purge(known, size) THEN "none" ELSE f[x]]
  BY DEF Store
<1>2. born \in Seq(Envs) /\ Distinct(born) /\ e = born[Len(born)] /\ e \in Envs
  <2>1. Len(born) \in 1..Len(born)
    BY LenProperties, EmptySeq DEF Filed
  <2> QED
    BY <2>1, ElementOfSeq DEF Filed, Last
<1>3. size \in [Envs -> Nat] /\ size[e] = Size[e]
  BY <1>2, EnvironmentUploadAssumption DEF StatSizes
<1>4. e \notin Purge(known, size)
  BY <1>2, <1>3, PurgeSparesNewest
<1> QED
  BY <1>1, <1>2, <1>4

Survives(e) ==
  /\ born # <<>> /\ e = Last(born)
  /\ file[e] = "whole" /\ Size[e] <= MaxSize
  /\ e \notin overlap \cup overlap'

LEMMA NewestSurvives ==
  ASSUME StoreInv, [Next]_vars, NEW e \in Envs, Survives(e)
  PROVE  file'[e] # "none"
<1>1. /\ Filed(file, born) /\ file[e] = "whole" /\ e \notin overlap
      /\ file \in [Envs -> FileStates] /\ overlap \subseteq Envs
      /\ EnvOf \in [Clients -> Envs]
  BY EnvironmentUploadAssumption DEF StoreInv, StoreTyped, Filed, Survives
<1>2. CASE UNCHANGED vars
  BY <1>1, <1>2 DEF vars
<1>3. ASSUME NEW c \in Clients,
             \/ Request(c) \/ LastData(c) \/ SaveFails(c) \/ Saved(c)
             \/ CheckFails(c) \/ Closes(c) \/ Fails(c) \/ Again(c)
      PROVE  file'[e] # "none"
  <2>1. GoesOn(c)
    BY <1>3, StepGoesOn
  <2>2. e # EnvOf[c] \/ ~Writes(c)
    BY <1>1 DEF StoreInv, Unfinished
  <2>3. file'[e] = file[e]
    BY <2>1, <2>2 DEF GoesOn
  <2> QED
    BY <1>1, <2>3
<1>4. ASSUME NEW c \in Clients, UploadBegins(c) PROVE file'[e] # "none"
  BY <1>1, <1>4 DEF UploadBegins
<1>5. ASSUME NEW c \in Clients, Checked(c) PROVE file'[e] # "none"
  <2>1. Store(data \cup {EnvOf[c]}, file)
    BY <1>5 DEF Checked
  <2>2. PICK known : known = data \cup {EnvOf[c]}
    OBVIOUS
  <2>3. Store(known, file)
    BY <2>1, <2>2
  <2>4. file'[e] = file[e]
    BY <1>1, <2>3, StoreSparesNewest DEF Survives
  <2> QED
    BY <1>1, <2>4
<1>6. ASSUME Restart PROVE file'[e] # "none"
  <2>1. PICK torn \in SUBSET (overlap \cap ToSet(born)) :
          Store({x \in Envs : file[x] = "whole"} \ torn,
                [x \in Envs |-> IF x \in torn THEN "partial" ELSE file[x]])
    BY <1>6 DEF Restart
  <2>2. PICK f : f = [x \in Envs |-> IF x \in torn THEN "partial" ELSE file[x]]
    OBVIOUS
  <2>3. PICK known : known = {x \in Envs : file[x] = "whole"} \ torn
    OBVIOUS
  <2>4. Filed(f, born)
    <3>1. torn \subseteq {x \in Envs : file[x] # "none"}
      BY <1>1, <2>1 DEF Filed
    <3>2. /\ f \in [Envs -> FileStates]
          /\ {x \in Envs : f[x] # "none"} = {x \in Envs : file[x] # "none"}
      BY <1>1, <2>2, <3>1 DEF FileStates
    <3> QED
      BY <1>1, <3>2 DEF Filed
  <2>5. f[e] = "whole"
    BY <1>1, <2>1, <2>2
  <2>6. Store(known, f)
    BY <2>1, <2>2, <2>3
  <2>7. file'[e] = f[e]
    BY <1>1, <2>4, <2>5, <2>6, StoreSparesNewest DEF Survives
  <2> QED
    BY <2>5, <2>7
<1> QED
  BY <1>2, <1>3, <1>4, <1>5, <1>6 DEF Next

(***************************************************************************)
(* The newest archive, if it fits and nobody else wrote into it, survives  *)
(* every purge, the end of every connection and a restart.                 *)
(***************************************************************************)
THEOREM NewestIsKept == Spec => UploadSurvives
<1>1. Init => StoreInv
  BY StoreBegins
<1>2. StoreInv /\ [Next]_vars => StoreInv'
  BY StoreKept
<1>3. StoreInv /\ [Next]_vars =>
        [\A e \in Envs :
           /\ born # <<>> /\ e = Last(born)
           /\ file[e] = "whole" /\ Size[e] <= MaxSize
           /\ e \notin overlap \cup overlap'
           => file'[e] # "none"]_vars
  BY NewestSurvives DEF Survives
<1> QED
  BY <1>1, <1>2, <1>3, PTL DEF Spec, UploadSurvives

-----------------------------------------------------------------------------
(***************************************************************************)
(* Where the two parts meet.  The environments that syncEnvironments()     *)
(* compares with the builders' change in two ways only: a checked upload   *)
(* stores its own environment, and purges (EnvSync's Gain), or a scheduler *)
(* that starts again offers archives that are whole (part of what EnvSync  *)
(* lets a restart do).  No upload that fails, is cut or is refused, and no *)
(* check that fails, makes the builders fetch or drop anything.            *)
(***************************************************************************)
THEOREM UploadsFeedSync ==
  Spec => [][\/ \E c \in Clients : Checked(c) /\ Stores(EnvOf[c])
             \/ Restart /\ data' \subseteq {e \in Envs : file[e] = "whole"}
            ]_data
<1>1. Init => StoreInv
  BY StoreBegins
<1>2. StoreInv /\ [Next]_vars => StoreInv'
  BY StoreKept
<1>3. ASSUME StoreInv, [Next]_vars
      PROVE  [\/ \E c \in Clients : Checked(c) /\ Stores(EnvOf[c])
              \/ Restart /\ data' \subseteq {e \in Envs : file[e] = "whole"}
             ]_data
  <2>1. ASSUME NEW c \in Clients, Checked(c)
        PROVE  Stores(EnvOf[c])
    <3>1. PICK gone : data' = (data \cup {EnvOf[c]}) \ gone
      BY <2>1 DEF Checked, Store
    <3>2. data' = (data \cup {EnvOf[c]}) \ (gone \cap (data \cup {EnvOf[c]}))
      BY <3>1
    <3> QED
      BY <3>2 DEF Stores
  <2>2. ASSUME Restart
        PROVE  data' \subseteq {e \in Envs : file[e] = "whole"}
    <3>1. PICK torn, f :
            Store({e \in Envs : file[e] = "whole"} \ torn, f)
      BY <2>2 DEF Restart
    <3> QED
      BY <3>1 DEF Store
  <2>3. CASE UNCHANGED data
    BY <2>3
  <2>4. ASSUME NEW c \in Clients, ~Checked(c), Next, ~Restart,
               \/ Request(c) \/ UploadBegins(c) \/ LastData(c) \/ SaveFails(c)
               \/ Saved(c) \/ CheckFails(c) \/ Closes(c) \/ Fails(c) \/ Again(c)
        PROVE  UNCHANGED data
    BY <2>4 DEF Request, UploadBegins, LastData, SaveFails, Saved, CheckFails,
                Closes, Fails, Again
  <2>5. CASE UNCHANGED vars
    BY <2>5 DEF vars
  <2> QED
    BY <1>3, <2>1, <2>2, <2>3, <2>4, <2>5 DEF Next
<1> QED
  BY <1>1, <1>2, <1>3, PTL DEF Spec

-----------------------------------------------------------------------------
(* EnvSync: types, and that a chain at work has an environment.            *)

WorksNow(c) == chain[c].stage \in AtWork

Begun == \A c \in Chains : WorksNow(c) => chain[c].env \in Envs

SyncTyped == SyncTypeOK /\ Begun

(* The records of chains. *)
LEMMA WorkRecords ==
  /\ Off \in Work /\ Stuck \in Work
  /\ \A todo \in SUBSET Envs : Ready(todo) \in Work
  /\ \A w \in Work :
       /\ [w EXCEPT !.lost = TRUE] \in Work
       /\ \A s \in WorkStages : [w EXCEPT !.stage = s] \in Work
  /\ Off.stage = "off" /\ Stuck.stage = "stuck"
  /\ \A todo : Ready(todo).stage = "ready"
BY DEF Off, Stuck, Ready, Work, WorkStages

(* A directory made anew strands the chains that worked in it, and changes *)
(* nothing else about them.                                                *)
LEMMA StrandIs ==
  ASSUME NEW ch \in [Chains -> Work], NEW e
  PROVE  /\ Strand(ch, e) \in [Chains -> Work]
         /\ \A c \in Chains :
              /\ Strand(ch, e)[c].stage = ch[c].stage
              /\ Strand(ch, e)[c].env = ch[c].env
<1>1. ASSUME NEW c \in Chains
      PROVE  /\ [ch[c] EXCEPT !.lost = TRUE] \in Work
             /\ [ch[c] EXCEPT !.lost = TRUE].stage = ch[c].stage
             /\ [ch[c] EXCEPT !.lost = TRUE].env = ch[c].env
  <2>1. ch[c] \in Work
    OBVIOUS
  <2> QED
    BY <2>1, WorkRecords DEF Work
<1> QED
  BY <1>1 DEF Strand

(* What an action does to the chains. *)
KeepsStage(d) == chain'[d].stage = chain[d].stage /\ chain'[d].env = chain[d].env
Sets(c, S) ==
  /\ chain' \in [Chains -> Work]
  /\ chain'[c].stage \in S
  /\ \A d \in Chains \ {c} : KeepsStage(d)

LEMMA ChainSteps ==
  ASSUME SyncTyped, NEW c \in Chains
  PROVE  /\ Get(c) => Sets(c, {"ready"})
         /\ Fetch(c) =>
              /\ Sets(c, {"fetching"})
              /\ chain'[c].env \in Envs
         /\ Fetched(c) =>
              Sets(c, {"unpacking"}) /\ chain'[c].env = chain[c].env
         /\ GiveUp(c) => Sets(c, {"ready"})
         /\ FetchFails(c) \/ VmNeverReady(c) => Sets(c, {"stuck"})
         /\ VmReady(c) => Sets(c, {"ready"})
         /\ Finish(c) => Sets(c, {"informing"})
         /\ Inform(c) => Sets(c, {"off"})
<1> USE DEF Sets, KeepsStage
<1>1. /\ chain \in [Chains -> Work] /\ chain[c] \in Work
      /\ chain[c].todo \in SUBSET Envs
      /\ \A d \in Chains : chain[d] \in Work
  BY DEF SyncTyped, SyncTypeOK, Work
<1>2. ASSUME NEW w \in Work
      PROVE  /\ [chain EXCEPT ![c] = w] \in [Chains -> Work]
             /\ [chain EXCEPT ![c] = w][c] = w
             /\ \A d \in Chains \ {c} : [chain EXCEPT ![c] = w][d] = chain[d]
  BY <1>1
<1>3. ASSUME NEW w \in Work, NEW e
      PROVE  LET st == [Strand(chain, e) EXCEPT ![c] = w]
             IN /\ st \in [Chains -> Work] /\ st[c] = w
                /\ \A d \in Chains \ {c} :
                     st[d].stage = chain[d].stage /\ st[d].env = chain[d].env
  BY <1>1, StrandIs
<1>4. ASSUME NEW s \in WorkStages
      PROVE  /\ [chain EXCEPT ![c].stage = s]
                  = [chain EXCEPT ![c] = [chain[c] EXCEPT !.stage = s]]
             /\ [chain[c] EXCEPT !.stage = s] \in Work
             /\ [chain[c] EXCEPT !.stage = s].stage = s
             /\ [chain[c] EXCEPT !.stage = s].env = chain[c].env
  BY <1>1, WorkRecords DEF Work
<1>5. ASSUME Get(c) PROVE Sets(c, {"ready"})
  <2>1. orders \in Seq(Order) /\ orders # <<>>
    BY <1>5 DEF Get, SyncTyped, SyncTypeOK
  <2>2. Head(orders) \in Order
    BY <2>1, HeadTailProperties
  <2>3. Head(orders).list \in SUBSET Envs
    BY <2>2 DEF Order
  <2>4. Ready(Head(orders).list) \in Work
    BY <2>3, WorkRecords
  <2> QED
    BY <1>2, <1>5, <2>4, WorkRecords DEF Get
<1>6. ASSUME Fetch(c)
      PROVE  Sets(c, {"fetching"}) /\ chain'[c].env \in Envs
  <2>1. PICK e \in chain[c].todo :
          chain' = [Strand(chain, e) EXCEPT ![c] =
                     [stage |-> "fetching", todo |-> chain[c].todo \ {e},
                      env |-> e, lost |-> FALSE]]
    BY <1>6 DEF Fetch
  <2> DEFINE w == [stage |-> "fetching", todo |-> chain[c].todo \ {e},
                   env |-> e, lost |-> FALSE]
  <2>2. w \in Work /\ w.stage = "fetching" /\ w.env = e /\ e \in Envs
    BY <1>1 DEF Work, WorkStages
  <2>3. chain' = [Strand(chain, e) EXCEPT ![c] = w]
    BY <2>1
  <2> HIDE DEF w
  <2> QED
    BY <1>3, <2>2, <2>3
<1>7. ASSUME Fetched(c)
      PROVE  Sets(c, {"unpacking"}) /\ chain'[c].env = chain[c].env
  BY <1>2, <1>4, <1>7 DEF Fetched, WorkStages
<1>8. ASSUME GiveUp(c) PROVE Sets(c, {"ready"})
  BY <1>1, <1>3, <1>8, WorkRecords DEF GiveUp
<1>9. ASSUME FetchFails(c) \/ VmNeverReady(c)
      PROVE  Sets(c, {"stuck"})
  BY <1>2, <1>3, <1>9, WorkRecords DEF FetchFails, VmNeverReady
<1>10. ASSUME VmReady(c) PROVE Sets(c, {"ready"})
  BY <1>1, <1>2, <1>10, WorkRecords DEF VmReady
<1>11. ASSUME Finish(c) PROVE Sets(c, {"informing"})
  BY <1>2, <1>4, <1>11 DEF Finish, WorkStages
<1>12. ASSUME Inform(c) PROVE Sets(c, {"off"})
  BY <1>2, <1>12, WorkRecords DEF Inform
<1> QED
  BY <1>5, <1>6, <1>7, <1>8, <1>9, <1>10, <1>11, <1>12

-----------------------------------------------------------------------------
(* Messages to the builder.                                                *)

Gets(q) == \E i \in 1..Len(q) : q[i].type = "get"
Dropped(q) ==
  {e \in Envs : \E i \in 1..Len(q) : q[i].type = "drop" /\ e \in q[i].list}

(* What of S is to be dropped is asked for again, or more is.              *)
InOrder(q, S) ==
  \A i \in 1..Len(q) :
    q[i].type = "drop" /\ q[i].list \cap S # {}
      => \E j \in i+1..Len(q) : q[j].type = "get"

(* One more message at the end ... *)
LEMMA OneMore ==
  ASSUME NEW q \in Seq(Order), NEW r \in Order
  PROVE  /\ q \o <<r>> \in Seq(Order)
         /\ Gets(q \o <<r>>) <=> Gets(q) \/ r.type = "get"
         /\ Dropped(q \o <<r>>)
              = Dropped(q) \cup (IF r.type = "drop" THEN r.list ELSE {})
         /\ \A S : InOrder(q \o <<r>>, S) <=>
                    \/ r.type = "get"
                    \/ (InOrder(q, S) /\ r.list \cap S = {})
<1> DEFINE p == q \o <<r>>
           n == Len(q)
<1>1. n \in Nat /\ r.type \in {"drop", "get"} /\ r.list \in SUBSET Envs
  BY LenProperties DEF Order
<1>2. /\ p \in Seq(Order) /\ Len(p) = n + 1
      /\ \A i \in 1..n : p[i] = q[i]
      /\ p[n + 1] = r
  BY ConcatProperties, LenProperties
<1>3. \A i \in 1..n+1 : i \in 1..n \/ i = n+1
  BY <1>1
<1>4. 1..n \subseteq 1..n+1 /\ n+1 \in 1..n+1
  BY <1>1
<1> HIDE DEF p, n
<1>5. Gets(p) <=> Gets(q) \/ r.type = "get"
  BY <1>1, <1>2, <1>3, <1>4 DEF Gets, n
<1>6. Dropped(p) = Dropped(q) \cup (IF r.type = "drop" THEN r.list ELSE {})
  <2>1. ASSUME NEW e \in Envs
        PROVE  e \in Dropped(p)
                 <=> e \in Dropped(q) \/ (r.type = "drop" /\ e \in r.list)
    BY <1>2, <1>3, <1>4 DEF Dropped, n
  <2>2. \A e : /\ e \in Dropped(p) \/ e \in Dropped(q) => e \in Envs
               /\ e \in r.list => e \in Envs
    BY <1>1 DEF Dropped
  <2> QED
    BY <2>1, <2>2
<1>7. ASSUME NEW S
      PROVE  InOrder(p, S) <=> \/ r.type = "get"
                               \/ InOrder(q, S) /\ r.list \cap S = {}
  <2>1. CASE r.type = "get"
    <3>1. ASSUME NEW i \in 1..n+1, p[i].type = "drop"
          PROVE  n+1 \in i+1..n+1 /\ p[n+1].type = "get"
      BY <1>1, <1>2, <1>3, <2>1, <3>1
    <3> QED
      BY <1>2, <2>1, <3>1 DEF InOrder
  <2>2. CASE r.type = "drop"
    <3>1. ASSUME NEW i \in 1..n
          PROVE  (\E j \in i+1..n+1 : p[j].type = "get")
                   <=> (\E j \in i+1..n : q[j].type = "get")
      <4>1. \A j \in i+1..n+1 : j \in i+1..n \/ j = n+1
        BY <1>1
      <4>2. \A j \in i+1..n : j \in 1..n /\ j \in i+1..n+1
        BY <1>1
      <4> QED
        BY <1>2, <2>2, <4>1, <4>2
    <3>2. ~ \E j \in (n+1)+1..n+1 : TRUE
      BY <1>1
    <3>3. InOrder(p, S) <=>
            /\ \A i \in 1..n : q[i].type = "drop" /\ q[i].list \cap S # {}
                 => \E j \in i+1..n : q[j].type = "get"
            /\ r.list \cap S = {}
      <4> DEFINE Asked(s, k, i) ==
                   s[i].type = "drop" /\ s[i].list \cap S # {}
                     => \E j \in i+1..k : s[j].type = "get"
      <4>1. InOrder(p, S) <=> \A i \in 1..n+1 : Asked(p, n + 1, i)
        BY <1>2 DEF InOrder
      <4>2. ASSUME NEW i \in 1..n PROVE Asked(p, n + 1, i) <=> Asked(q, n, i)
        BY <1>2, <3>1
      <4>3. Asked(p, n + 1, n + 1) <=> r.list \cap S = {}
        BY <1>2, <2>2, <3>2
      <4> HIDE DEF Asked
      <4>4. (\A i \in 1..n+1 : Asked(p, n + 1, i))
              <=> (\A i \in 1..n : Asked(q, n, i)) /\ r.list \cap S = {}
        BY <1>3, <1>4, <4>2, <4>3
      <4> QED
        BY <4>1, <4>4 DEF Asked
    <3> QED
      BY <2>2, <3>3 DEF InOrder, n
  <2> QED
    BY <1>1, <2>1, <2>2
<1> QED
  BY <1>2, <1>5, <1>6, <1>7 DEF p

(* ... and what syncEnvironments sends after what is on its way. *)
LEMMA OrdersSent ==
  ASSUME NEW q \in Seq(Order), NEW A \in SUBSET Envs,
         NEW B \in SUBSET Envs
  PROVE  LET p == q \o OrderFor("drop", A) \o OrderFor("get", B)
         IN /\ p \in Seq(Order)
            /\ Gets(p) <=> Gets(q) \/ B # {}
            /\ Dropped(p) = Dropped(q) \cup A
            /\ \A S : InOrder(p, S) <=>
                       B # {} \/ (InOrder(q, S) /\ A \cap S = {})
<1> DEFINE d == [type |-> "drop", list |-> A]
           g == [type |-> "get", list |-> B]
           m == q \o OrderFor("drop", A)
           p == m \o OrderFor("get", B)
<1>1. /\ d \in Order /\ d.type = "drop" /\ d.list = A
      /\ g \in Order /\ g.type = "get" /\ g.list = B
  BY DEF Order
<1> HIDE DEF d, g
<1>2. /\ m \in Seq(Order) /\ (Gets(m) <=> Gets(q))
      /\ Dropped(m) = Dropped(q) \cup A
      /\ \A S : InOrder(m, S) <=> InOrder(q, S) /\ A \cap S = {}
  <2>1. CASE A = {}
    <3>1. m = q
      BY <2>1, ConcatEmptySeq DEF OrderFor
    <3> QED
      BY <2>1, <3>1
  <2>2. CASE A # {}
    <3>1. m = q \o <<d>>
      BY <2>2 DEF OrderFor, d
    <3> QED
      BY <1>1, <3>1, OneMore
  <2> QED
    BY <2>1, <2>2
<1> HIDE DEF m
<1>3. /\ p \in Seq(Order) /\ (Gets(p) <=> Gets(m) \/ B # {})
      /\ Dropped(p) = Dropped(m)
      /\ \A S : InOrder(p, S) <=> B # {} \/ InOrder(m, S)
  <2>1. CASE B = {}
    <3>1. p = m
      BY <1>2, <2>1, ConcatEmptySeq DEF OrderFor
    <3> QED
      BY <1>2, <2>1, <3>1
  <2>2. CASE B # {}
    <3>1. p = m \o <<g>>
      BY <2>2 DEF OrderFor, g
    <3> HIDE DEF p
    <3>2. /\ p \in Seq(Order) /\ Gets(p)
          /\ Dropped(p) = Dropped(m) \cup {}
          /\ \A S : InOrder(p, S)
      BY <1>1, <1>2, <3>1, OneMore
    <3> QED
      BY <2>2, <3>2
  <2> QED
    BY <2>1, <2>2
<1> QED
  BY <1>2, <1>3 DEF m

(* The message that is handled next. *)
LEMMA OrdersHandled ==
  ASSUME NEW q \in Seq(Order), q # <<>>
  PROVE  /\ Head(q) \in Order /\ Tail(q) \in Seq(Order)
         /\ Gets(q) <=> Head(q).type = "get" \/ Gets(Tail(q))
         /\ Dropped(q)
              = Dropped(Tail(q))
                  \cup (IF Head(q).type = "drop" THEN Head(q).list ELSE {})
         /\ \A S : InOrder(q, S) =>
              /\ InOrder(Tail(q), S)
              /\ Head(q).type = "drop" /\ ~Gets(q) => Head(q).list \cap S = {}
<1> DEFINE t == Tail(q)
           h == Head(q)
           n == Len(q)
<1>1. /\ n \in Nat /\ n >= 1 /\ h \in Order /\ t \in Seq(Order)
      /\ Len(t) = n - 1 /\ h = q[1]
      /\ \A i \in 1..n-1 : t[i] = q[i+1]
  BY HeadTailProperties, LenProperties, EmptySeq
<1>2. /\ h.type \in {"drop", "get"} /\ h.list \in SUBSET Envs
  BY <1>1 DEF Order
<1>3. /\ \A i \in 1..n : i = 1 \/ (i-1 \in 1..n-1 /\ t[i-1] = q[i])
      /\ \A i \in 1..n-1 : i+1 \in 1..n
      /\ 1 \in 1..n
  BY <1>1
<1> HIDE DEF t, h, n
<1>4. Gets(q) <=> h.type = "get" \/ Gets(t)
  BY <1>1, <1>3 DEF Gets, n
<1>5. Dropped(q) = Dropped(t) \cup (IF h.type = "drop" THEN h.list ELSE {})
  <2>1. ASSUME NEW e \in Envs
        PROVE  e \in Dropped(q)
                 <=> e \in Dropped(t) \/ (h.type = "drop" /\ e \in h.list)
    BY <1>1, <1>3 DEF Dropped, n
  <2>2. \A e : /\ e \in Dropped(q) \/ e \in Dropped(t) => e \in Envs
               /\ e \in h.list => e \in Envs
    BY <1>2 DEF Dropped
  <2> QED
    BY <2>1, <2>2
<1>6. ASSUME NEW S, InOrder(q, S)
      PROVE  /\ InOrder(t, S)
             /\ h.type = "drop" /\ ~Gets(q) => h.list \cap S = {}
  <2>1. ASSUME NEW i \in 1..n-1, t[i].type = "drop", t[i].list \cap S # {}
        PROVE  \E j \in i+1..n-1 : t[j].type = "get"
    <3>1. i+1 \in 1..n /\ q[i+1] = t[i]
      BY <1>1
    <3>2. PICK j \in (i+1)+1..n : q[j].type = "get"
      BY <1>6, <2>1, <3>1 DEF InOrder, n
    <3>3. j-1 \in i+1..n-1 /\ t[j-1] = q[j]
      BY <1>1, <3>2
    <3> QED
      BY <3>2, <3>3
  <2>2. ASSUME h.type = "drop", ~Gets(q) PROVE h.list \cap S = {}
    <3>1. \A j \in 1+1..n : j \in 1..n
      BY <1>1
    <3> QED
      BY <1>1, <1>3, <1>6, <2>2, <3>1 DEF InOrder, Gets, n
  <2> QED
    BY <1>1, <2>1, <2>2 DEF InOrder
<1> QED
  BY <1>1, <1>4, <1>5, <1>6 DEF t, h

-----------------------------------------------------------------------------
(* syncEnvironments: what becomes of belief and orders. *)
Syncs(S, b, q) ==
  /\ belief' = b \cap S
  /\ orders' \in Seq(Order)
  /\ Gets(orders') <=> Gets(q) \/ S \ b # {}
  /\ Dropped(orders') = Dropped(q) \cup (b \ S)
  /\ \A T : InOrder(orders', T)
             <=> S \ b # {} \/ (InOrder(q, T) /\ (b \ S) \cap T = {})

LEMMA SyncIs ==
  ASSUME NEW S \in SUBSET Envs, NEW b \in SUBSET Envs,
         NEW q \in Seq(Order),
         belief' = b \cap S,
         orders' = q \o OrderFor("drop", b \ S)
                     \o OrderFor("get", S \ b)
  PROVE  Syncs(S, b, q)
<1> DEFINE A == b \ S
           B == S \ b
           p == q \o OrderFor("drop", A) \o OrderFor("get", B)
<1>1. A \in SUBSET Envs /\ B \in SUBSET Envs
  OBVIOUS
<1>2. belief' = b \cap S /\ orders' = p
  OBVIOUS
<1> HIDE DEF A, B
<1>3. /\ p \in Seq(Order)
      /\ Gets(p) <=> Gets(q) \/ B # {}
      /\ Dropped(p) = Dropped(q) \cup A
      /\ \A T : InOrder(p, T) <=> B # {} \/ (InOrder(q, T) /\ A \cap T = {})
  BY <1>1, OrdersSent
<1> HIDE DEF p
<1> QED
  BY <1>2, <1>3 DEF Syncs, A, B

LEMMA GainIs ==
  ASSUME SyncTyped, NEW e \in Envs, Gain(e)
  PROVE  /\ data' \in SUBSET Envs
         /\ IF listed THEN Syncs(data', belief, orders)
                      ELSE UNCHANGED <<belief, orders>>
         /\ changes' = changes + 1 /\ changes < MaxChanges
         /\ UNCHANGED <<linked, listed, ghosts, reports, envs, dir, boot,
                        dying, chain, tangled, cuts, failures>>
<1>1. /\ data \subseteq Envs /\ belief \subseteq Envs
      /\ orders \in Seq(Order)
  BY DEF SyncTyped, SyncTypeOK
<1>2. PICK purged \in SUBSET (data \cup {e}) : data' = (data \cup {e}) \ purged
  BY DEF Gain, Stores
<1>3. data' \in SUBSET Envs
  BY <1>1, <1>2
<1>4. CASE listed
  <2>1. /\ belief' = belief \cap data'
        /\ orders' = orders \o OrderFor("drop", belief \ data')
                            \o OrderFor("get", data' \ belief)
    BY <1>4 DEF Gain, Sync
  <2>2. Syncs(data', belief, orders)
    BY <1>1, <1>3, <2>1, SyncIs
  <2> QED
    BY <1>2, <1>3, <1>4, <2>2 DEF Gain, builder, connection
<1>5. CASE ~listed
  BY <1>2, <1>3, <1>5 DEF Gain, builder, connection
<1> QED
  BY <1>4, <1>5

LEMMA HearIs ==
  ASSUME SyncTyped, Hear
  PROVE  /\ reports # <<>> /\ Head(reports) \in SUBSET Envs
         /\ reports' = Tail(reports) /\ reports' \in Seq(SUBSET Envs)
         /\ Syncs(data, Head(reports), orders)
         /\ UNCHANGED <<data, linked, listed, ghosts, envs, dir, boot, dying,
                        chain, tangled, changes, cuts, failures>>
<1>1. /\ data \subseteq Envs /\ reports \in Seq(SUBSET Envs)
      /\ orders \in Seq(Order) /\ reports # <<>>
  BY DEF SyncTyped, SyncTypeOK, Hear
<1>2. Head(reports) \in SUBSET Envs /\ Tail(reports) \in Seq(SUBSET Envs)
  BY <1>1, HeadTailProperties
<1>3. /\ belief' = Head(reports) \cap data
      /\ orders' = orders \o OrderFor("drop", Head(reports) \ data)
                          \o OrderFor("get", data \ Head(reports))
  BY DEF Hear, Sync
<1>4. Syncs(data, Head(reports), orders)
  BY <1>1, <1>2, <1>3, SyncIs
<1> QED
  BY <1>1, <1>2, <1>4 DEF Hear, builder, bounds, connection

LEMMA ConnectIs ==
  ASSUME SyncTyped, Connect
  PROVE  /\ ~linked /\ linked' = TRUE /\ listed' = TRUE
         /\ Syncs(data, envs, <<>>)
         /\ UNCHANGED <<data, ghosts, reports, envs, dir, boot, dying, chain,
                        tangled, changes, cuts, failures>>
<1>1. data \in SUBSET Envs /\ envs \in SUBSET Envs
      /\ <<>> \in Seq(Order)
  BY EmptySeq DEF SyncTyped, SyncTypeOK
<1>2. /\ belief' = envs \cap data
      /\ orders' = <<>> \o OrderFor("drop", envs \ data)
                        \o OrderFor("get", data \ envs)
  BY DEF Connect, Sync
<1>3. Syncs(data, envs, <<>>)
  BY <1>1, <1>2, SyncIs
<1> QED
  BY <1>3 DEF Connect, builder, bounds

-----------------------------------------------------------------------------
(* Types.                                                                  *)

LEMMA SyncTypesBegin ==
  ASSUME EnvSyncAssumption, SyncInit PROVE SyncTyped
<1>1. BootOf(envs) \in [Envs -> {"over", "waits", "never"}]
  BY DEF BootOf
<1>2. /\ Off \in Work /\ Off.stage = "off"
      /\ <<>> \in Seq(Order) /\ <<>> \in Seq(SUBSET Envs)
  BY WorkRecords, EmptySeq
<1>3. Begun
  BY <1>2 DEF Begun, WorksNow, AtWork, SyncInit
<1>4. /\ data \subseteq Envs /\ envs \subseteq Envs
      /\ dir \in [Envs -> {"none", "partial", "archive", "whole"}]
      /\ belief \subseteq Envs /\ dying \subseteq Envs
  BY DEF SyncInit
<1>5. chain \in [Chains -> Work]
  BY <1>2 DEF SyncInit
<1>6. /\ changes \in 0..MaxChanges /\ cuts \in 0..MaxCuts
      /\ failures \in 0..MaxFailures
  BY DEF SyncInit, EnvSyncAssumption
<1> QED
  BY <1>1, <1>2, <1>3, <1>4, <1>5, <1>6
     DEF SyncTyped, SyncTypeOK, SyncInit

(* The handlers of the scheduler and of the connection. *)
LEMMA LinkStepsKeepTypes ==
  ASSUME EnvSyncAssumption, SyncTyped,
         \/ Hear \/ Connect \/ Cut \/ GhostCloses
         \/ SchedulerRestarts \/ BuilderRestarts
         \/ \E e \in Envs : Gain(e)
  PROVE  SyncTyped'
<1> USE DEF SyncTyped, SyncTypeOK, Begun, WorksNow
<1>1. CASE Hear
  BY <1>1, HearIs DEF Syncs
<1>2. CASE Connect
  BY <1>2, ConnectIs DEF Syncs
<1>3. CASE Cut \/ SchedulerRestarts
  <2>1. cuts' \in 0..MaxCuts
    BY <1>3 DEF Cut, SchedulerRestarts, EnvSyncAssumption
  <2>2. data' \subseteq Envs /\ ghosts' \in Nat
    BY <1>3 DEF Cut, SchedulerRestarts, LeavesGhost
  <2> QED
    BY <1>3, <2>1, <2>2, EmptySeq DEF Cut, SchedulerRestarts, Unlinked, builder
<1>6. CASE GhostCloses
  <2>1. ghosts' \in Nat
    BY <1>6 DEF GhostCloses
  <2> QED
    BY <1>6, <2>1 DEF GhostCloses, builder, bounds
<1>4. CASE BuilderRestarts
  <2>1. cuts' \in 0..MaxCuts
    BY <1>4 DEF BuilderRestarts, EnvSyncAssumption
  <2>2. /\ dir' \in [Envs -> {"none", "partial", "archive", "whole"}]
        /\ boot' \in [Envs -> {"over", "waits", "never"}]
        /\ envs' \subseteq Envs /\ dying' \subseteq Envs
    BY <1>4 DEF BuilderRestarts, BootOf
  <2>3. chain' = [c \in Chains |-> Off]
    BY <1>4 DEF BuilderRestarts
  <2>4. chain' \in [Chains -> Work] /\ Begun'
    BY <2>3, WorkRecords DEF AtWork
  <2>5. ghosts' \in Nat
    BY <1>4 DEF BuilderRestarts, LeavesGhost
  <2> QED
    BY <1>4, <2>1, <2>2, <2>4, <2>5, EmptySeq DEF BuilderRestarts, Unlinked
<1>5. ASSUME NEW e \in Envs, Gain(e) PROVE SyncTyped'
  <2>1. changes' \in 0..MaxChanges
    BY <1>5, GainIs DEF EnvSyncAssumption
  <2>2. belief' \subseteq Envs /\ orders' \in Seq(Order)
    BY <1>5, GainIs DEF Syncs
  <2> QED
    BY <1>5, <2>1, <2>2, GainIs
<1> QED
  BY <1>1, <1>2, <1>3, <1>4, <1>5, <1>6

(* The VM processes and dropEnvironments. *)
LEMMA EnvStepsKeepTypes ==
  ASSUME EnvSyncAssumption, SyncTyped,
         \/ Drop
         \/ \E e \in Envs :
              VmExits(e) \/ Boots(e) \/ NeverBoots(e)
  PROVE  SyncTyped'
<1> USE DEF SyncTyped, SyncTypeOK
<1>1. CASE Drop
  <2>1. Tail(orders) \in Seq(Order)
    BY <1>1, HeadTailProperties DEF Drop
  <2> QED
    BY <1>1, <2>1 DEF Drop, connection, bounds, Begun, WorksNow
<1>2. ASSUME NEW e \in Envs, VmExits(e) PROVE SyncTyped'
  <2>1. /\ chain' \in [Chains -> Work]
        /\ \A c \in Chains : KeepsStage(c)
    BY <1>2, StrandIs DEF VmExits, KeepsStage
  <2>2. Begun'
    BY <2>1 DEF Begun, WorksNow, KeepsStage
  <2>3. dir' \in [Envs -> {"none", "partial", "archive", "whole"}]
    BY <1>2 DEF VmExits, RemoveDir
  <2> QED
    BY <1>2, <2>1, <2>2, <2>3 DEF VmExits, server, connection, bounds
<1>3. ASSUME NEW e \in Envs, Boots(e) \/ NeverBoots(e)
      PROVE  SyncTyped'
  <2>1. failures' \in 0..MaxFailures
    BY <1>3 DEF Boots, NeverBoots, EnvSyncAssumption,
                bounds
  <2> QED
    BY <1>3, <2>1 DEF Boots, NeverBoots, server, connection, bounds,
                      Begun, WorksNow
<1> QED
  BY <1>1, <1>2, <1>3

(* The steps of a chain. *)
LEMMA WorkStepsKeepTypes ==
  ASSUME EnvSyncAssumption, SyncTyped, NEW c \in Chains,
         \/ Get(c) \/ WorkStep(c)
         \/ FetchFails(c) \/ UnpackFails(c) \/ VmNeverReady(c)
  PROVE  SyncTyped'
<1> DEFINE Dirs == [Envs -> {"none", "partial", "archive", "whole"}]
<1>1. /\ SyncTypeOK /\ Begun /\ dir \in Dirs
      /\ chain \in [Chains -> Work]
  BY DEF SyncTyped, SyncTypeOK
<1>2. ASSUME NEW S, Sets(c, S), S \cap AtWork = {}
      PROVE  Begun'
  <2>1. ASSUME NEW d \in Chains, WorksNow(d)' PROVE chain'[d].env \in Envs
    <3>1. d # c
      BY <1>2, <2>1 DEF Sets, WorksNow
    <3> QED
      BY <1>1, <1>2, <2>1, <3>1 DEF Sets, KeepsStage, Begun, WorksNow
  <2> QED
    BY <2>1 DEF Begun
<1>3. ASSUME NEW S, Sets(c, S), chain'[c].env \in Envs
      PROVE  Begun'
  BY <1>1, <1>3 DEF Sets, KeepsStage, Begun, WorksNow
<1>4. ASSUME NEW S, Sets(c, S), Begun', dir' \in Dirs,
             failures' \in 0..MaxFailures, tangled' \in BOOLEAN,
             UNCHANGED <<server, envs, boot, dying, changes, cuts>>
      PROVE  SyncTyped'
  BY <1>1, <1>4 DEF Sets, SyncTyped, SyncTypeOK, server, connection
<1>5. ASSUME NEW x \in Envs \cup {"none"},
             NEW y \in {"none", "partial", "archive", "whole"}
      PROVE  [dir EXCEPT ![x] = y] \in Dirs
  BY <1>1
<1>6. /\ failures \in 0..MaxFailures /\ tangled \in BOOLEAN
      /\ chain[c].env \in Envs \cup {"none"}
  BY <1>1 DEF SyncTypeOK, Work
<1>7. CASE Get(c)
  <2>1. Tail(orders) \in Seq(Order)
    BY <1>1, <1>7, HeadTailProperties DEF Get, SyncTypeOK
  <2>2. Sets(c, {"ready"}) /\ Begun'
    BY <1>2, <1>7, ChainSteps DEF AtWork
  <2> QED
    BY <1>1, <1>7, <2>1, <2>2
       DEF Sets, Get, SyncTyped, SyncTypeOK, connection, bounds
<1>8. CASE Fetch(c)
  <2>1. Sets(c, {"fetching"}) /\ Begun'
    BY <1>3, <1>8, ChainSteps
  <2>2. PICK e \in chain[c].todo : /\ dir' = [dir EXCEPT ![e] = "partial"]
                                   /\ tangled' \in BOOLEAN
    BY <1>6, <1>8 DEF Fetch
  <2>3. e \in Envs
    BY <1>1 DEF Work
  <2> QED
    BY <1>4, <1>5, <1>6, <1>8, <2>1, <2>2, <2>3 DEF Fetch, bounds
<1>9. CASE Fetched(c)
  <2>1. chain[c].env \in Envs
    BY <1>1, <1>9 DEF Fetched, Begun, WorksNow, AtWork
  <2>2. Sets(c, {"unpacking"}) /\ Begun'
    BY <1>3, <1>9, <2>1, ChainSteps
  <2>3. dir' \in Dirs
    BY <1>1, <1>9, <2>1 DEF Fetched
  <2> QED
    BY <1>4, <1>6, <1>9, <2>2, <2>3 DEF Fetched, bounds
<1>10. CASE FetchFails(c)
  <2>1. Sets(c, {"stuck"}) /\ Begun'
    BY <1>2, <1>10, ChainSteps DEF AtWork
  <2>2. dir' = [dir EXCEPT ![chain[c].env] = "partial"]
    BY <1>10 DEF FetchFails
  <2>3. dir' \in Dirs
    BY <1>5, <1>6, <2>2
  <2>4. failures' \in 0..MaxFailures
    BY <1>6, <1>10 DEF FetchFails, EnvSyncAssumption
  <2> QED
    BY <1>4, <1>6, <1>10, <2>1, <2>3, <2>4 DEF FetchFails
<1>11. ASSUME GiveUp(c),
              failures' \in 0..MaxFailures, tangled' \in BOOLEAN,
              UNCHANGED <<server, envs, boot, dying, changes, cuts>>
       PROVE  SyncTyped'
  <2>1. Sets(c, {"ready"}) /\ Begun'
    BY <1>2, <1>11, ChainSteps DEF AtWork
  <2>2. dir' \in Dirs
    BY <1>5, <1>6, <1>11 DEF GiveUp, RemoveDir
  <2> QED
    BY <1>4, <1>11, <2>1, <2>2
<1>12. CASE Unpack(c)
  <2>1. CASE GiveUp(c)
    BY <1>6, <1>11, <1>12, <2>1 DEF Unpack, bounds
  <2>2. CASE /\ dir' = [dir EXCEPT ![chain[c].env] = "whole"]
             /\ chain' = [chain EXCEPT ![c].stage = "starting"]
    <3>0. chain[c] \in Work /\ "starting" \in WorkStages
      BY <1>1 DEF WorkStages
    <3>1. /\ [chain[c] EXCEPT !.stage = "starting"] \in Work
          /\ [chain[c] EXCEPT !.stage = "starting"].stage = "starting"
          /\ [chain[c] EXCEPT !.stage = "starting"].env = chain[c].env
      BY <3>0, WorkRecords DEF Work
    <3>2. Sets(c, WorkStages) /\ chain'[c].env = chain[c].env
      BY <1>1, <2>2, <3>0, <3>1 DEF Sets, KeepsStage
    <3>3. chain[c].env \in Envs
      BY <1>1, <1>12 DEF Unpack, Begun, WorksNow, AtWork
    <3>4. Begun'
      BY <1>3, <3>2, <3>3
    <3>5. dir' \in Dirs
      BY <1>5, <1>6, <2>2
    <3> QED
      BY <1>4, <1>6, <1>12, <3>2, <3>4, <3>5 DEF Unpack, bounds
  <2> QED
    BY <1>12, <2>1, <2>2 DEF Unpack
<1>13. CASE UnpackFails(c)
  <2>1. failures' \in 0..MaxFailures
    BY <1>6, <1>13 DEF UnpackFails, EnvSyncAssumption
  <2> QED
    BY <1>6, <1>11, <1>13, <2>1 DEF UnpackFails
<1>14. CASE VmReady(c)
  <2>1. Sets(c, {"ready"}) /\ Begun'
    BY <1>2, <1>14, ChainSteps DEF AtWork
  <2>2. envs' \subseteq Envs
    BY <1>1, <1>14
       DEF VmReady, Begun, WorksNow, AtWork, SyncTypeOK
  <2> QED
    BY <1>1, <1>14, <2>1, <2>2
       DEF Sets, VmReady, SyncTyped, SyncTypeOK, server, connection, bounds
<1>15. CASE VmNeverReady(c)
  <2>1. Sets(c, {"stuck"}) /\ Begun'
    BY <1>2, <1>15, ChainSteps DEF AtWork
  <2>2. failures' \in 0..MaxFailures
    BY <1>6, <1>15 DEF VmNeverReady, EnvSyncAssumption
  <2> QED
    BY <1>1, <1>4, <1>6, <1>15, <2>1, <2>2 DEF VmNeverReady
<1>16. CASE Finish(c)
  <2>1. Sets(c, {"informing"}) /\ Begun'
    BY <1>2, <1>16, ChainSteps DEF AtWork
  <2> QED
    BY <1>1, <1>4, <1>6, <1>16, <2>1 DEF Finish, bounds
<1>17. CASE Inform(c)
  <2>1. Sets(c, {"off"}) /\ Begun'
    BY <1>2, <1>17, ChainSteps DEF AtWork
  <2>2. reports' \in Seq(SUBSET Envs)
    BY <1>1, <1>17, AppendProperties DEF Inform, SyncTypeOK
  <2> QED
    BY <1>1, <1>17, <2>1, <2>2
       DEF Sets, Inform, SyncTyped, SyncTypeOK, connection, bounds
<1> QED
  BY <1>7, <1>8, <1>9, <1>10, <1>12, <1>13, <1>14, <1>15, <1>16, <1>17
     DEF WorkStep

LEMMA SyncTypesKept ==
  ASSUME EnvSyncAssumption, SyncTyped, [SyncNext]_(syncVars)
  PROVE  SyncTyped'
<1>1. CASE UNCHANGED syncVars
  BY <1>1 DEF syncVars, server, connection, builder, bounds, SyncTyped,
              SyncTypeOK, Begun, WorksNow
<1>2. CASE SyncNext
  BY <1>2, LinkStepsKeepTypes, EnvStepsKeepTypes, WorkStepsKeepTypes
     DEF SyncNext
<1> QED
  BY <1>1, <1>2

-----------------------------------------------------------------------------
(* Whole environments: as long as no fetch met another one, who works in a *)
(* directory is alone there.                                               *)

Apart ==
  /\ \A e \in envs : dir[e] = "whole"
  /\ envs \cap dying = {}
  /\ \A c \in Chains : WorksNow(c) => chain[c].env \notin envs \cup dying
  /\ \A c, d \in Chains :
       WorksNow(c) /\ WorksNow(d) /\ chain[c].env = chain[d].env => c = d
  /\ \A c \in Chains :
       chain[c].stage = "starting" => dir[chain[c].env] = "whole"

(* A step in which no chain but c goes on, in the same environment or not  *)
(* at work any more, and no other chain's directory changes.               *)
LEMMA ChainKeepsApart ==
  ASSUME SyncTyped, Apart, NEW c \in Chains, NEW S, Sets(c, S),
         S \cap AtWork = {} \/ (WorksNow(c) /\ chain'[c].env = chain[c].env),
         \A e \in Envs : e # chain[c].env \/ ~WorksNow(c) => dir'[e] = dir[e],
         chain'[c].stage = "starting" => dir'[chain'[c].env] = "whole",
         UNCHANGED <<envs, dying>>
  PROVE  Apart'
<1>1. /\ envs \subseteq Envs /\ dying \subseteq Envs
      /\ \A d \in Chains : WorksNow(d) => chain[d].env \in Envs
  BY DEF SyncTyped, SyncTypeOK, Begun
<1>2. \A d \in Chains :
        WorksNow(d)' => WorksNow(d) /\ chain'[d].env = chain[d].env
  BY DEF Sets, KeepsStage, WorksNow
<1>3. \A e \in envs : dir'[e] = dir[e]
  BY <1>1 DEF Apart
<1>4. ASSUME NEW d \in Chains, chain'[d].stage = "starting"
      PROVE  dir'[chain'[d].env] = "whole"
  <2>1. CASE d = c
    BY <1>4, <2>1
  <2>2. CASE d # c
    <3>1. chain[d].stage = "starting" /\ chain'[d].env = chain[d].env
      BY <1>4, <2>2 DEF Sets, KeepsStage
    <3>2. WorksNow(d) /\ dir[chain[d].env] = "whole"
      BY <3>1 DEF Apart, WorksNow, AtWork
    <3>3. chain[d].env # chain[c].env \/ ~WorksNow(c)
      BY <2>2, <3>2 DEF Apart
    <3> QED
      BY <1>1, <3>1, <3>2, <3>3
  <2> QED
    BY <2>1, <2>2
<1> QED
  BY <1>2, <1>3, <1>4 DEF Apart

FilesInv == SyncTyped /\ (~tangled => Apart)

(* The steps of a chain. *)
LEMMA WorkStepsKeepFiles ==
  ASSUME FilesInv, ~tangled', NEW c \in Chains,
         \/ Get(c) \/ WorkStep(c)
         \/ FetchFails(c) \/ UnpackFails(c) \/ VmNeverReady(c)
  PROVE  Apart'
<1>1. /\ chain \in [Chains -> Work] /\ SyncTyped
      /\ dir \in [Envs -> {"none", "partial", "archive", "whole"}]
      /\ chain[c].env \in Envs \cup {"none"}
  BY DEF FilesInv, SyncTyped, SyncTypeOK, Work
<1>2. ~tangled /\ Apart
  <2>1. CASE Fetch(c)
    <3>1. ~tangled
      BY <2>1 DEF Fetch
    <3> QED
      BY <3>1 DEF FilesInv
  <2>2. CASE \/ Get(c) \/ FetchFails(c) \/ UnpackFails(c)
             \/ VmNeverReady(c) \/ Inform(c)
    BY <2>2 DEF FilesInv, Get, FetchFails, UnpackFails,
                VmNeverReady, Inform
  <2>3. CASE Fetched(c) \/ Unpack(c) \/ VmReady(c) \/ Finish(c)
    BY <2>3 DEF FilesInv, Fetched, Unpack, VmReady, Finish
  <2> QED
    BY <2>1, <2>2, <2>3 DEF WorkStep
<1>3. ASSUME GiveUp(c), chain[c].stage = "unpacking",
             UNCHANGED <<envs, dying>>
      PROVE  Apart'
  <2>1. Sets(c, {"ready"}) /\ WorksNow(c)
    BY <1>1, <1>3, ChainSteps DEF WorksNow, AtWork
  <2>2. \A e \in Envs : e # chain[c].env => dir'[e] = dir[e]
    BY <1>1, <1>3 DEF GiveUp, RemoveDir
  <2> QED
    BY <1>1, <1>2, <1>3, <2>1, <2>2, ChainKeepsApart DEF Sets, AtWork
<1>4. CASE Get(c)
  <2>1. Sets(c, {"ready"})
    BY <1>1, <1>4, ChainSteps
  <2> QED
    BY <1>1, <1>2, <1>4, <2>1, ChainKeepsApart
       DEF Get, Sets, AtWork
<1>5. CASE Fetch(c)
  <2>1. PICK e \in chain[c].todo :
          /\ chain' = [Strand(chain, e) EXCEPT ![c] =
                        [stage |-> "fetching", todo |-> chain[c].todo \ {e},
                         env |-> e, lost |-> FALSE]]
          /\ dir' = [dir EXCEPT ![e] = "partial"]
          /\ e \notin envs \cup dying
          /\ \A d \in Chains \ {c} : WorksNow(d) => chain[d].env # e
    BY <1>5 DEF Fetch, WorksNow
  <2>2. Sets(c, {"fetching"}) /\ chain'[c].env = e /\ e \in Envs
    <3>1. chain'[c].env = e
      BY <1>1, <2>1, StrandIs
    <3> QED
      BY <1>1, <1>5, <3>1, ChainSteps
  <2>3. \A d \in Chains :
          WorksNow(d)' => \/ d = c
                        \/ /\ WorksNow(d) /\ chain'[d].env = chain[d].env
                           /\ chain[d].env # e
                           /\ chain'[d].stage = chain[d].stage
    BY <2>1, <2>2 DEF Sets, KeepsStage, WorksNow
  <2>4. UNCHANGED <<envs, dying>> /\ \A x \in Envs \ {e} : dir'[x] = dir[x]
    BY <1>1, <1>5, <2>1 DEF Fetch
  <2>5. /\ envs \subseteq Envs
        /\ \A d \in Chains : WorksNow(d) => chain[d].env \in Envs
    BY <1>1 DEF SyncTyped, SyncTypeOK, Begun
  <2>6. ASSUME NEW d \in Chains, chain'[d].stage = "starting"
        PROVE  dir'[chain'[d].env] = "whole"
    <3>1. d # c /\ WorksNow(d)'
      BY <2>2, <2>6 DEF Sets, WorksNow, AtWork
    <3> QED
      BY <1>2, <2>3, <2>4, <2>5, <2>6, <3>1 DEF Apart
  <2>7. \A x \in envs' : dir'[x] = "whole"
    BY <1>2, <2>1, <2>4, <2>5 DEF Apart
  <2>8. \A d \in Chains : WorksNow(d)' => chain'[d].env \notin envs' \cup dying'
    BY <1>2, <2>1, <2>2, <2>3, <2>4 DEF Apart
  <2>9. \A d, f \in Chains :
          WorksNow(d)' /\ WorksNow(f)' /\ chain'[d].env = chain'[f].env => d = f
    BY <1>2, <2>2, <2>3 DEF Apart
  <2> QED
    BY <1>2, <2>4, <2>6, <2>7, <2>8, <2>9 DEF Apart
<1>6. CASE Fetched(c)
  <2>1. /\ Sets(c, {"unpacking"}) /\ chain'[c].env = chain[c].env
        /\ WorksNow(c)
    BY <1>1, <1>6, ChainSteps DEF Fetched, WorksNow, AtWork
  <2>2. \A e \in Envs : e # chain[c].env => dir'[e] = dir[e]
    BY <1>1, <1>6 DEF Fetched
  <2> QED
    BY <1>1, <1>2, <1>6, <2>1, <2>2, ChainKeepsApart DEF Sets, Fetched
<1>7. CASE FetchFails(c)
  <2>1. Sets(c, {"stuck"}) /\ WorksNow(c)
    BY <1>1, <1>7, ChainSteps DEF FetchFails, WorksNow, AtWork
  <2>2. \A e \in Envs : e # chain[c].env => dir'[e] = dir[e]
    BY <1>1, <1>7 DEF FetchFails
  <2> QED
    BY <1>1, <1>2, <1>7, <2>1, <2>2, ChainKeepsApart
       DEF Sets, FetchFails, AtWork
<1>8. CASE Unpack(c)
  <2>1. CASE GiveUp(c)
    BY <1>3, <1>8, <2>1 DEF Unpack
  <2>2. CASE /\ dir' = [dir EXCEPT ![chain[c].env] = "whole"]
             /\ chain' = [chain EXCEPT ![c].stage = "starting"]
    <3>0. /\ chain[c] \in Work /\ "starting" \in WorkStages
          /\ WorksNow(c) /\ chain[c].env \in Envs
      BY <1>1, <1>8
         DEF Unpack, WorkStages, WorksNow, AtWork, SyncTyped, Begun
    <3>1. /\ [chain[c] EXCEPT !.stage = "starting"] \in Work
          /\ [chain[c] EXCEPT !.stage = "starting"].stage = "starting"
          /\ [chain[c] EXCEPT !.stage = "starting"].env = chain[c].env
      BY <3>0, WorkRecords DEF Work
    <3>2. Sets(c, {"starting"}) /\ chain'[c].env = chain[c].env
      BY <1>1, <2>2, <3>0, <3>1 DEF Sets, KeepsStage
    <3>3. /\ \A e \in Envs : e # chain[c].env => dir'[e] = dir[e]
          /\ dir'[chain[c].env] = "whole"
      BY <1>1, <2>2, <3>0
    <3>4. UNCHANGED <<envs, dying>>
      BY <1>8 DEF Unpack
    <3> QED
      BY <1>1, <1>2, <3>0, <3>2, <3>3, <3>4, ChainKeepsApart
  <2> QED
    BY <1>8, <2>1, <2>2 DEF Unpack
<1>9. CASE UnpackFails(c)
  BY <1>3, <1>9 DEF UnpackFails
<1>10. CASE VmReady(c)
  <2>1. Sets(c, {"ready"}) /\ WorksNow(c) /\ chain[c].stage = "starting"
    BY <1>1, <1>10, ChainSteps DEF VmReady, WorksNow, AtWork
  <2>2. envs' = envs \cup {chain[c].env} /\ UNCHANGED <<dir, dying>>
    BY <1>10 DEF VmReady
  <2>3. \A d \in Chains :
          WorksNow(d)' => /\ WorksNow(d) /\ chain'[d].env = chain[d].env
                        /\ chain'[d].stage = chain[d].stage /\ d # c
    BY <2>1 DEF Sets, KeepsStage, WorksNow, AtWork
  <2>4. /\ \A e \in envs' : dir'[e] = "whole"
        /\ envs' \cap dying' = {}
    BY <1>2, <2>1, <2>2 DEF Apart
  <2>5. \A d \in Chains : WorksNow(d)' => chain'[d].env \notin envs' \cup dying'
    BY <1>2, <2>1, <2>2, <2>3 DEF Apart
  <2>6. \A d \in Chains :
          chain'[d].stage = "starting" => dir'[chain'[d].env] = "whole"
    <3>1. \A d \in Chains : chain'[d].stage = "starting" => WorksNow(d)'
      BY DEF WorksNow, AtWork
    <3> QED
      BY <1>2, <2>2, <2>3, <3>1 DEF Apart
  <2>7. \A d, f \in Chains :
          WorksNow(d)' /\ WorksNow(f)' /\ chain'[d].env = chain'[f].env => d = f
    BY <1>2, <2>3 DEF Apart
  <2> QED
    BY <2>4, <2>5, <2>6, <2>7 DEF Apart
<1>11. CASE VmNeverReady(c) \/ Finish(c) \/ Inform(c)
  <2>1. Sets(c, {"stuck", "informing", "off"})
    BY <1>1, <1>11, ChainSteps DEF Sets
  <2>2. UNCHANGED <<dir, envs, dying>>
    BY <1>11 DEF VmNeverReady, Finish, Inform
  <2> QED
    BY <1>1, <1>2, <2>1, <2>2, ChainKeepsApart DEF Sets, AtWork
<1> QED
  BY <1>4, <1>5, <1>6, <1>7, <1>8, <1>9, <1>10, <1>11 DEF WorkStep

(* All others. *)
LEMMA OtherStepsKeepFiles ==
  ASSUME FilesInv, ~tangled',
         \/ Hear \/ Connect \/ Cut \/ GhostCloses
         \/ SchedulerRestarts \/ BuilderRestarts \/ Drop
         \/ \E e \in Envs : \/ Gain(e) \/ VmExits(e)
                            \/ Boots(e) \/ NeverBoots(e)
         \/ UNCHANGED syncVars
  PROVE  Apart'
<1>1. /\ chain \in [Chains -> Work] /\ SyncTyped
      /\ dir \in [Envs -> {"none", "partial", "archive", "whole"}]
      /\ envs \subseteq Envs
      /\ \A d \in Chains : WorksNow(d) => chain[d].env \in Envs
  BY DEF FilesInv, SyncTyped, SyncTypeOK, Begun
<1>2. ASSUME UNCHANGED <<envs, dir, dying, chain, tangled>> PROVE Apart'
  BY <1>2 DEF FilesInv, Apart, WorksNow
<1>3. ASSUME \/ Hear \/ Connect \/ Cut \/ GhostCloses
             \/ SchedulerRestarts \/ UNCHANGED syncVars
      PROVE  Apart'
  BY <1>2, <1>3 DEF Hear, Connect, Cut, GhostCloses, SchedulerRestarts,
                    syncVars, builder
<1>4. ASSUME NEW e \in Envs,
             Gain(e) \/ Boots(e) \/ NeverBoots(e)
      PROVE  Apart'
  BY <1>2, <1>4 DEF Gain, Boots, NeverBoots, builder
<1>5. CASE BuilderRestarts
  <2>1. /\ envs' = {e \in Envs : dir[e] = "whole"} /\ dying' = {}
        /\ \A e \in envs' : dir'[e] = "whole"
        /\ chain' = [c \in Chains |-> Off]
    BY <1>5 DEF BuilderRestarts
  <2>2. \A c \in Chains : ~WorksNow(c)' /\ chain'[c].stage # "starting"
    BY <2>1, WorkRecords DEF WorksNow, AtWork
  <2> QED
    BY <2>1, <2>2 DEF Apart
<1>6. CASE Drop
  <2>1. PICK gone \in SUBSET envs :
          envs' = envs \ gone /\ dying' = dying \cup gone
    <3>1. Head(orders).list \cap envs \in SUBSET envs
      OBVIOUS
    <3> QED
      BY <1>6, <3>1 DEF Drop
  <2>2. UNCHANGED <<dir, chain, tangled>>
    BY <1>6 DEF Drop
  <2> QED
    BY <2>1, <2>2 DEF FilesInv, Apart, WorksNow
<1>7. ASSUME NEW e \in Envs, VmExits(e) PROVE Apart'
  <2>1. /\ e \in dying /\ dying' = dying \ {e} /\ UNCHANGED <<envs, tangled>>
        /\ \A x \in Envs \ {e} : dir'[x] = dir[x]
    BY <1>1, <1>7 DEF VmExits, RemoveDir
  <2>2. Apart /\ e \notin envs
    BY <2>1 DEF FilesInv, Apart
  <2>3. \A d \in Chains : KeepsStage(d) /\ (WorksNow(d) => chain[d].env # e)
    BY <1>1, <1>7, <2>1, <2>2, StrandIs DEF VmExits, KeepsStage, Apart
  <2>4. \A d \in Chains : chain[d].stage = "starting" => WorksNow(d)
    BY DEF WorksNow, AtWork
  <2>5. \A d \in Chains :
          /\ WorksNow(d)' <=> WorksNow(d)
          /\ chain'[d].env = chain[d].env /\ chain'[d].stage = chain[d].stage
    BY <2>3 DEF KeepsStage, WorksNow
  <2>6. /\ \A x \in envs' : dir'[x] = "whole"
        /\ envs' \cap dying' = {}
    BY <1>1, <2>1, <2>2 DEF Apart
  <2>7. /\ \A c \in Chains :
             WorksNow(c)' => chain'[c].env \notin envs' \cup dying'
        /\ \A c, d \in Chains :
             WorksNow(c)' /\ WorksNow(d)' /\ chain'[c].env = chain'[d].env => c = d
    BY <2>1, <2>2, <2>5 DEF Apart
  <2>8. \A c \in Chains :
          chain'[c].stage = "starting" => dir'[chain'[c].env] = "whole"
    BY <1>1, <2>1, <2>2, <2>3, <2>4, <2>5 DEF Apart
  <2> QED
    BY <2>6, <2>7, <2>8 DEF Apart
<1> QED
  BY <1>3, <1>4, <1>5, <1>6, <1>7

(***************************************************************************)
(* Jobs are compiled in environments that are there and whole, until a     *)
(* fetch meets an environment that the builder has, that is going down or  *)
(* that another chain fetches (EnvSync's EnvsAreWhole).                    *)
(***************************************************************************)
THEOREM EnvironmentsAreWhole ==
  ASSUME EnvSyncAssumption
  PROVE  SyncSpec => []EnvsAreWhole
<1>1. SyncInit => FilesInv
  <2> SUFFICES ASSUME SyncInit PROVE FilesInv
    OBVIOUS
  <2>1. SyncTyped
    BY SyncTypesBegin
  <2>2. \A c \in Chains : ~WorksNow(c) /\ chain[c].stage # "starting"
    BY WorkRecords DEF SyncInit, WorksNow, AtWork
  <2>3. (\A e \in envs : dir[e] = "whole") /\ dying = {}
    BY DEF SyncInit
  <2> QED
    BY <2>1, <2>2, <2>3 DEF FilesInv, Apart
<1>2. FilesInv /\ [SyncNext]_(syncVars) => FilesInv'
  <2> SUFFICES ASSUME FilesInv, [SyncNext]_(syncVars) PROVE FilesInv'
    OBVIOUS
  <2>1. SyncTyped'
    BY SyncTypesKept DEF FilesInv
  <2>2. ASSUME ~tangled' PROVE Apart'
    BY <2>2, WorkStepsKeepFiles, OtherStepsKeepFiles DEF SyncNext
  <2> QED
    BY <2>1, <2>2 DEF FilesInv
<1>3. FilesInv => EnvsAreWhole
  BY DEF FilesInv, SyncTyped, Apart, EnvsAreWhole
<1> QED
  BY <1>1, <1>2, <1>3, PTL DEF SyncSpec

-----------------------------------------------------------------------------
(* Agreement of the scheduler and the builder.                             *)

(* Of a builder in the registry, the scheduler knows of nothing it does    *)
(* not have, and nothing it has is going to be dropped for good there.     *)
LinkInv ==
  /\ ~linked => orders = <<>> /\ reports = <<>> /\ belief = {} /\ ~listed
  /\ listed => belief \subseteq data
  /\ listed => InOrder(orders, data)

(* No chain is active or ordered: what the builder has is known to the     *)
(* scheduler, but for the drops that are on their way, or a report is.     *)
Settled == Idle /\ ~Gets(orders)
Known == belief = data /\ envs \ Dropped(orders) = data
Reported(r) == r \cap data \subseteq envs /\ envs \subseteq r
SettledInv ==
  listed /\ Settled =>
    IF reports = <<>> THEN Known ELSE Reported(reports[Len(reports)])

AgreeInv == SyncTyped /\ LinkInv /\ SettledInv

LEMMA NoOrders ==
  /\ \A S : InOrder(<<>>, S)
  /\ ~Gets(<<>>) /\ Dropped(<<>>) = {}
BY DEF InOrder, Gets, Dropped

LEMMA SchedulerStepsKeepAgreement ==
  ASSUME AgreeInv,
         Hear \/ Connect \/ (\E e \in Envs : Gain(e))
  PROVE  LinkInv' /\ SettledInv'
<1>1. /\ SyncTyped /\ LinkInv /\ SettledInv
      /\ data \subseteq Envs /\ belief \subseteq Envs /\ envs \subseteq Envs
      /\ reports \in Seq(SUBSET Envs) /\ orders \in Seq(Order)
  BY DEF AgreeInv, SyncTyped, SyncTypeOK
<1>2. ASSUME NEW e \in Envs, Gain(e) PROVE LinkInv' /\ SettledInv'
  <2>1. CASE listed
    <3>1. PICK T \in SUBSET Envs : T = data'
      BY <1>1, <1>2, GainIs
    <3>2. /\ linked' /\ listed' /\ Syncs(T, belief, orders)
          /\ UNCHANGED <<reports, envs, chain>>
      BY <1>1, <1>2, <2>1, <3>1, GainIs DEF LinkInv
    <3>3. InOrder(orders, T) \/ T \ belief # {}
      <4>1. T \ belief = {} => T \subseteq data
        BY <1>1, <2>1 DEF LinkInv
      <4> QED
        BY <1>1, <2>1, <4>1 DEF LinkInv, InOrder
    <3>4. LinkInv'
      <4>1. belief' \subseteq T /\ InOrder(orders', T)
        BY <3>2, <3>3 DEF Syncs
      <4> QED
        BY <3>1, <3>2, <4>1 DEF LinkInv
    <3>5. ASSUME Settled'
          PROVE  /\ Settled /\ T \subseteq belief /\ belief \subseteq data
                 /\ belief' = T
                 /\ Dropped(orders') = Dropped(orders) \cup (belief \ T)
      BY <1>1, <2>1, <3>2, <3>5 DEF Syncs, Settled, Idle, LinkInv
    <3>6. ASSUME Settled', reports = <<>> PROVE Known'
      <4>1. belief = data /\ envs \ Dropped(orders) = data
        BY <1>1, <2>1, <3>5, <3>6 DEF SettledInv, Known
      <4> QED
        BY <3>1, <3>2, <3>5, <3>6, <4>1 DEF Known
    <3>7. ASSUME Settled', reports # <<>>, NEW last, last = reports[Len(reports)]
          PROVE  Reported(last)'
      <4>1. Reported(last)
        BY <1>1, <2>1, <3>5, <3>7 DEF SettledInv
      <4> QED
        BY <3>1, <3>2, <3>5, <3>7, <4>1 DEF Reported
    <3>8. ASSUME Settled' PROVE IF reports' = <<>> THEN Known'
                                ELSE Reported(reports[Len(reports)])'
      BY <3>2, <3>6, <3>7, <3>8 DEF Reported
    <3> QED
      BY <3>4, <3>8 DEF SettledInv
  <2>2. CASE ~listed
    <3>1. UNCHANGED <<linked, listed, orders, reports, belief>>
      BY <1>1, <1>2, <2>2, GainIs
    <3> QED
      BY <1>1, <2>2, <3>1 DEF LinkInv, SettledInv
  <2> QED
    BY <2>1, <2>2
<1>3. CASE Connect
  <2>1. /\ linked' /\ listed' /\ reports' = <<>> /\ data' = data /\ envs' = envs
        /\ Syncs(data, envs, <<>>)
    BY <1>1, <1>3, ConnectIs DEF LinkInv
  <2>2. LinkInv'
    <3>1. belief' \subseteq data /\ InOrder(orders', data)
      BY <2>1, NoOrders DEF Syncs
    <3> QED
      BY <2>1, <3>1 DEF LinkInv
  <2>3. ASSUME Settled' PROVE Known'
    <3>1. data \subseteq envs
      BY <2>1, <2>3 DEF Syncs, Settled
    <3>2. belief' = data /\ Dropped(orders') = envs \ data
      BY <2>1, <3>1, NoOrders DEF Syncs
    <3> QED
      BY <2>1, <3>1, <3>2 DEF Known
  <2> QED
    BY <2>1, <2>2, <2>3 DEF SettledInv
<1>4. CASE Hear
  <2> DEFINE r == Head(reports)
  <2>1. /\ reports # <<>> /\ reports' = Tail(reports)
        /\ linked' = linked /\ listed' = listed /\ data' = data
        /\ envs' = envs /\ chain' = chain
        /\ Syncs(data, r, orders) /\ linked
    BY <1>1, <1>4, HearIs DEF LinkInv
  <2>2. LinkInv'
    <3>1. belief' \subseteq data
      BY <2>1 DEF Syncs
    <3>2. listed => InOrder(orders', data)
      BY <1>1, <2>1 DEF Syncs, LinkInv
    <3> QED
      BY <1>1, <2>1, <3>1, <3>2 DEF LinkInv
  <2>3. ASSUME listed, Settled'
        PROVE  /\ Settled /\ data \subseteq r
               /\ Reported(reports[Len(reports)])
               /\ Dropped(orders) \cap data = {}
    <3>1. Settled /\ data \subseteq r
      BY <2>1, <2>3 DEF Syncs, Settled, Idle
    <3>2. Reported(reports[Len(reports)])
      BY <1>1, <2>1, <2>3, <3>1 DEF SettledInv
    <3>3. ASSUME NEW i \in 1..Len(orders), orders[i].type = "drop"
          PROVE  orders[i].list \cap data = {}
      <4>1. InOrder(orders, data) /\ ~Gets(orders)
        BY <1>1, <2>3, <3>1 DEF LinkInv, Settled
      <4>2. \A j \in i+1..Len(orders) : j \in 1..Len(orders)
        BY <1>1, LenProperties
      <4> QED
        BY <3>3, <4>1, <4>2 DEF InOrder, Gets
    <3>4. Dropped(orders) \cap data = {}
      BY <3>3 DEF Dropped
    <3> QED
      BY <3>1, <3>2, <3>4
  <2>4. ASSUME listed, Settled', reports' = <<>> PROVE Known'
    <3>1. Len(reports) = 1 /\ reports[Len(reports)] = r
      <4>1. /\ Len(reports) \in Nat /\ Len(Tail(reports)) = Len(reports) - 1
            /\ Head(reports) = reports[1]
        BY <1>1, <2>1, HeadTailProperties, LenProperties
      <4>2. Len(Tail(reports)) = 0
        BY <2>1, <2>4, EmptySeq
      <4> QED
        BY <4>1, <4>2
    <3>2. /\ r \cap data \subseteq envs /\ envs \subseteq r /\ data \subseteq r
          /\ Dropped(orders) \cap data = {}
      BY <2>3, <2>4, <3>1 DEF Reported
    <3>3. belief' = data /\ Dropped(orders') = Dropped(orders) \cup (r \ data)
      BY <2>1, <3>2 DEF Syncs
    <3>4. envs \ Dropped(orders') = data
      BY <3>2, <3>3
    <3> QED
      BY <2>1, <3>3, <3>4 DEF Known
  <2>5. ASSUME listed, Settled', reports' # <<>>,
               NEW last, last = reports'[Len(reports')]
        PROVE  Reported(last)'
    <3>1. last = reports[Len(reports)]
      <4>1. /\ Len(reports) \in Nat /\ Len(Tail(reports)) = Len(reports) - 1
            /\ Tail(reports) \in Seq(SUBSET Envs)
            /\ \A i \in 1..Len(Tail(reports)) : Tail(reports)[i] = reports[i+1]
        BY <1>1, <2>1, HeadTailProperties, LenProperties
      <4>2. Len(Tail(reports)) >= 1
        BY <2>1, <2>5, <4>1, EmptySeq, LenProperties
      <4> QED
        BY <2>1, <2>5, <4>1, <4>2
    <3>2. Reported(last)
      BY <2>3, <2>5, <3>1
    <3> QED
      BY <2>1, <3>2 DEF Reported
  <2>6. ASSUME listed, Settled'
        PROVE  IF reports' = <<>> THEN Known'
               ELSE Reported(reports[Len(reports)])'
    BY <2>4, <2>5, <2>6 DEF Reported
  <2> QED
    BY <2>1, <2>2, <2>6 DEF SettledInv
<1> QED
  BY <1>2, <1>3, <1>4

LEMMA BuilderStepsKeepAgreement ==
  ASSUME AgreeInv,
         \/ Cut \/ GhostCloses \/ SchedulerRestarts \/ BuilderRestarts
         \/ Drop \/ UNCHANGED syncVars
         \/ \E e \in Envs : \/ VmExits(e)
                            \/ Boots(e) \/ NeverBoots(e)
  PROVE  LinkInv' /\ SettledInv'
<1>1. /\ SyncTyped /\ LinkInv /\ SettledInv
      /\ data \subseteq Envs /\ belief \subseteq Envs /\ envs \subseteq Envs
      /\ reports \in Seq(SUBSET Envs) /\ orders \in Seq(Order)
      /\ chain \in [Chains -> Work]
  BY DEF AgreeInv, SyncTyped, SyncTypeOK
<1>2. CASE Cut \/ SchedulerRestarts \/ BuilderRestarts
  <2>1. /\ ~linked' /\ ~listed'
        /\ orders' = <<>> /\ reports' = <<>> /\ belief' = {}
    BY <1>2 DEF Cut, SchedulerRestarts, BuilderRestarts, Unlinked
  <2> QED
    BY <2>1, NoOrders DEF LinkInv, SettledInv
<1>8. CASE GhostCloses
  <2>1. ~listed' /\ UNCHANGED <<linked, orders, reports, belief>>
    BY <1>8 DEF GhostCloses
  <2> QED
    BY <1>1, <2>1 DEF LinkInv, SettledInv
<1>3. ASSUME UNCHANGED <<server, envs>>, Idle' <=> Idle
      PROVE  LinkInv' /\ SettledInv'
  <2>1. LinkInv'
    BY <1>1, <1>3 DEF server, connection, LinkInv
  <2> QED
    BY <1>1, <1>3, <2>1
       DEF server, connection, SettledInv, Settled, Known, Reported
<1>4. CASE UNCHANGED syncVars
  BY <1>3, <1>4 DEF syncVars, builder, Idle
<1>5. ASSUME NEW e \in Envs, Boots(e) \/ NeverBoots(e)
      PROVE  LinkInv' /\ SettledInv'
  BY <1>3, <1>5 DEF Boots, NeverBoots, Idle
<1>6. ASSUME NEW e \in Envs, VmExits(e)
      PROVE  LinkInv' /\ SettledInv'
  <2>1. \A c \in Chains : chain'[c].stage = chain[c].stage
    BY <1>1, <1>6, StrandIs DEF VmExits
  <2> QED
    BY <1>3, <1>6, <2>1 DEF VmExits, Idle
<1>7. CASE Drop
  <2>1. PICK h, t : h = Head(orders) /\ t = Tail(orders)
    OBVIOUS
  <2>2. /\ orders # <<>> /\ h.type = "drop" /\ orders' = t
        /\ envs' = envs \ (h.list \cap envs)
        /\ UNCHANGED <<data, belief, linked, listed, reports, chain>>
    BY <1>7, <2>1 DEF Drop, connection
  <2>3. /\ listed => InOrder(t, data)
        /\ t \in Seq(Order)
        /\ listed /\ ~Gets(orders) => h.list \cap data = {}
        /\ Gets(orders) <=> Gets(t)
        /\ Dropped(orders) = Dropped(t) \cup h.list
    BY <1>1, <2>1, <2>2, OrdersHandled DEF LinkInv
  <2>4. LinkInv'
    BY <1>1, <2>2, <2>3 DEF LinkInv
  <2>5. ASSUME listed', Settled'
        PROVE  IF reports' = <<>> THEN Known' ELSE Reported(reports[Len(reports)])'
    <3>1. listed /\ Settled /\ h.list \cap data = {}
      BY <2>2, <2>3, <2>5 DEF Settled, Idle
    <3>2. CASE reports = <<>>
      BY <1>1, <2>2, <2>3, <3>1, <3>2 DEF SettledInv, Known
    <3>3. CASE reports # <<>>
      BY <1>1, <2>2, <3>1, <3>3 DEF SettledInv, Reported
    <3> QED
      BY <2>2, <3>2, <3>3
  <2> QED
    BY <2>2, <2>4, <2>5 DEF SettledInv, Reported
<1> QED
  BY <1>2, <1>4, <1>5, <1>6, <1>7, <1>8

LEMMA WorkStepsKeepAgreement ==
  ASSUME AgreeInv, NEW c \in Chains,
         \/ Get(c) \/ WorkStep(c)
         \/ FetchFails(c) \/ UnpackFails(c) \/ VmNeverReady(c)
  PROVE  LinkInv' /\ SettledInv'
<1>1. /\ SyncTyped /\ LinkInv /\ SettledInv
      /\ data \subseteq Envs /\ belief \subseteq Envs /\ envs \subseteq Envs
      /\ reports \in Seq(SUBSET Envs) /\ orders \in Seq(Order)
      /\ chain \in [Chains -> Work]
  BY DEF AgreeInv, SyncTyped, SyncTypeOK
<1>2. CASE Get(c)
  <2>1. PICK h, t : h = Head(orders) /\ t = Tail(orders)
    OBVIOUS
  <2>2. /\ orders # <<>> /\ orders' = t
        /\ UNCHANGED <<data, belief, linked, listed, reports>>
    BY <1>2, <2>1 DEF Get, connection
  <2>3. (listed => InOrder(t, data)) /\ ~Idle'
    BY <1>1, <1>2, <2>1, <2>2, OrdersHandled, ChainSteps
       DEF LinkInv, Sets, Idle
  <2>4. linked
    BY <1>1, <2>2 DEF LinkInv
  <2> QED
    BY <1>1, <2>2, <2>3, <2>4 DEF LinkInv, SettledInv, Settled
<1>3. ASSUME UNCHANGED server, ~Idle' PROVE LinkInv' /\ SettledInv'
  BY <1>1, <1>3 DEF server, connection, LinkInv, SettledInv, Settled
<1>4. CASE Fetch(c) \/ Fetched(c) \/ FetchFails(c)
  <2>1. Sets(c, WorkStages \ {"off"})
    BY <1>1, <1>4, ChainSteps DEF Sets, WorkStages
  <2> QED
    BY <1>3, <1>4, <2>1
       DEF Fetch, Fetched, FetchFails, Sets, Idle
<1>5. CASE VmReady(c) \/ VmNeverReady(c) \/ Finish(c)
  <2>1. Sets(c, WorkStages \ {"off"})
    BY <1>1, <1>5, ChainSteps DEF Sets, WorkStages
  <2> QED
    BY <1>3, <1>5, <2>1
       DEF VmReady, VmNeverReady, Finish, Sets, Idle
<1>6. CASE Unpack(c) \/ UnpackFails(c)
  <2>1. chain'[c].stage # "off"
    <3>1. CASE GiveUp(c)
      BY <1>1, <3>1, ChainSteps DEF Sets
    <3>2. CASE chain' = [chain EXCEPT ![c].stage = "starting"]
      <4>1. chain[c] \in Work /\ "starting" \in WorkStages
        BY <1>1 DEF WorkStages
      <4>2. [chain[c] EXCEPT !.stage = "starting"].stage = "starting"
        BY <4>1 DEF Work
      <4> QED
        BY <1>1, <3>2, <4>2
    <3> QED
      BY <1>6, <3>1, <3>2 DEF Unpack, UnpackFails
  <2> QED
    BY <1>3, <1>6, <2>1 DEF Unpack, UnpackFails, Idle
<1>7. CASE Inform(c)
  <2>1. /\ UNCHANGED <<data, belief, linked, listed, orders, envs>>
        /\ reports' = IF linked THEN Append(reports, envs) ELSE reports
    BY <1>7 DEF Inform, connection
  <2>2. CASE ~linked
    BY <1>1, <2>1, <2>2 DEF LinkInv, SettledInv
  <2>3. CASE linked
    <3>1. /\ reports' # <<>> /\ reports'[Len(reports')] = envs
      BY <1>1, <2>1, <2>3, AppendProperties, EmptySeq, LenProperties
    <3> QED
      BY <1>1, <2>1, <2>3, <3>1 DEF LinkInv, SettledInv, Reported
  <2> QED
    BY <2>2, <2>3
<1> QED
  BY <1>2, <1>4, <1>5, <1>6, <1>7 DEF WorkStep

(***************************************************************************)
(* When nothing is under way and no chain got stuck, the scheduler and a   *)
(* builder that is connected have the same environments and know it        *)
(* (EnvSync's QuietMeansSynced), whatever was uploaded, purged, cut or     *)
(* failed before: the one way to lose touch is the late close of an older  *)
(* connection, which takes the builder out of the registry.                *)
(***************************************************************************)
THEOREM QuietIsSynced ==
  ASSUME EnvSyncAssumption
  PROVE  SyncSpec => []QuietMeansSynced
<1>1. SyncInit => AgreeInv
  <2> SUFFICES ASSUME SyncInit PROVE AgreeInv
    OBVIOUS
  <2>1. SyncTyped
    BY SyncTypesBegin
  <2>2. /\ linked = FALSE /\ listed = FALSE
        /\ orders = <<>> /\ reports = <<>> /\ belief = {}
    BY DEF SyncInit
  <2> QED
    BY <2>1, <2>2, NoOrders DEF AgreeInv, LinkInv, SettledInv
<1>2. AgreeInv /\ [SyncNext]_(syncVars) => AgreeInv'
  <2> SUFFICES ASSUME AgreeInv, [SyncNext]_(syncVars) PROVE AgreeInv'
    OBVIOUS
  <2>1. SyncTyped'
    BY SyncTypesKept DEF AgreeInv
  <2>2. LinkInv' /\ SettledInv'
    BY SchedulerStepsKeepAgreement, BuilderStepsKeepAgreement,
       WorkStepsKeepAgreement DEF SyncNext
  <2> QED
    BY <2>1, <2>2 DEF AgreeInv
<1>3. AgreeInv => QuietMeansSynced
  BY NoOrders DEF AgreeInv, SettledInv, Settled, Known, QuietMeansSynced,
                  Ousted, Synced
<1> QED
  BY <1>1, <1>2, <1>3, PTL DEF SyncSpec
=============================================================================
