------------------------- MODULE BuilderQueueProofs -------------------------
(***************************************************************************)
(* Proofs about BuilderQueue, for any jobs, sources and number of slots:   *)
(* no slot is idle while a job waits, the queue and its jobs agree, the    *)
(* scheduler and the clients hear of each job what is so, orphans are      *)
(* cancelled, nothing is stuck, and what exceeds the slots.                *)
(*                                                                         *)
(* A handler changes the job it is about and may start one other job of    *)
(* the queue.  So the invariant is a predicate of one job (its record, and *)
(* whether it is in the queue), kept by both changes, and a count.         *)
(***************************************************************************)
EXTENDS BuilderQueue, KeySequences, FiniteSetTheorems, TLAPS

CacheType == [Md5s -> {"none", "pending", "exists"}]

(* What a job is like, in the queue or not. *)
Fits(r, in) ==
  /\ in => r.sock \in {"open", "closing"}
  /\ r.aborted => r.sock = "closed"
  /\ r.sock \in {"none", "upgraded"} => Waits(r) /\ ~r.done
  /\ r.op => ~r.fromCache
  /\ r.vm # "none" => r.op /\ r.uploaded
  /\ r.reading => r.fromCache
  /\ r.op /\ ~r.aborted /\ r.vm # "over" => in
  /\ r.reading /\ ~r.aborted => in
  /\ in => r.vm # "over"
  /\ in /\ r.done => r.failed
  /\ r.vm \in {"sent", "running"} => in \/ r.cancelled \/ r.failed
  /\ in /\ r.op /\ r.uploaded => r.vm # "none"
  /\ in /\ r.op => r.sock = "closing" \/ r.uploaded \/ (r.wait => r.resumed)
  /\ in /\ r.fromCache => r.sock = "closing" \/ r.reading

(* What was sent about it. *)
Heard(r, in) ==
  /\ Waits(r) => r.told = <<>> /\ r.answers = <<>>
  /\ r.op /\ in => r.told = <<"jobStarted">> /\ r.answers = <<>>
  /\ r.op /\ ~in =>
       \/ /\ r.told = <<"jobStarted", "jobFinished">>
          /\ r.answers \in {<<>>, <<"compiled">>}
          /\ r.uploaded
       \/ /\ r.told = <<"jobStarted", "jobAborted">>
          /\ r.answers \in {<<>>, <<"failed">>}
  /\ r.fromCache /\ in =>
       /\ r.told = <<>>
       /\ \/ r.answers = <<"header">>
          \/ r.answers = <<>> /\ r.sock # "open"
  /\ r.fromCache /\ ~in =>
       \/ r.told = <<>> /\ r.answers \in {<<>>, <<"header">>}
       \/ /\ r.told = <<"cacheHit">>
          /\ \/ r.answers \in {<<>>, <<"header", "cached">>}
             \/ r.answers = <<"header">> /\ r.sock # "open"

Job(r, in) == r \in JobRecord /\ Fits(r, in) /\ Heard(r, in)

(* Everything the theorems follow from, but for the number of slots. *)
JobsFit ==
  /\ TypeOK
  /\ Distinct(queue)
  /\ \A j \in Jobs : Job(job[j], j \in Queued)

QueueInv == JobsFit /\ NoIdleSlot

-----------------------------------------------------------------------------
(* The record of a job that start() makes of its record, in the three ways *)
(* Start has.                                                              *)
Compiled(r, alive) ==
  [r EXCEPT !.told = Append(@, "jobStarted"),
            !.op = TRUE,
            !.resumed = r.wait /\ r.sock = "open",
            !.vm = IF r.uploaded
                   THEN IF alive THEN "sent" ELSE "reportError" ELSE @]
Header(r) == IF r.sock = "open" THEN Append(r.answers, "header") ELSE r.answers
Read(r) ==
  [r EXCEPT !.answers = Header(r), !.fromCache = TRUE, !.reading = TRUE]
NotRead(r) ==
  [r EXCEPT !.answers = Header(r), !.fromCache = TRUE,
            !.sock = IF @ = "open" THEN "closing" ELSE @]
Started(r, alive) == {Compiled(r, alive), Read(r), NotRead(r)}

(* Start changes the job it starts, and may forget a cached object. *)
LEMMA StartIs ==
  ASSUME NEW js \in [Jobs -> JobRecord], NEW c \in CacheType,
         NEW j \in Jobs, BuilderAssumption, Start(js, c, j)
  PROVE  /\ \E r \in Started(js[j], vmAlive) : job' = [js EXCEPT ![j] = r]
         /\ cache' \in CacheType
<1>1. Compile(js, j) = [js EXCEPT ![j] = Compiled(js[j], vmAlive)]
  BY DEF Compile, Compiled, Tell, Feed, JobRecord
<1>2. ReadCache(js, j) = [js EXCEPT ![j] = Read(js[j])]
  BY DEF ReadCache, Read, Answer, Header, JobRecord
<1>3. CacheOpenFails(js, j) = [js EXCEPT ![j] = NotRead(js[j])]
  BY ZenonT(40) DEF CacheOpenFails, CloseSocket, NotRead, Answer, Header, JobRecord
<1>4. Md5[j] \in Md5s /\ Forget(c, Md5[j]) \in CacheType
  BY DEF BuilderAssumption, Forget, CacheType
<1>5. QED
  BY <1>1, <1>2, <1>3, <1>4 DEF Start, Started

(* What sequences of at most two entries become. *)
LEMMA Appends ==
  \A a, b : /\ Append(<<>>, a) = <<a>>
            /\ Append(<<a>>, b) = <<a, b>>
<1> TAKE a, b
<1> DEFINE S == {a, b}
<1>1. <<>> \in Seq(S) /\ <<a>> \in Seq(S) /\ <<a, b>> \in Seq(S)
  OBVIOUS
<1>2. /\ Append(<<>>, a) \in Seq(S) /\ Len(Append(<<>>, a)) = 1
      /\ Append(<<>>, a)[1] = a
  BY <1>1, AppendProperties
<1>3. /\ Append(<<a>>, b) \in Seq(S) /\ Len(Append(<<a>>, b)) = 2
      /\ Append(<<a>>, b)[1] = a /\ Append(<<a>>, b)[2] = b
  BY <1>1, AppendProperties
<1>4. Append(<<>>, a) = <<a>>
  <2>1. \A i \in 1..1 : Append(<<>>, a)[i] = <<a>>[i]
    BY <1>2
  <2>2. Len(<<a>>) = 1
    OBVIOUS
  <2> HIDE DEF S
  <2>3. QED
    BY <1>1, <1>2, <2>1, <2>2, SeqEqual
<1>5. Append(<<a>>, b) = <<a, b>>
  <2>1. \A i \in 1..2 : Append(<<a>>, b)[i] = <<a, b>>[i]
    BY <1>3
  <2>2. Len(<<a, b>>) = 2
    OBVIOUS
  <2> HIDE DEF S
  <2>3. QED
    BY <1>1, <1>3, <2>1, <2>2, SeqEqual
<1>6. QED
  BY <1>4, <1>5

(* A job that waited in the queue is a proper job when it was started. *)
LEMMA StartFits ==
  ASSUME NEW r, NEW alive \in BOOLEAN, Job(r, TRUE), Waits(r),
         NEW s \in Started(r, alive)
  PROVE  Job(s, TRUE) /\ ~Waits(s)
<1>1. r \in JobRecord /\ Fits(r, TRUE) /\ Heard(r, TRUE)
  BY DEF Job
<1>2. r.told = <<>> /\ r.answers = <<>> /\ ~r.op /\ ~r.fromCache
  BY <1>1 DEF Heard, Waits
<1>3. CASE s = Compiled(r, alive)
  <2>1. s.told = <<"jobStarted">> /\ s.answers = <<>>
    BY <1>1, <1>2, <1>3, Appends DEF Compiled, JobRecord
  <2>2. s \in JobRecord
    <3>1. Append(r.told, "jobStarted") \in
            Seq({"jobStarted", "jobFinished", "jobAborted", "cacheHit"})
      BY <1>1 DEF JobRecord
    <3>2. {"sent", "reportError"} \subseteq VmStates
      BY DEF VmStates
    <3>3. QED
      BY <1>1, <1>3, <3>1, <3>2 DEF Compiled, JobRecord
  <2>3. Fits(s, TRUE) /\ s.op /\ ~s.fromCache
    BY <1>1, <1>2, <1>3 DEF Compiled, JobRecord, Fits, Waits
  <2>4. QED
    BY <2>1, <2>2, <2>3 DEF Job, Heard, Waits
<1>4. CASE s = Read(r) \/ s = NotRead(r)
  <2>1. /\ s.told = <<>>
        /\ \/ s.answers = <<"header">>
           \/ s.answers = <<>> /\ s.sock # "open"
    <3>1. /\ s.told = r.told /\ s.answers = Header(r)
          /\ r.sock # "open" => s.sock # "open"
      BY <1>1, <1>4 DEF Read, NotRead, JobRecord
    <3>2. Header(r) = IF r.sock = "open" THEN <<"header">> ELSE <<>>
      BY <1>2, Appends DEF Header
    <3>3. QED
      BY <1>2, <3>1, <3>2
  <2>2. s \in JobRecord
    <3>1. Header(r) \in Seq({"compiled", "failed", "header", "cached"})
      BY <1>1 DEF Header, JobRecord
    <3>2. QED
      BY <1>1, <1>4, <3>1, ZenonT(40) DEF Read, NotRead, JobRecord, SocketStates
  <2>3. Fits(s, TRUE) /\ ~s.op /\ s.fromCache
    BY <1>1, <1>2, <1>4 DEF Read, NotRead, JobRecord, Fits, Waits
  <2>4. QED
    BY <2>1, <2>2, <2>3 DEF Job, Heard, Waits
<1>5. QED
  BY <1>3, <1>4 DEF Started

-----------------------------------------------------------------------------
(* What OvercommitOnlyByHangup says of a step. *)
Overcommits ==
  Cardinality(Active') > Cardinality(Active) /\ Cardinality(Active) >= Slots
    => \E j \in Queued \ Queued' : Waiting(j)

(* A job leaves the queue; all others stay as they are, but for the first  *)
(* that waited, if there is one: it is started.                            *)
LEMMA LeaveKeeps ==
  ASSUME BuilderAssumption, queue \in Seq(Jobs), Distinct(queue),
         vmAlive \in BOOLEAN, vmAlive' = vmAlive,
         NEW js \in [Jobs -> JobRecord], NEW c \in CacheType, NEW j \in Jobs,
         \A k \in Jobs : Job(js[k], k \in Queued \ {j}),
         Leave(js, c, j)
  PROVE  /\ JobsFit'
         /\ Queued' = Queued \ {j}
         /\ \/ job' = js /\ \A k \in Queued' : ~Waits(js[k])
            \/ \E s \in Queued' :
                 /\ Waits(js[s]) /\ ~Waits(job'[s])
                 /\ \A k \in Jobs \ {s} : job'[k] = js[k]
<1>1. /\ queue' = RemoveFirst(queue, j)
      /\ StartPending(js, c, queue')
  BY DEF Leave
<1>2. /\ queue' \in Seq(Jobs) /\ Distinct(queue') /\ Queued' = Queued \ {j}
  BY <1>1, RemoveFirstMembers DEF Queued
<1>3. /\ \A i \in 1..Len(queue') : queue'[i] \in Queued' /\ queue'[i] \in Jobs
      /\ \A k \in Queued' : \E i \in 1..Len(queue') : queue'[i] = k
  BY <1>2, LenProperties, ElementOfSeq DEF Queued, ToSet
<1>4. CASE job' = js /\ cache' = c /\ \A i \in 1..Len(queue') : ~Waits(js[queue'[i]])
  <2>1. \A k \in Jobs : Job(job'[k], k \in Queued')
    BY <1>2, <1>4
  <2>2. TypeOK'
    BY <1>2, <1>4 DEF TypeOK, CacheType
  <2>3. \A k \in Queued' : ~Waits(js[k])
    BY <1>3, <1>4
  <2>4. QED
    BY <1>2, <1>4, <2>1, <2>2, <2>3 DEF JobsFit
<1>5. ASSUME NEW i \in 1..Len(queue'), Waits(js[queue'[i]]),
             Start(js, c, queue'[i])
      PROVE  /\ JobsFit'
             /\ \E s \in Queued' :
                  /\ Waits(js[s]) /\ ~Waits(job'[s])
                  /\ \A k \in Jobs \ {s} : job'[k] = js[k]
  <2> DEFINE s == queue'[i]
  <2>1. s \in Queued' /\ s \in Jobs /\ s \in Queued \ {j}
    BY <1>2, <1>3
  <2> HIDE DEF s
  <2>2. Waits(js[s]) /\ Start(js, c, s)
    BY <1>5 DEF s
  <2>3. PICK r \in Started(js[s], vmAlive) : job' = [js EXCEPT ![s] = r]
    BY <2>1, <2>2, StartIs
  <2>4. cache' \in CacheType
    BY <2>1, <2>2, StartIs
  <2>5. Job(js[s], TRUE)
    BY <2>1
  <2>6. Job(r, TRUE) /\ ~Waits(r)
    BY <2>2, <2>3, <2>5, StartFits
  <2>7. /\ job'[s] = r
        /\ \A k \in Jobs \ {s} : job'[k] = js[k]
    BY <2>1, <2>3
  <2>8. job' \in [Jobs -> JobRecord]
    BY <2>1, <2>3, <2>6 DEF Job
  <2>9. \A k \in Jobs : Job(job'[k], k \in Queued')
    <3>1. TAKE k \in Jobs
    <3>2. CASE k = s
      <4>1. (k \in Queued') = TRUE
        BY <2>1, <3>2
      <4>2. QED
        BY <2>6, <2>7, <3>2, <4>1
    <3>3. CASE k # s
      BY <1>2, <2>7, <3>3
    <3>4. QED
      BY <3>2, <3>3
  <2>10. TypeOK'
    BY <1>2, <2>4, <2>8 DEF TypeOK, CacheType
  <2>11. QED
    BY <1>2, <2>1, <2>2, <2>6, <2>7, <2>9, <2>10 DEF JobsFit
<1>6. QED
  BY <1>1, <1>2, <1>3, <1>4, <1>5 DEF StartPending

(* The active jobs are finitely many, at most as many as are queued. *)
LEMMA ActiveCounted ==
  ASSUME queue \in Seq(Jobs), Distinct(queue)
  PROVE  /\ IsFiniteSet(Active) /\ Cardinality(Active) \in Nat
         /\ Len(queue) \in Nat /\ Cardinality(Active) <= Len(queue)
         /\ (\E k \in Queued : Waiting(k)) => Cardinality(Active) < Len(queue)
         /\ (\A k \in Queued : ~Waiting(k)) => Cardinality(Active) = Len(queue)
<1>1. /\ IsFiniteSet(Queued) /\ Cardinality(Queued) = Len(queue)
      /\ Len(queue) \in Nat
  BY MembersCounted, LenProperties DEF Queued
<1>2. Active \subseteq Queued
  BY DEF Active
<1>3. /\ IsFiniteSet(Active) /\ Cardinality(Active) <= Cardinality(Queued)
      /\ Cardinality(Active) = Cardinality(Queued) => Active = Queued
      /\ Cardinality(Active) \in Nat
  BY <1>1, <1>2, FS_Subset, FS_CardinalityType
<1>4. (\E k \in Queued : Waiting(k)) => Active # Queued
  BY DEF Active
<1>5. (\A k \in Queued : ~Waiting(k)) => Active = Queued
  BY DEF Active
<1>6. QED
  BY <1>1, <1>3, <1>4, <1>5

(* When one leaves and the first that waits is started, no slot is idle if *)
(* none was, and no job is started beyond the slots unless one that waited *)
(* has left.                                                               *)
LEMMA LeaveCounts ==
  ASSUME BuilderAssumption, QueueInv, NEW j \in Queued, JobsFit',
         Queued' = Queued \ {j},
         NEW js, \A k \in Queued' : Waits(js[k]) = Waits(job[k]),
         \/ job' = js /\ \A k \in Queued' : ~Waits(js[k])
         \/ \E s \in Queued' :
              /\ Waits(js[s]) /\ ~Waits(job'[s])
              /\ \A k \in Jobs \ {s} : job'[k] = js[k]
  PROVE  NoIdleSlot' /\ Overcommits
<1> USE DEF Waiting
<1>1. queue \in Seq(Jobs) /\ Distinct(queue) /\ Queued \subseteq Jobs
  BY LenProperties, ElementOfSeq DEF QueueInv, JobsFit, TypeOK, Queued, ToSet
<1>2. IsFiniteSet(Active) /\ Cardinality(Active) \in Nat
  BY <1>1, ActiveCounted
<1>3. /\ IsFiniteSet(Active \ {j})
      /\ Cardinality(Active \ {j}) =
           IF j \in Active THEN Cardinality(Active) - 1 ELSE Cardinality(Active)
  BY <1>2, FS_RemoveElement
<1>4. CASE job' = js /\ \A k \in Queued' : ~Waits(js[k])
  <2>1. Active' = Active \ {j}
    BY <1>4 DEF Active
  <2>2. NoIdleSlot'
    BY <1>4 DEF NoIdleSlot
  <2>3. ~(Cardinality(Active') > Cardinality(Active))
    BY <1>2, <1>3, <2>1
  <2>4. QED
    BY <2>2, <2>3 DEF Overcommits
<1>5. ASSUME NEW s \in Queued', Waits(js[s]), ~Waits(job'[s]),
             \A k \in Jobs \ {s} : job'[k] = js[k]
      PROVE  NoIdleSlot' /\ Overcommits
  <2>1. s \in Queued /\ s # j /\ s \notin Active \ {j} /\ Waits(job[s])
    BY <1>5 DEF Active
  <2>2. Active' = (Active \ {j}) \cup {s}
    BY <1>1, <1>5, <2>1 DEF Active
  <2>3. Cardinality(Active') = Cardinality(Active \ {j}) + 1
    BY <1>3, <2>1, <2>2, FS_AddElement
  <2>4. Slots \in Nat /\ Cardinality(Active) >= Slots
    BY <2>1 DEF QueueInv, NoIdleSlot, BuilderAssumption
  <2>5. Cardinality(Active') >= Slots
    BY <1>2, <1>3, <2>3, <2>4
  <2>6. NoIdleSlot'
    BY <2>5 DEF NoIdleSlot
  <2>7. CASE j \in Active
    <3>1. Cardinality(Active') = Cardinality(Active)
      BY <1>2, <1>3, <2>3, <2>7
    <3>2. QED
      BY <1>2, <2>6, <3>1 DEF Overcommits
  <2>8. CASE j \notin Active
    <3>1. Waits(job[j]) /\ j \in Queued \ Queued'
      BY <2>8 DEF Active
    <3>2. QED
      BY <2>6, <3>1 DEF Overcommits
  <2>9. QED
    BY <2>7, <2>8
<1>6. QED
  BY <1>4, <1>5

-----------------------------------------------------------------------------
(* A step that changes one job, and neither the queue nor who waits in it. *)
LEMMA OneChanges ==
  ASSUME BuilderAssumption, QueueInv, NEW j \in Jobs, NEW r,
         UNCHANGED <<queue, vmAlive>>, cache' \in CacheType,
         job' = [job EXCEPT ![j] = r],
         Job(r, j \in Queued),
         j \in Queued => Waits(r) = Waits(job[j])
  PROVE  QueueInv' /\ Overcommits
<1>1. JobsFit /\ NoIdleSlot /\ job \in [Jobs -> JobRecord]
  BY DEF QueueInv, JobsFit, TypeOK
<1>2. queue' = queue /\ Queued' = Queued /\ vmAlive' = vmAlive
  BY DEF Queued
<1>3. /\ job'[j] = r
      /\ \A k \in Jobs \ {j} : job'[k] = job[k]
  BY <1>1
<1>4. \A k \in Jobs : Job(job'[k], k \in Queued')
  BY <1>1, <1>2, <1>3 DEF JobsFit
<1>5. job' \in [Jobs -> JobRecord]
  BY <1>1 DEF Job
<1>6. JobsFit'
  BY <1>1, <1>2, <1>4, <1>5 DEF JobsFit, TypeOK, CacheType
<1>7. Queued \subseteq Jobs
  BY <1>1, LenProperties, ElementOfSeq DEF JobsFit, TypeOK, Queued, ToSet
<1>8. \A k \in Queued : Waits(job'[k]) = Waits(job[k])
  BY <1>3, <1>7
<1>9. Active' = Active
  BY <1>2, <1>8 DEF Active, Waiting
<1>10. NoIdleSlot'
  BY <1>1, <1>2, <1>8, <1>9 DEF NoIdleSlot, Waiting
<1>11. Overcommits
  <2>1. Cardinality(Active) \in Nat
    BY <1>1, ActiveCounted DEF JobsFit, TypeOK
  <2>2. QED
    BY <1>9, <2>1 DEF Overcommits
<1>12. QED
  BY <1>6, <1>10, <1>11 DEF QueueInv

(* A step that changes one job as it leaves the queue. *)
LEMMA OneLeaves ==
  ASSUME BuilderAssumption, QueueInv, NEW j \in Queued, NEW r,
         NEW js, js = [job EXCEPT ![j] = r], NEW c \in CacheType,
         vmAlive' = vmAlive, Job(r, FALSE), Leave(js, c, j)
  PROVE  QueueInv' /\ Overcommits
<1>1. /\ JobsFit /\ job \in [Jobs -> JobRecord] /\ vmAlive \in BOOLEAN
      /\ queue \in Seq(Jobs) /\ Distinct(queue)
  BY DEF QueueInv, JobsFit, TypeOK
<1>2. Queued \subseteq Jobs
  BY <1>1, LenProperties, ElementOfSeq DEF Queued, ToSet
<1>3. /\ js \in [Jobs -> JobRecord]
      /\ js[j] = r
      /\ \A k \in Jobs \ {j} : js[k] = job[k]
  BY <1>1, <1>2 DEF Job
<1>4. ASSUME NEW k \in Jobs
      PROVE  Job(js[k], k \in Queued \ {j})
  <2>1. CASE k = j
    <3>1. (k \in Queued \ {j}) = FALSE
      BY <2>1
    <3>2. QED
      BY <1>3, <2>1, <3>1
  <2>2. CASE k # j
    <3>1. (k \in Queued \ {j}) = (k \in Queued)
      BY <2>2
    <3>2. QED
      BY <1>1, <1>3, <2>2, <3>1 DEF JobsFit
  <2>3. QED
    BY <2>1, <2>2
<1>5. j \in Jobs
  BY <1>2
<1>6. /\ JobsFit'
      /\ Queued' = Queued \ {j}
      /\ \/ job' = js /\ \A k \in Queued' : ~Waits(js[k])
         \/ \E s \in Queued' :
              /\ Waits(js[s]) /\ ~Waits(job'[s])
              /\ \A k \in Jobs \ {s} : job'[k] = js[k]
  BY <1>1, <1>3, <1>4, <1>5, LeaveKeeps
<1>7. \A k \in Queued' : Waits(js[k]) = Waits(job[k])
  BY <1>2, <1>3, <1>6
<1>8. NoIdleSlot' /\ Overcommits
  BY <1>6, <1>7, LeaveCounts, ZenonT(40)
<1>9. QED
  BY <1>6, <1>8 DEF QueueInv

(* What is so of one job in a state that has the invariant. *)
LEMMA JobIs ==
  ASSUME QueueInv, NEW j \in Jobs
  PROVE  /\ job \in [Jobs -> JobRecord] /\ job[j] \in JobRecord
         /\ cache \in CacheType /\ vmAlive \in BOOLEAN
         /\ Fits(job[j], j \in Queued)
         /\ Heard(job[j], j \in Queued)
BY DEF QueueInv, JobsFit, TypeOK, CacheType, Job

LEMMA JobRecorded ==
  ASSUME QueueInv, NEW j \in Jobs
  PROVE  job[j] \in JobRecord
BY JobIs

-----------------------------------------------------------------------------
(* One lemma per action.  The record r is what it makes of its job: here   *)
(* with the header x-fisk-wait.                                            *)
LEMMA UpgradeStep ==
  ASSUME BuilderAssumption, QueueInv, NEW j \in Jobs, Upgrade(j)
  PROVE  QueueInv' /\ Overcommits
<1> DEFINE w == Len(queue) >= Slots \/ cache[Md5[j]] = "exists"
           r == [job[j] EXCEPT !.sock = "upgraded", !.wait = w]
<1>1. job[j].sock = "none" /\ w \in BOOLEAN
  BY DEF Upgrade
<1>2. job' = [job EXCEPT ![j] = r]
  BY JobIs DEF Upgrade
<1> HIDE DEF w
<1>3. Job(r, j \in Queued) /\ Waits(r) = Waits(job[j])
  <2>1. r \in JobRecord
    BY <1>1, JobRecorded, ZenonT(40) DEF JobRecord, SocketStates
  <2>2. Fits(r, j \in Queued)
    BY <1>1, JobIs DEF Fits, Waits, JobRecord
  <2>3. Heard(r, j \in Queued) /\ Waits(r) = Waits(job[j])
    BY <1>1, JobIs DEF Fits, Heard, Waits, JobRecord
  <2>4. QED
    BY <2>1, <2>2, <2>3 DEF Job
<1> HIDE DEF r
<1>4. QED
  BY <1>2, <1>3, JobIs, OneChanges DEF Upgrade

(* The job is turned away: it was never in the queue. *)
LEMMA NoEnvironmentStep ==
  ASSUME BuilderAssumption, QueueInv, NEW j \in Jobs, NoEnvironment(j)
  PROVE  QueueInv' /\ Overcommits
<1> DEFINE r == [job[j] EXCEPT !.sock = "closing"]
<1>1. job[j].sock = "upgraded"
  BY DEF NoEnvironment
<1>2. job' = [job EXCEPT ![j] = r]
  BY JobIs DEF NoEnvironment
<1>3. Job(r, j \in Queued) /\ Waits(r) = Waits(job[j])
  <2>1. r \in JobRecord
    BY <1>1, JobRecorded, ZenonT(40) DEF JobRecord, SocketStates
  <2>2. Fits(r, j \in Queued)
    BY <1>1, JobIs DEF Fits, Waits, JobRecord
  <2>3. Heard(r, j \in Queued) /\ Waits(r) = Waits(job[j])
    BY <1>1, JobIs DEF Fits, Heard, Waits, JobRecord
  <2>4. QED
    BY <2>1, <2>2, <2>3 DEF Job
<1> HIDE DEF r
<1>4. QED
  BY <1>2, <1>3, JobIs, OneChanges DEF NoEnvironment

(* The upload is complete: what runs is fed, what waits keeps it. *)
LEMMA DataArrivesStep ==
  ASSUME BuilderAssumption, QueueInv, NEW j \in Jobs, DataArrives(j)
  PROVE  QueueInv' /\ Overcommits
<1> DEFINE v == IF job[j].op THEN IF vmAlive THEN "sent" ELSE "reportError"
                ELSE job[j].vm
           r == [job[j] EXCEPT !.uploaded = TRUE, !.vm = v]
<1>1. job[j].sock \in {"open", "closing"} /\ ~job[j].uploaded
  BY DEF DataArrives
<1>2. job' = [job EXCEPT ![j] = r]
  BY JobIs DEF DataArrives, Feed, JobRecord
<1>3. v \in VmStates /\ (v # "none" => job[j].op)
      /\ (job[j].op => v \in {"sent", "reportError"}) /\ v # "lost"
      /\ job[j].vm = "none" /\ ~job[j].aborted
      /\ (job[j].op => j \in Queued)
  BY <1>1, JobIs DEF Fits, JobRecord, VmStates, Reporting
<1> HIDE DEF v
<1>4. r \in JobRecord
  <2>1. [job[j] EXCEPT !.uploaded = TRUE] \in JobRecord
    BY JobRecorded DEF JobRecord
  <2>2. v \in VmStates
    BY <1>3
  <2> QED
    BY <2>1, <2>2 DEF JobRecord
<1>5. Fits(r, j \in Queued) /\ Heard(r, j \in Queued)
      /\ Waits(r) = Waits(job[j])
  BY <1>1, <1>3, JobIs DEF Fits, Heard, Waits, JobRecord
<1> HIDE DEF r
<1>6. QED
  BY <1>2, <1>4, <1>5, JobIs, OneChanges DEF DataArrives, Job

(* The socket fails: done, and to be closed. *)
LEMMA SocketFailsStep ==
  ASSUME BuilderAssumption, QueueInv, NEW j \in Jobs, SocketFails(j)
  PROVE  QueueInv' /\ Overcommits
<1> DEFINE r == [job[j] EXCEPT !.sock = "closing", !.failed = TRUE,
                               !.done = TRUE]
<1>1. job[j].sock = "open"
  BY DEF SocketFails
<1>2. job' = [job EXCEPT ![j] = r]
  BY JobIs DEF SocketFails
<1>3. Job(r, j \in Queued) /\ Waits(r) = Waits(job[j])
  <2>1. r \in JobRecord
    BY <1>1, JobRecorded, ZenonT(40) DEF JobRecord, SocketStates
  <2>2. Fits(r, j \in Queued)
    BY <1>1, JobIs DEF Fits, Waits, JobRecord
  <2>3. Heard(r, j \in Queued) /\ Waits(r) = Waits(job[j])
    BY <1>1, JobIs DEF Fits, Heard, Waits, JobRecord
  <2>4. QED
    BY <2>1, <2>2, <2>3 DEF Job
<1> HIDE DEF r
<1>4. QED
  BY <1>2, <1>3, JobIs, OneChanges DEF SocketFails

(* A step of the VM process: the compile runs, will be reported, or never. *)
LEMMA SetVmStep ==
  ASSUME BuilderAssumption, QueueInv, NEW j \in Jobs,
         job[j].vm \in {"sent", "running"},
         NEW state \in {"running", "lost"} \cup Reporting, SetVm(j, state)
  PROVE  QueueInv' /\ Overcommits
<1> DEFINE r == [job[j] EXCEPT !.vm = state]
<1>1. job' = [job EXCEPT ![j] = r]
  BY JobIs DEF SetVm
<1>2. Job(r, j \in Queued) /\ Waits(r) = Waits(job[j])
  <2>1. r \in JobRecord
    BY JobRecorded, ZenonT(40) DEF JobRecord, VmStates, Reporting
  <2>2. Fits(r, j \in Queued)
    BY JobIs DEF Fits, Waits, JobRecord, Reporting
  <2>3. Heard(r, j \in Queued) /\ Waits(r) = Waits(job[j])
    BY JobIs DEF Heard, Waits, JobRecord
  <2>4. QED
    BY <2>1, <2>2, <2>3 DEF Job
<1> HIDE DEF r
<1>3. QED
  BY <1>1, <1>2, JobIs, OneChanges DEF SetVm

(* Both steps of the VM process are of that form. *)
LEMMA VmStep ==
  ASSUME BuilderAssumption, QueueInv, NEW j \in Jobs,
         VmCompiles(j) \/ CompilerExits(j)
  PROVE  QueueInv' /\ Overcommits
BY SetVmStep DEF VmCompiles, CompilerExits, Reporting

(* The socket closes: what has not left the queue is aborted, told, and    *)
(* cancelled unless it is done.                                            *)
LEMMA SocketClosesStep ==
  ASSUME BuilderAssumption, QueueInv, NEW j \in Jobs, SocketCloses(j)
  PROVE  QueueInv' /\ Overcommits
<1> DEFINE closed == [job EXCEPT ![j].sock = "closed"]
           aborted == Cancel([closed EXCEPT ![j].aborted = TRUE], j)
           told == IF job[j].op THEN Tell(aborted, j, "jobAborted") ELSE aborted
<1>1. CASE j \notin Queued
  <2> DEFINE r == [job[j] EXCEPT !.sock = "closed"]
  <2>1. job' = [job EXCEPT ![j] = r] /\ UNCHANGED <<queue, cache, vmAlive>>
    BY <1>1, JobIs DEF SocketCloses
  <2>2. Job(r, j \in Queued)
    <3>1. job[j].sock \in {"upgraded", "open", "closing"}
      BY DEF SocketCloses
    <3>2. r \in JobRecord
      BY JobRecorded DEF JobRecord, SocketStates
    <3>3. Fits(r, j \in Queued)
      BY <1>1, <3>1, JobIs DEF Fits, Waits, JobRecord
    <3>4. Heard(r, j \in Queued)
      BY <1>1, JobIs DEF Heard, Waits, JobRecord
    <3>5. QED
      BY <3>2, <3>3, <3>4 DEF Job
  <2> HIDE DEF r
  <2>3. QED
    BY <1>1, <2>1, <2>2, JobIs, OneChanges
<1>2. CASE j \in Queued
  <2> DEFINE cancels == ~job[j].done /\ job[j].op
             heard == IF job[j].op THEN Append(job[j].told, "jobAborted")
                                   ELSE job[j].told
             r == [job[j] EXCEPT !.sock = "closed", !.aborted = TRUE,
                     !.done = IF cancels THEN TRUE ELSE @,
                     !.cancelled = IF cancels THEN TRUE ELSE @,
                     !.told = heard]
  <2>1. told = [job EXCEPT ![j] = r]
    <3>1. aborted = [job EXCEPT ![j] =
                       [job[j] EXCEPT !.sock = "closed", !.aborted = TRUE,
                          !.done = IF cancels THEN TRUE ELSE @,
                          !.cancelled = IF cancels THEN TRUE ELSE @]]
      BY JobIs DEF Cancel, JobRecord
    <3> HIDE DEF aborted
    <3>2. QED
      BY <3>1, JobIs DEF Tell, JobRecord
  <2>2. Leave(told, cache, j) /\ vmAlive' = vmAlive
    BY <1>2 DEF SocketCloses
  <2> HIDE DEF told
  <2>3. job[j].op => heard = <<"jobStarted", "jobAborted">>
    BY <1>2, JobIs, Appends DEF Heard
  <2>4. heard \in Seq({"jobStarted", "jobFinished", "jobAborted", "cacheHit"})
    BY JobIs DEF JobRecord
  <2>5. ~job[j].op => heard = job[j].told
    OBVIOUS
  <2> HIDE DEF heard
  <2>6. r \in JobRecord
    <3> DEFINE o == [job[j] EXCEPT !.sock = "closed", !.aborted = TRUE]
               q == [o EXCEPT !.done = IF cancels THEN TRUE ELSE @,
                              !.cancelled = IF cancels THEN TRUE ELSE @]
    <3>1. o \in JobRecord
      BY JobRecorded, ZenonT(40) DEF JobRecord, SocketStates
    <3>2. r = [q EXCEPT !.told = heard]
      BY JobIs DEF JobRecord
    <3> HIDE DEF o, cancels
    <3>3. q \in JobRecord
      BY <3>1, ZenonT(40) DEF JobRecord
    <3> HIDE DEF q, r
    <3>4. QED
      BY <2>4, <3>2, <3>3 DEF JobRecord
  <2>7. Fits(r, FALSE)
    BY <1>2, JobIs DEF Fits, Waits, JobRecord
  <2>8. Heard(r, FALSE)
    BY <1>2, <2>3, <2>5, JobIs, ZenonT(40) DEF Heard, Fits, Waits, JobRecord
  <2> HIDE DEF r
  <2>9. QED
    BY <1>2, <2>1, <2>2, <2>6, <2>7, <2>8, JobIs, OneLeaves DEF Job
<1>3. QED
  BY <1>1, <1>2

(* A cached object was read, or not: the job leaves, if its client has not *)
(* hung up, with or without a cacheHit told.                               *)
LEMMA ReadEndsStep ==
  ASSUME BuilderAssumption, QueueInv, NEW j \in Jobs,
         CacheHit(j) \/ CacheReadFails(j)
  PROVE  QueueInv' /\ Overcommits
<1>1. /\ job[j].reading /\ job[j].fromCache /\ ~job[j].op
      /\ job[j].vm = "none"
      /\ job[j].aborted => job[j].sock = "closed" /\ j \notin Queued
      /\ ~job[j].aborted => j \in Queued
  BY JobIs DEF CacheHit, CacheReadFails, Fits, JobRecord
<1> DEFINE sent == IF job[j].sock = "open" THEN Append(job[j].answers, "cached")
                   ELSE job[j].answers
<1>2. sent \in Seq({"compiled", "failed", "header", "cached"})
  BY JobIs DEF JobRecord
<1>3. j \in Queued => /\ job[j].sock = "open" => sent = <<"header", "cached">>
                      /\ job[j].sock # "open" => sent \in {<<>>, <<"header">>}
  <2>1. CASE j \in Queued
    <3>1. \/ job[j].answers = <<"header">>
          \/ job[j].answers = <<>> /\ job[j].sock # "open"
      BY <1>1, <2>1, JobIs DEF Heard
    <3>2. Append(<<"header">>, "cached") = <<"header", "cached">>
      BY Appends
    <3> QED
      BY <3>1, <3>2
  <2> QED
    BY <2>1
<1>4. CASE job[j].aborted
  <2> DEFINE r == [job[j] EXCEPT !.reading = FALSE]
  <2>1. /\ job' = [job EXCEPT ![j] = r] /\ UNCHANGED <<queue, vmAlive>>
        /\ cache' \in CacheType
    <3>1. CASE CacheHit(j)
      <4>1. [Answer(job, j, "cached") EXCEPT ![j].reading = FALSE]
              = [job EXCEPT ![j] = r]
        BY <1>1, <1>4, JobIs DEF Answer, JobRecord
      <4>2. QED
        BY <1>4, <3>1, <4>1, JobIs DEF CacheHit
    <3>2. CASE CacheReadFails(j)
      <4>1. CloseSocket([job EXCEPT ![j].reading = FALSE], j)
              = [job EXCEPT ![j] = r]
        BY <1>1, <1>4, JobIs DEF CloseSocket, JobRecord
      <4>2. Forget(cache, Md5[j]) \in CacheType
        BY JobIs DEF Forget, CacheType
      <4>3. QED
        BY <1>4, <3>2, <4>1, <4>2 DEF CacheReadFails
    <3>3. QED
      BY <3>1, <3>2
  <2>2. Job(r, j \in Queued)
    <3>1. r \in JobRecord
      BY JobIs DEF JobRecord
    <3>2. Fits(r, j \in Queued)
      BY <1>1, <1>4, JobIs DEF Fits, Waits, JobRecord
    <3>3. Heard(r, j \in Queued)
      BY <1>1, <1>4, JobIs DEF Heard, Waits, JobRecord
    <3>4. QED
      BY <3>1, <3>2, <3>3 DEF Job
  <2> HIDE DEF r
  <2>3. QED
    BY <1>1, <1>4, <2>1, <2>2, OneChanges
<1>5. CASE ~job[j].aborted /\ CacheHit(j)
  <2> DEFINE read == [Answer(job, j, "cached") EXCEPT ![j].reading = FALSE]
             hit == [Tell(read, j, "cacheHit") EXCEPT ![j].done = TRUE]
             heard == Append(job[j].told, "cacheHit")
             r == [job[j] EXCEPT !.answers = sent, !.reading = FALSE,
                                 !.told = heard, !.done = TRUE]
  <2>1. hit = [job EXCEPT ![j] = r]
    BY JobIs, ZenonT(40) DEF Answer, Tell, JobRecord
  <2>2. Leave(hit, cache, j) /\ vmAlive' = vmAlive
    BY <1>5 DEF CacheHit
  <2> HIDE DEF hit, sent
  <2>3. heard = <<"cacheHit">>
    BY <1>1, <1>5, JobIs, Appends DEF Heard
  <2>4. heard \in Seq({"jobStarted", "jobFinished", "jobAborted", "cacheHit"})
    BY JobIs DEF JobRecord
  <2> HIDE DEF heard
  <2>5. r \in JobRecord
    <3>1. [job[j] EXCEPT !.answers = sent] \in JobRecord
      BY <1>2, JobRecorded DEF JobRecord
    <3>2. [job[j] EXCEPT !.answers = sent, !.reading = FALSE] \in JobRecord
      BY <3>1 DEF JobRecord
    <3>3. QED
      BY <2>4, <3>2 DEF JobRecord
  <2>6. Fits(r, FALSE)
    BY <1>1, <1>5, JobIs DEF Fits, Waits, JobRecord
  <2>7. Heard(r, FALSE)
    BY <1>1, <1>3, <1>5, <2>3, JobIs DEF Heard, Waits, JobRecord
  <2> HIDE DEF r
  <2>8. QED
    BY <1>1, <1>5, <2>1, <2>2, <2>5, <2>6, <2>7, JobIs, OneLeaves DEF Job
<1>6. CASE ~job[j].aborted /\ CacheReadFails(j)
  <2> DEFINE dropped == CloseSocket([job EXCEPT ![j].reading = FALSE], j)
             over == [dropped EXCEPT ![j].done = TRUE]
             r == [job[j] EXCEPT !.reading = FALSE, !.done = TRUE,
                     !.sock = IF @ = "open" THEN "closing" ELSE @]
  <2>1. over = [job EXCEPT ![j] = r]
    BY JobIs DEF CloseSocket, JobRecord
  <2>2. Leave(over, Forget(cache, Md5[j]), j) /\ vmAlive' = vmAlive
    BY <1>6 DEF CacheReadFails
  <2> HIDE DEF over
  <2>3. Forget(cache, Md5[j]) \in CacheType
    BY JobIs DEF Forget, CacheType
  <2>4. Job(r, FALSE)
    <3>1. r \in JobRecord
      BY JobRecorded, ZenonT(40) DEF JobRecord, SocketStates
    <3>2. Fits(r, FALSE)
      BY <1>1, <1>6, JobIs DEF Fits, Waits, JobRecord
    <3>3. Heard(r, FALSE)
      BY <1>1, <1>6, JobIs DEF Heard, Waits, JobRecord
    <3>4. QED
      BY <3>1, <3>2, <3>3 DEF Job
  <2> HIDE DEF r
  <2>5. QED
    BY <1>1, <1>6, <2>1, <2>2, <2>3, <2>4, OneLeaves
<1>7. QED
  BY <1>4, <1>5, <1>6

(* A compile is reported: the job is answered and leaves, if it is there. *)
LEMMA CompileFinishedStep ==
  ASSUME BuilderAssumption, QueueInv, NEW j \in Jobs, CompileFinished(j)
  PROVE  QueueInv' /\ Overcommits
<1> DEFINE success == job[j].vm = "reportSuccess"
           over == [job EXCEPT ![j].vm = "over", ![j].done = TRUE]
<1>1. /\ job[j].vm \in Reporting /\ job[j].op /\ job[j].uploaded
      /\ ~job[j].fromCache /\ ~job[j].reading
      /\ ~job[j].aborted => j \in Queued
      /\ job[j].sock \notin {"none", "upgraded"}
      /\ vmAlive' = vmAlive
  BY JobIs DEF CompileFinished, Fits, Waits, JobRecord, Reporting
<1>2. CASE j \notin Queued
  <2> DEFINE r == [job[j] EXCEPT !.vm = "over", !.done = TRUE]
  <2>1. job' = [job EXCEPT ![j] = r] /\ UNCHANGED <<queue, cache, vmAlive>>
    BY <1>1, <1>2, JobIs DEF CompileFinished
  <2>2. Job(r, FALSE)
    <3>1. r \in JobRecord
      BY JobRecorded, ZenonT(40) DEF JobRecord, VmStates
    <3>2. Fits(r, FALSE)
      BY <1>1, <1>2, JobIs DEF Fits, Waits, JobRecord
    <3>3. Heard(r, FALSE)
      BY <1>1, <1>2, JobIs DEF Heard, Waits, JobRecord
    <3>4. QED
      BY <3>1, <3>2, <3>3 DEF Job
  <2>3. (j \in Queued) = FALSE
    BY <1>2
  <2> HIDE DEF r
  <2>4. QED
    BY <1>2, <2>1, <2>2, <2>3, JobIs, OneChanges
<1>3. CASE j \in Queued
  <2> DEFINE answer == IF success THEN "compiled" ELSE "failed"
             event == IF success THEN "jobFinished" ELSE "jobAborted"
             answered == Answer(over, j, answer)
             reported == Tell(answered, j, event)
             added == IF success /\ cache[Md5[j]] = "none"
                      THEN [cache EXCEPT ![Md5[j]] = "pending"] ELSE cache
             sent == IF job[j].sock = "open" THEN Append(job[j].answers, answer)
                     ELSE job[j].answers
             heard == Append(job[j].told, event)
             q == [job[j] EXCEPT !.vm = "over", !.done = TRUE]
             r == [q EXCEPT !.answers = sent, !.told = heard]
  <2>1. reported = [job EXCEPT ![j] = r]
    <3>1. over = [job EXCEPT ![j] = q]
      BY JobIs DEF JobRecord
    <3>2. over[j] = q /\ q.sock = job[j].sock /\ q.answers = job[j].answers
          /\ q.told = job[j].told
      BY <3>1, JobIs DEF JobRecord
    <3> HIDE DEF over, q
    <3>3. answered = [job EXCEPT ![j] = [q EXCEPT !.answers = sent]]
      <4>1. CASE job[j].sock = "open"
        BY <3>1, <3>2, <4>1, JobIs DEF Answer
      <4>2. CASE job[j].sock # "open"
        <5>1. [q EXCEPT !.answers = job[j].answers] = q
          BY <3>2, JobIs DEF q, JobRecord
        <5>2. QED
          BY <3>1, <3>2, <4>2, <5>1 DEF Answer
      <4>3. QED
        BY <4>1, <4>2
    <3>4. [q EXCEPT !.answers = sent].told = job[j].told
      BY JobIs DEF q, JobRecord
    <3> HIDE DEF answered, sent
    <3>5. QED
      BY <3>3, <3>4, JobIs DEF Tell
  <2>2. Leave(reported, added, j)
    BY <1>1, <1>3, JobIs DEF CompileFinished, Fits
  <2>3. added \in CacheType
    BY JobIs DEF CacheType
  <2>4. /\ sent \in {<<>>, <<answer>>}
        /\ heard = <<"jobStarted", event>>
    BY <1>1, <1>3, JobIs, Appends, ZenonT(40) DEF Heard
  <2>5. /\ sent \in Seq({"compiled", "failed", "header", "cached"})
        /\ heard \in Seq({"jobStarted", "jobFinished", "jobAborted", "cacheHit"})
    BY JobIs DEF JobRecord
  <2> HIDE DEF sent, heard, added, reported
  <2>6. r \in JobRecord
    <3>1. q \in JobRecord
      BY JobRecorded, ZenonT(40) DEF JobRecord, VmStates
    <3> HIDE DEF q
    <3>2. QED
      BY <2>5, <3>1 DEF JobRecord
  <2>7. Fits(r, FALSE)
    BY <1>1, <1>3, JobIs DEF Fits, Waits, JobRecord
  <2>8. Heard(r, FALSE)
    <3>1. /\ r.op /\ ~r.fromCache /\ r.uploaded
          /\ r.answers = sent /\ r.told = heard
      BY <1>1, JobIs DEF JobRecord
    <3> HIDE DEF r
    <3>2. CASE success
      BY <2>4, <3>1, <3>2 DEF Heard, Waits
    <3>3. CASE ~success
      BY <2>4, <3>1, <3>3 DEF Heard, Waits
    <3>4. QED
      BY <3>2, <3>3
  <2> HIDE DEF r
  <2>9. QED
    BY <1>1, <1>3, <2>1, <2>2, <2>3, <2>6, <2>7, <2>8, OneLeaves DEF Job
<1>4. QED
  BY <1>2, <1>3

(* A job joins the queue: it is started if it is one of the first Slots,   *)
(* and otherwise as many are active as there are slots.                    *)
LEMMA JobArrivesStep ==
  ASSUME BuilderAssumption, QueueInv, NEW j \in Jobs, JobArrives(j)
  PROVE  QueueInv' /\ Overcommits
<1> DEFINE r == [job[j] EXCEPT !.sock = "open"]
           open == [job EXCEPT ![j] = r]
<1>1. /\ job[j].sock = "upgraded" /\ j \notin Queued /\ Waits(job[j])
      /\ vmAlive' = vmAlive /\ queue' = Append(queue, j)
      /\ \/ Len(queue') <= Slots /\ Start(open, cache, j)
         \/ Len(queue') > Slots /\ job' = open /\ cache' = cache
  <2>1. [job EXCEPT ![j].sock = "open"] = open
    BY JobIs
  <2>2. job[j].sock = "upgraded" /\ j \notin Queued /\ Waits(job[j])
    BY JobIs DEF JobArrives, Fits
  <2>3. QED
    BY <2>1, <2>2 DEF JobArrives
<1>2. Job(r, TRUE) /\ Waits(r)
  <2> DEFINE was == job[j]
  <2>0. was \in JobRecord /\ "open" \in SocketStates
    BY JobRecorded DEF SocketStates
  <2>1. r \in JobRecord
    <3> HIDE DEF was
    <3>1. [was EXCEPT !.sock = "open"] \in JobRecord
      BY <2>0, ZenonT(60) DEF JobRecord
    <3>2. QED
      BY <3>1 DEF was
  <2>2. Waits(r)
    BY <1>1, JobIs DEF Waits, JobRecord
  <2>3. Fits(r, TRUE)
    BY <1>1, JobIs DEF Fits, Waits, JobRecord
  <2>4. Heard(r, TRUE)
    BY <1>1, JobIs DEF Heard, Waits, JobRecord
  <2>5. QED
    BY <2>1, <2>2, <2>3, <2>4 DEF Job
<1> HIDE DEF r
<1>3. /\ JobsFit /\ NoIdleSlot
      /\ queue \in Seq(Jobs) /\ Distinct(queue) /\ Queued \subseteq Jobs
  BY LenProperties, ElementOfSeq DEF QueueInv, JobsFit, TypeOK, Queued, ToSet
<1>4. /\ queue' \in Seq(Jobs) /\ Distinct(queue')
      /\ Queued' = Queued \cup {j}
      /\ Len(queue') = Len(queue) + 1
  <2>1. \A i \in 1..Len(queue) : queue[i] # j
    BY <1>1, <1>3, LenProperties DEF Queued, ToSet
  <2>2. QED
    BY <1>1, <1>3, <2>1, AppendProperties, AppendMembers, AppendDistinct
       DEF Queued
<1>5. /\ IsFiniteSet(Active) /\ Cardinality(Active) \in Nat
      /\ Len(queue) \in Nat /\ Cardinality(Active) <= Len(queue)
      /\ (\E k \in Queued : Waiting(k)) => Cardinality(Active) < Len(queue)
      /\ (\A k \in Queued : ~Waiting(k)) => Cardinality(Active) = Len(queue)
      /\ Slots \in Nat
  BY <1>3, ActiveCounted DEF BuilderAssumption
<1>6. /\ open \in [Jobs -> JobRecord] /\ open[j] = r
      /\ \A k \in Jobs \ {j} : open[k] = job[k]
  BY <1>2, JobIs DEF Job
<1> HIDE DEF open
<1>7. ASSUME NEW s, Job(s, TRUE), job' = [open EXCEPT ![j] = s],
             cache' \in CacheType
      PROVE  JobsFit'
  <2>1. job' \in [Jobs -> JobRecord]
    BY <1>6, <1>7 DEF Job
  <2>2. \A k \in Jobs : Job(job'[k], k \in Queued')
    <3>1. TAKE k \in Jobs
    <3>2. CASE k = j
      <4>1. (k \in Queued') = TRUE
        BY <1>4, <3>2
      <4>2. QED
        BY <1>1, <1>6, <1>7, <3>2, <4>1
    <3>3. CASE k # j
      <4>1. (k \in Queued') = (k \in Queued)
        BY <1>4, <3>3
      <4>2. QED
        BY <1>1, <1>3, <1>6, <1>7, <3>3, <4>1 DEF JobsFit
    <3>4. QED
      BY <3>2, <3>3
  <2>3. QED
    BY <1>1, <1>3, <1>4, <1>7, <2>1, <2>2 DEF JobsFit, TypeOK, CacheType
<1>8. CASE Len(queue') <= Slots /\ Start(open, cache, j)
  <2>1. PICK s \in Started(open[j], vmAlive) : job' = [open EXCEPT ![j] = s]
    BY <1>6, <1>8, StartIs, JobIs
  <2>2. cache' \in CacheType
    BY <1>6, <1>8, StartIs, JobIs
  <2>3. Job(s, TRUE) /\ ~Waits(s)
    BY <1>2, <1>6, <2>1, StartFits, JobIs
  <2>4. JobsFit'
    BY <1>7, <2>1, <2>2, <2>3
  <2>5. Cardinality(Active) < Slots /\ ~(Cardinality(Active) >= Slots)
    BY <1>4, <1>5, <1>8
  <2>6. \A k \in Queued : ~Waiting(k)
    BY <1>3, <2>5 DEF NoIdleSlot
  <2>7. \A k \in Queued' : ~Waits(job'[k])
    BY <1>1, <1>3, <1>4, <1>6, <2>1, <2>3, <2>6 DEF Waiting
  <2>8. NoIdleSlot'
    BY <2>7 DEF NoIdleSlot, Waiting
  <2>9. QED
    BY <2>4, <2>5, <2>8 DEF QueueInv, Overcommits
<1>9. CASE Len(queue') > Slots /\ job' = open /\ cache' = cache
  <2>1. job' = [open EXCEPT ![j] = r]
    BY <1>6, <1>9
  <2>2. JobsFit'
    BY <1>2, <1>7, <1>9, <2>1, JobIs
  <2>3. Active' = Active
    BY <1>1, <1>2, <1>3, <1>4, <1>6, <1>9 DEF Active, Waiting
  <2>4. Cardinality(Active) >= Slots
    <3>1. CASE \E k \in Queued : Waiting(k)
      BY <1>3, <3>1 DEF NoIdleSlot
    <3>2. CASE \A k \in Queued : ~Waiting(k)
      BY <1>4, <1>5, <1>9, <3>2
    <3>3. QED
      BY <3>1, <3>2
  <2>5. NoIdleSlot'
    BY <2>3, <2>4 DEF NoIdleSlot
  <2>6. Overcommits
    BY <1>5, <2>3 DEF Overcommits
  <2>7. QED
    BY <2>2, <2>5, <2>6 DEF QueueInv
<1>10. QED
  BY <1>1, <1>8, <1>9

(* Changes of the cache alone, and the end of the VM process: no job moves. *)
LEMMA ElsewhereStep ==
  ASSUME QueueInv,
         (\E m \in Md5s : CacheChanges(m)) \/ VmGoesDown \/ UNCHANGED vars
  PROVE  QueueInv' /\ Overcommits
<1> DEFINE Downed(k) == [job[k] EXCEPT
             !.vm = IF @ \in {"sent", "running"} THEN "lost" ELSE @]
<1>1. /\ JobsFit /\ NoIdleSlot /\ TypeOK
      /\ queue \in Seq(Jobs) /\ Distinct(queue) /\ Queued \subseteq Jobs
  BY LenProperties, ElementOfSeq DEF QueueInv, JobsFit, TypeOK, Queued, ToSet
<1>2. queue' = queue /\ Queued' = Queued
  BY DEF CacheChanges, VmGoesDown, vars, Queued
<1>3. \A k \in Jobs : /\ Job(job'[k], k \in Queued)
                       /\ Waits(job'[k]) = Waits(job[k])
  <2>1. CASE VmGoesDown
    <3>1. TAKE k \in Jobs
    <3>2. job'[k] = Downed(k) /\ vmAlive' = FALSE
      BY <2>1 DEF VmGoesDown
    <3>3. Downed(k) \in JobRecord
      BY JobRecorded DEF JobRecord, VmStates
    <3>4. Fits(Downed(k), k \in Queued)
      BY JobIs DEF Fits, Waits, JobRecord
    <3>5. Heard(Downed(k), k \in Queued) /\ Waits(Downed(k)) = Waits(job[k])
      BY JobIs DEF Heard, Waits, JobRecord
    <3>6. Job(Downed(k), k \in Queued)
      BY <3>3, <3>4, <3>5 DEF Job
    <3> HIDE DEF Downed
    <3>7. QED
      BY <3>2, <3>5, <3>6
  <2>2. CASE ~VmGoesDown
    <3>1. job' = job /\ vmAlive' = vmAlive
      BY <2>2 DEF CacheChanges, vars
    <3>2. QED
      BY <1>1, <3>1 DEF JobsFit
  <2>3. QED
    BY <2>1, <2>2
<1>4. TypeOK'
  <2>1. cache' \in CacheType
    BY <1>1 DEF TypeOK, CacheChanges, Forget, VmGoesDown, vars, CacheType
  <2>2. job' \in [Jobs -> JobRecord]
    <3>1. job' = [k \in Jobs |-> job'[k]]
      BY <1>1 DEF TypeOK, CacheChanges, VmGoesDown, vars
    <3>2. QED
      BY <1>3, <3>1 DEF Job
  <2>3. vmAlive' \in BOOLEAN
    BY <1>1 DEF TypeOK, CacheChanges, VmGoesDown, vars
  <2>4. QED
    BY <1>1, <1>2, <2>1, <2>2, <2>3 DEF TypeOK, CacheType
<1>5. JobsFit'
  BY <1>1, <1>2, <1>3, <1>4 DEF JobsFit
<1>6. Active' = Active
  BY <1>1, <1>2, <1>3 DEF Active, Waiting
<1>7. NoIdleSlot'
  BY <1>1, <1>2, <1>3, <1>6 DEF NoIdleSlot, Waiting
<1>8. Overcommits
  <2>1. Cardinality(Active) \in Nat
    BY <1>1, ActiveCounted
  <2>2. QED
    BY <1>6, <2>1 DEF Overcommits
<1>9. QED
  BY <1>5, <1>7, <1>8 DEF QueueInv

-----------------------------------------------------------------------------
(* The builder starts with an empty queue. *)
LEMMA InitQueue == BuilderAssumption /\ Init => QueueInv
<1> SUFFICES ASSUME BuilderAssumption, Init PROVE QueueInv
  OBVIOUS
<1>1. /\ queue = <<>> /\ Queued = {} /\ Len(queue) = 0
      /\ job = [j \in Jobs |-> NewJob] /\ cache \in CacheType /\ vmAlive = TRUE
  BY EmptySeq DEF Init, Queued, ToSet, CacheType
<1>2. NewJob \in JobRecord
  <2>1. /\ <<>> \in Seq({"compiled", "failed", "header", "cached"})
        /\ <<>> \in Seq({"jobStarted", "jobFinished", "jobAborted", "cacheHit"})
    OBVIOUS
  <2>2. QED
    BY <2>1 DEF NewJob, JobRecord, SocketStates, VmStates
<1>3. Job(NewJob, FALSE)
  <2>1. Fits(NewJob, FALSE)
    BY DEF Fits, Waits, NewJob
  <2>2. Heard(NewJob, FALSE)
    BY DEF Heard, Waits, NewJob
  <2>3. QED
    BY <1>2, <2>1, <2>2 DEF Job
<1>4. TypeOK
  BY <1>1, <1>2 DEF TypeOK, CacheType
<1>5. Distinct(queue)
  BY <1>1 DEF Distinct
<1>6. ASSUME NEW j \in Jobs
      PROVE  Job(job[j], j \in Queued)
  <2>1. (j \in Queued) = FALSE /\ job[j] = NewJob
    BY <1>1
  <2>2. QED
    BY <1>1, <1>3, <2>1
<1>7. NoIdleSlot
  BY <1>1 DEF NoIdleSlot
<1>8. QED
  BY <1>4, <1>5, <1>6, <1>7 DEF QueueInv, JobsFit

(* Every step keeps the invariant, and exceeds the slots only as told. *)
LEMMA NextQueue ==
  ASSUME BuilderAssumption, QueueInv, [Next]_vars
  PROVE  QueueInv' /\ Overcommits
<1>1. ASSUME NEW j \in Jobs,
             \/ Upgrade(j) \/ JobArrives(j) \/ NoEnvironment(j)
             \/ DataArrives(j) \/ SocketFails(j) \/ SocketCloses(j)
             \/ CacheHit(j) \/ CacheReadFails(j)
             \/ VmCompiles(j) \/ CompilerExits(j) \/ CompileFinished(j)
      PROVE  QueueInv' /\ Overcommits
  <2>1. CASE Upgrade(j)
    BY <2>1, UpgradeStep
  <2>2. CASE JobArrives(j)
    BY <2>2, JobArrivesStep
  <2>3. CASE NoEnvironment(j)
    BY <2>3, NoEnvironmentStep
  <2>4. CASE DataArrives(j)
    BY <2>4, DataArrivesStep
  <2>5. CASE SocketFails(j)
    BY <2>5, SocketFailsStep
  <2>6. CASE SocketCloses(j)
    BY <2>6, SocketClosesStep
  <2>7. CASE CacheHit(j) \/ CacheReadFails(j)
    BY <2>7, ReadEndsStep
  <2>8. CASE VmCompiles(j) \/ CompilerExits(j)
    BY <2>8, VmStep
  <2>9. CASE CompileFinished(j)
    BY <2>9, CompileFinishedStep
  <2>10. QED
    BY <1>1, <2>1, <2>2, <2>3, <2>4, <2>5, <2>6, <2>7, <2>8, <2>9
<1>2. QED
  BY <1>1, ElsewhereStep DEF Next

(***************************************************************************)
(* The inductive invariant: every job fits its place, and no slot is idle  *)
(* while one waits (work conservation of startPending()).                  *)
(***************************************************************************)
THEOREM QueueInvariant == Spec => []QueueInv
<1>1. Init => QueueInv
  BY InitQueue, BuilderAssumption
<1>2. QueueInv /\ [Next]_vars => QueueInv'
  BY NextQueue, BuilderAssumption
<1>3. QED
  BY <1>1, <1>2, PTL DEF Spec

(* No slot stays idle while a job waits, whatever emptied it. *)
THEOREM SlotsAreUsed == Spec => []NoIdleSlot
<1>1. QueueInv => NoIdleSlot
  BY DEF QueueInv
<1>2. QED
  BY <1>1, QueueInvariant, PTL

(* Queue and jobs agree, so that the "Can't find j?" of a finished compile *)
(* is dead code.                                                           *)
THEOREM QueueIsOfJobs == Spec => []QueueMatchesJobs
<1>1. QueueInv => QueueMatchesJobs
  <2> SUFFICES ASSUME QueueInv PROVE QueueMatchesJobs
    OBVIOUS
  <2>1. Queued \subseteq Jobs
    BY LenProperties, ElementOfSeq DEF QueueInv, JobsFit, TypeOK, Queued, ToSet
  <2>2. \A j \in Queued : ~job[j].aborted /\ job[j].sock \in {"open", "closing"}
    BY <2>1, JobIs DEF Fits
  <2>3. \A j \in Jobs : job[j].vm \notin {"none", "over"} /\ ~job[j].aborted
                         => j \in Queued
    BY JobIs DEF Fits
  <2>4. TypeOK /\ \A i, k \in 1..Len(queue) : queue[i] = queue[k] => i = k
    BY DEF QueueInv, JobsFit, Distinct
  <2>5. QED
    BY <2>2, <2>3, <2>4 DEF QueueMatchesJobs
<1>2. QED
  BY <1>1, QueueInvariant, PTL

(* A compile whose client left was cancelled, or its socket had failed. *)
THEOREM OrphansCancelled == Spec => []OrphansAreCancelled
<1>1. QueueInv => OrphansAreCancelled
  BY JobIs DEF OrphansAreCancelled, Fits
<1>2. QED
  BY <1>1, QueueInvariant, PTL

(* Every active job has something coming that takes it on, unless its      *)
(* compile was lost with the VM process or could not be spawned.           *)
THEOREM NothingIsStuck == Spec => []NothingStuck
<1>1. QueueInv => NothingStuck
  <2> SUFFICES ASSUME QueueInv, NEW j \in Active
      PROVE  \/ job[j].sock = "closing" \/ job[j].reading
             \/ ~job[j].uploaded /\ (job[j].wait => job[j].resumed)
             \/ job[j].vm \in {"sent", "running"} \cup Reporting
             \/ job[j].vm = "lost"
    BY DEF NothingStuck
  <2>1. j \in Queued /\ ~Waits(job[j]) /\ j \in Jobs
    BY LenProperties, ElementOfSeq
       DEF QueueInv, JobsFit, TypeOK, Queued, ToSet, Active, Waiting
  <2>2. QED
    BY <2>1, JobIs DEF Fits, Waits, JobRecord, VmStates, Reporting
<1>2. QED
  BY <1>1, QueueInvariant, PTL

(* What scheduler and client hear of a job is consistent and comes once. *)
THEOREM ReportsAreConsistent == Spec => []ReportsBalance
<1>1. QueueInv => ReportsBalance
  BY JobIs, ZenonT(40) DEF ReportsBalance, Heard, Fits, Waits, JobRecord
<1>2. QED
  BY <1>1, QueueInvariant, PTL

(* The slots are exceeded in one way only: a job that waited hangs up. *)
THEOREM OvercommitsByHangup == Spec => OvercommitOnlyByHangup
<1>1. QueueInv /\ [Next]_vars => Overcommits
  BY NextQueue, BuilderAssumption
<1>2. Overcommits => [Cardinality(Active') > Cardinality(Active)
                       /\ Cardinality(Active) >= Slots
                       => \E j \in Queued \ Queued' : Waiting(j)]_vars
  BY DEF Overcommits
<1>3. QED
  BY <1>1, <1>2, QueueInvariant, PTL DEF Spec, OvercommitOnlyByHangup
=============================================================================
