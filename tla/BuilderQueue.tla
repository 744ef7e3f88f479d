---------------------------- MODULE BuilderQueue ----------------------------
(***************************************************************************)
(* The job queue of fisk-builder (builder/fisk-builder.js, server.js,      *)
(* VM.js, VM_runtime.js): how a client's job is accepted, queued, served   *)
(* from the object cache or compiled in the chroot ("VM") of its           *)
(* environment, answered, reported to the scheduler, or dropped because    *)
(* its websocket went away.                                                *)
(*                                                                         *)
(* One event loop runs every handler to its end; what interleaves is the   *)
(* order of the events: messages and closing of the clients' sockets,      *)
(* messages of the VM process, callbacks of file reads.  There is one      *)
(* environment, and job ids are unique (they are the keys of vm.compiles). *)
(***************************************************************************)
EXTENDS Integers, FiniteSets, Sequences, SequencesExt

CONSTANTS
  Jobs,         \* jobs the scheduler assigns to this builder, one per client
  Md5s,         \* hashes of preprocessed sources
  Md5,          \* Md5[j]: the hash job j announces
  Slots,        \* client.slots
  MaxVmDeaths   \* 1 if the VM process may go down, 0 if not

ASSUME BuilderAssumption ==
  /\ Slots \in Nat \ {0} /\ MaxVmDeaths \in {0, 1}
  /\ Md5 \in [Jobs -> Md5s]

VARIABLES
  queue,    \* jobQueue
  job,      \* the objects j and job, and the two ends of the socket
  cache,    \* objectCache.state(md5)
  vmAlive   \* the VM process is up

vars == <<queue, job, cache, vmAlive>>

SocketStates == {"none", "upgraded", "open", "closing", "closed"}

(* vm: the compile of this job as seen by the VM process and its pipes. *)
VmStates == {"none", "sent", "running", "lost", "over"} \cup
            {"reportSuccess", "reportError"}
Reporting == {"reportSuccess", "reportError"}

JobRecord ==
  [sock : SocketStates,
   wait : BOOLEAN,       \* x-fisk-wait, which the client sends back as wait
   resumed : BOOLEAN,    \* "resume" was sent
   uploaded : BOOLEAN,   \* the last "data" arrived
   op : BOOLEAN,         \* j.op is set; so is j.started
   fromCache : BOOLEAN,  \* j.objectCache
   reading : BOOLEAN,    \* getFromCache has a read outstanding
   done : BOOLEAN, aborted : BOOLEAN,
   failed : BOOLEAN,     \* job.webSocketError
   cancelled : BOOLEAN,  \* "cancel" was sent to the VM process
   vm : VmStates,
   answers : Seq({"compiled", "failed", "header", "cached"}),
   told : Seq({"jobStarted", "jobFinished", "jobAborted", "cacheHit"})]

NewJob ==
  [sock |-> "none", wait |-> FALSE, resumed |-> FALSE, uploaded |-> FALSE,
   op |-> FALSE, fromCache |-> FALSE, reading |-> FALSE, done |-> FALSE,
   aborted |-> FALSE, failed |-> FALSE, cancelled |-> FALSE, vm |-> "none",
   answers |-> <<>>, told |-> <<>>]

Init ==
  /\ queue = <<>>
  /\ job = [j \in Jobs |-> NewJob]
  /\ cache \in [Md5s -> {"none", "exists"}]
  /\ vmAlive = TRUE

Queued == ToSet(queue)

-----------------------------------------------------------------------------
(* Steps of a handler, on the job objects js and the cache c that the      *)
(* steps before left.                                                      *)

(* Job.send: nothing is sent unless the socket is open. *)
Answer(js, j, a) ==
  IF js[j].sock = "open" THEN [js EXCEPT ![j].answers = Append(@, a)] ELSE js
(* client.send, to the scheduler. *)
Tell(js, j, event) == [js EXCEPT ![j].told = Append(@, event)]

(* Job.close *)
CloseSocket(js, j) ==
  [js EXCEPT ![j].sock = IF @ = "open" THEN "closing" ELSE @]

(* CompileJob.feed of the last data: the compile goes to the VM process; *)
(* if it is gone, the send callback reports a failed compile.            *)
Feed(js, j) == [js EXCEPT ![j].vm = IF vmAlive THEN "sent" ELSE "reportError"]

(* Mutant of Compile: "resume" is not sent to who has to wait. *)
CompileSilently(js, j) ==
  LET started == [Tell(js, j, "jobStarted") EXCEPT ![j].op = TRUE]
  IN IF js[j].uploaded THEN Feed(started, j) ELSE started

(* start() without the cache: compile, feed what was buffered, resume. *)
Compile(js, j) ==
  LET started == [Tell(js, j, "jobStarted") EXCEPT
                    ![j].op = TRUE,
                    ![j].resumed = js[j].wait /\ js[j].sock = "open"]
  IN IF js[j].uploaded THEN Feed(started, j) ELSE started

(* getFromCache, once the cached response has been sent. *)
ReadCache(js, j) ==
  [Answer(js, j, "header") EXCEPT ![j].fromCache = TRUE, ![j].reading = TRUE]
(* The file cannot be opened any more: the callback is never called. *)
CacheOpenFails(js, j) ==
  CloseSocket([Answer(js, j, "header") EXCEPT ![j].fromCache = TRUE], j)

(* objectCache.remove *)
Forget(c, m) == [c EXCEPT ![m] = "none"]

(* j.start() *)
Start(js, c, j) ==
  \/ /\ c[Md5[j]] # "exists"
     /\ job' = Compile(js, j) /\ cache' = c
  \/ /\ c[Md5[j]] = "exists"
     /\ \/ job' = ReadCache(js, j) /\ cache' = c
        \/ job' = CacheOpenFails(js, j) /\ cache' = c
        \/ job' = Compile(js, j) /\ cache' = Forget(c, Md5[j])  \* no such file

(* startPending(): starts the first job of the queue that was not started. *)
Waits(r) == ~r.op /\ ~r.fromCache
StartPending(js, c, q) ==
  \/ \E i \in 1..Len(q) :
       /\ Waits(js[q[i]])
       /\ \A k \in 1..i-1 : ~Waits(js[q[k]])
       /\ Start(js, c, q[i])
  \/ /\ \A i \in 1..Len(q) : ~Waits(js[q[i]])
     /\ job' = js /\ cache' = c

(* Mutants of Leave: no startPending(); the wrong job is taken out. *)
LeaveQuietly(js, c, j) ==
  queue' = RemoveFirst(queue, j) /\ job' = js /\ cache' = c
LeaveFirst(js, c, j) == queue' = Tail(queue) /\ StartPending(js, c, queue')

(* A job leaves the queue, and the next one starts. *)
Leave(js, c, j) ==
  /\ queue' = RemoveFirst(queue, j)
  /\ StartPending(js, c, queue')

-----------------------------------------------------------------------------
(* Events of the clients' sockets.                                         *)

(* server "headers": is the client to wait before it uploads? *)
Upgrade(j) ==
  /\ job[j].sock = "none"
  /\ job' = [job EXCEPT
       ![j].sock = "upgraded",
       ![j].wait = Len(queue) >= Slots \/ cache[Md5[j]] = "exists"]
  /\ UNCHANGED <<queue, cache, vmAlive>>

(* Mutant of JobArrives: the queue is measured before the job is in it. *)
JobArrivesEarly(j) ==
  LET open == [job EXCEPT ![j].sock = "open"]
  IN /\ job[j].sock = "upgraded"
     /\ queue' = Append(queue, j)
     /\ \/ Len(queue) <= Slots /\ Start(open, cache, j)
        \/ Len(queue) > Slots /\ job' = open /\ UNCHANGED cache
     /\ UNCHANGED vmAlive

(* server "job": the JSON message arrived. *)
JobArrives(j) ==
  LET open == [job EXCEPT ![j].sock = "open"]
  IN /\ job[j].sock = "upgraded"
     /\ queue' = Append(queue, j)
     /\ \/ Len(queue') <= Slots /\ Start(open, cache, j)
        \/ Len(queue') > Slots /\ job' = open /\ UNCHANGED cache
     /\ UNCHANGED vmAlive

(* The environment was dropped meanwhile: the job is turned away. *)
NoEnvironment(j) ==
  /\ job[j].sock = "upgraded"
  /\ job' = [job EXCEPT ![j].sock = "closing"]
  /\ UNCHANGED <<queue, cache, vmAlive>>

(* job "data", the last of it: buffered, or fed to the compile. *)
DataArrives(j) ==
  /\ job[j].sock \in {"open", "closing"} /\ ~job[j].uploaded
  /\ job[j].wait => job[j].resumed
  /\ LET uploaded == [job EXCEPT ![j].uploaded = TRUE]
     IN job' = IF job[j].op THEN Feed(uploaded, j) ELSE uploaded
  /\ UNCHANGED <<queue, cache, vmAlive>>

(* job "error": of the websocket or of the protocol; a close follows. *)
SocketFails(j) ==
  /\ job[j].sock = "open"
  /\ job' = [job EXCEPT ![j].sock = "closing",
                        ![j].failed = TRUE, ![j].done = TRUE]
  /\ UNCHANGED <<queue, cache, vmAlive>>

(* Mutant of Cancel: the job is done before it is looked at. *)
CancelDone(js, j) ==
  IF js[j].done /\ js[j].op THEN [js EXCEPT ![j].cancelled = TRUE] ELSE js

(* job.cancel *)
Cancel(js, j) ==
  IF ~js[j].done /\ js[j].op
  THEN [js EXCEPT ![j].done = TRUE, ![j].cancelled = TRUE] ELSE js

(* Mutant of SocketCloses: a job that never started is reported aborted. *)
SocketClosesTold(j) ==
  /\ job[j].sock \in {"upgraded", "open", "closing"}
  /\ LET closed == [job EXCEPT ![j].sock = "closed"]
         aborted == Cancel([closed EXCEPT ![j].aborted = TRUE], j)
     IN \/ j \in Queued /\ Leave(Tell(aborted, j, "jobAborted"), cache, j)
        \/ j \notin Queued /\ job' = closed /\ UNCHANGED <<queue, cache>>
  /\ UNCHANGED vmAlive

(* job "close": the client hung up, or answered our closing handshake. *)
SocketCloses(j) ==
  /\ job[j].sock \in {"upgraded", "open", "closing"}
  /\ LET closed == [job EXCEPT ![j].sock = "closed"]
         aborted == Cancel([closed EXCEPT ![j].aborted = TRUE], j)
     IN \/ /\ j \in Queued
           /\ Leave(IF job[j].op THEN Tell(aborted, j, "jobAborted")
                                 ELSE aborted, cache, j)
        \/ /\ j \notin Queued
           /\ job' = closed
           /\ UNCHANGED <<queue, cache>>
  /\ UNCHANGED vmAlive

-----------------------------------------------------------------------------
(* The object cache.                                                       *)

(* The files of the cached object were read, and sent. *)
CacheHit(j) ==
  LET read == [Answer(job, j, "cached") EXCEPT ![j].reading = FALSE]
      hit == [Tell(read, j, "cacheHit") EXCEPT ![j].done = TRUE]
  IN /\ job[j].reading
     /\ \/ job[j].aborted /\ job' = read /\ UNCHANGED <<queue, cache>>
        \/ ~job[j].aborted /\ Leave(hit, cache, j)
     /\ UNCHANGED vmAlive

(* A read failed or was short: the object is removed, the client dropped. *)
CacheReadFails(j) ==
  LET dropped == CloseSocket([job EXCEPT ![j].reading = FALSE], j)
      removed == Forget(cache, Md5[j])
  IN /\ job[j].reading
     /\ \/ /\ job[j].aborted
           /\ job' = dropped /\ cache' = removed /\ UNCHANGED queue
        \/ /\ ~job[j].aborted
           /\ Leave([dropped EXCEPT ![j].done = TRUE], removed, j)
     /\ UNCHANGED vmAlive

(* The object added by a finished compile is on disk, or could not be      *)
(* written; or an object is purged.                                        *)
CacheChanges(m) ==
  /\ \/ cache[m] = "pending" /\ cache' \in {Forget(cache, m),
                                            [cache EXCEPT ![m] = "exists"]}
     \/ cache[m] = "exists" /\ cache' = Forget(cache, m)
  /\ UNCHANGED <<queue, job, vmAlive>>

-----------------------------------------------------------------------------
(* The VM process and what it reports.                                     *)

SetVm(j, state) ==
  /\ job' = [job EXCEPT ![j].vm = state]
  /\ UNCHANGED <<queue, cache, vmAlive>>

(***************************************************************************)
(* It gets the compile: a compiler is spawned, or the arguments are bad,   *)
(* or the compiler cannot be spawned.  That is an 'error' without an       *)
(* 'exit', and nobody listens to the 'error' of a Compile: the process     *)
(* reports an uncaught exception, which VM.js logs, and no end.            *)
(***************************************************************************)
VmCompiles(j) ==
  /\ job[j].vm = "sent" /\ vmAlive
  /\ \E state \in {"running", "reportError", "lost"} : SetVm(j, state)

(* The compiler exits, of itself or because of a cancel.  Whatever its     *)
(* exit code, that counts as success; an error is to fail to list its      *)
(* output.                                                                 *)
CompilerExits(j) ==
  /\ job[j].vm = "running"
  /\ \E state \in Reporting : SetVm(j, state)

(* VM "compileFinished" and the "finished" handler of the job. *)
CompileFinished(j) ==
  LET success == job[j].vm = "reportSuccess"
      over == [job EXCEPT ![j].vm = "over", ![j].done = TRUE]
      answered == Answer(over, j, IF success THEN "compiled" ELSE "failed")
      reported ==
        Tell(answered, j, IF success THEN "jobFinished" ELSE "jobAborted")
      added == IF success /\ cache[Md5[j]] = "none"
               THEN [cache EXCEPT ![Md5[j]] = "pending"] ELSE cache
  IN /\ job[j].vm \in Reporting
     /\ \/ /\ job[j].aborted \/ j \notin Queued   \* or "Can't find j?"
           /\ job' = over /\ UNCHANGED <<queue, cache>>
        \/ ~job[j].aborted /\ j \in Queued /\ Leave(reported, added, j)
     /\ UNCHANGED vmAlive

(***************************************************************************)
(* The VM process goes down: by accident, or because the environment is    *)
(* dropped: it exits on 'destroy' with compiles running, as compiles is an *)
(* object and compiles.length is undefined.  Nothing listens to its exit.  *)
(***************************************************************************)
VmGoesDown ==
  /\ vmAlive /\ MaxVmDeaths = 1
  /\ vmAlive' = FALSE
  /\ job' = [j \in Jobs |-> [job[j] EXCEPT
               !.vm = IF @ \in {"sent", "running"} THEN "lost" ELSE @]]
  /\ UNCHANGED <<queue, cache>>

-----------------------------------------------------------------------------
Next ==
  \/ \E j \in Jobs :
       \/ Upgrade(j) \/ JobArrives(j) \/ NoEnvironment(j)
       \/ DataArrives(j) \/ SocketFails(j) \/ SocketCloses(j)
       \/ CacheHit(j) \/ CacheReadFails(j)
       \/ VmCompiles(j) \/ CompilerExits(j) \/ CompileFinished(j)
  \/ \E m \in Md5s : CacheChanges(m)
  \/ VmGoesDown

Spec == Init /\ [][Next]_vars

-----------------------------------------------------------------------------
TypeOK ==
  /\ queue \in Seq(Jobs)
  /\ job \in [Jobs -> JobRecord]
  /\ cache \in [Md5s -> {"none", "pending", "exists"}]
  /\ vmAlive \in BOOLEAN

Waiting(j) == Waits(job[j])
Active == {j \in Queued : ~Waiting(j)}

(***************************************************************************)
(* Work conservation: a job waits only while every slot is taken, whatever *)
(* mix of hits, failures, aborts and finishes emptied them.                *)
(***************************************************************************)
NoIdleSlot ==
  (\E j \in Queued : Waiting(j)) => Cardinality(Active) >= Slots

(***************************************************************************)
(* The queue and the objects in it agree: what is in it has neither ended  *)
(* nor been aborted, and a compile that reports back finds its job there,  *)
(* unless the client left ("Can't find j?", fisk-builder.js:736, is dead). *)
(***************************************************************************)
QueueMatchesJobs ==
  /\ TypeOK
  /\ \A i, k \in 1..Len(queue) : queue[i] = queue[k] => i = k
  /\ \A j \in Queued : ~job[j].aborted /\ job[j].sock \in {"open", "closing"}
  /\ \A j \in Jobs : job[j].vm \notin {"none", "over"} /\ ~job[j].aborted
                       => j \in Queued

(***************************************************************************)
(* The scheduler's monitors hear of a job at most once that it began and,  *)
(* once it has left, exactly once how it ended; and a client gets one      *)
(* answer, which is what the scheduler was told: that of a compile, or the *)
(* header of a cached object and then the object, unless its socket was    *)
(* closing by then; never parts of both.                                   *)
(***************************************************************************)
ReportsBalance ==
  \A j \in Jobs :
    /\ \/ job[j].told \in {<<>>, <<"cacheHit">>} /\ ~job[j].op
       \/ job[j].told = <<"jobStarted">> /\ j \in Queued
       \/ /\ job[j].told \in {<<"jobStarted", "jobFinished">>,
                              <<"jobStarted", "jobAborted">>}
          /\ j \notin Queued
    /\ \/ job[j].answers = <<>>
       \/ /\ job[j].answers = <<"compiled">> /\ job[j].uploaded
          /\ job[j].told = <<"jobStarted", "jobFinished">>
       \/ /\ job[j].answers = <<"failed">>
          /\ job[j].told = <<"jobStarted", "jobAborted">>
       \/ /\ job[j].answers = <<"header">>
          /\ \/ job[j].told = <<>>
             \/ job[j].told = <<"cacheHit">> /\ job[j].sock # "open"
       \/ /\ job[j].answers = <<"header", "cached">>
          /\ job[j].told = <<"cacheHit">>

(***************************************************************************)
(* A compile whose client left is cancelled, so that the compilers that    *)
(* run belong to active jobs or are being killed.  The exception is a      *)
(* socket that failed first: 'error' sets done, and cancel() needs ~done.  *)
(***************************************************************************)
OrphansAreCancelled ==
  \A j \in Jobs :
    job[j].vm \in {"sent", "running"} =>
      j \in Queued \/ job[j].cancelled \/ job[j].failed

(***************************************************************************)
(* More jobs than there are slots are started in one case only: a client   *)
(* that waits in the backlog hangs up, and startPending() fills a slot     *)
(* that was never freed.                                                   *)
(***************************************************************************)
OvercommitOnlyByHangup ==
  [][Cardinality(Active') > Cardinality(Active) /\ Cardinality(Active) >= Slots
       => \E j \in Queued \ Queued' : Waiting(j)]_vars

(***************************************************************************)
(* Every job that was started has something coming that takes it on: the   *)
(* rest of its upload, a read of the cache, a compile or its report, or    *)
(* the end of its socket.  As the others wait for an active one            *)
(* (NoIdleSlot), the queue never stands still, except for compiles that    *)
(* were lost with the VM process or were never spawned, which nothing ends *)
(* but their clients.                                                      *)
(***************************************************************************)
NothingStuck ==
  \A j \in Active :
    \/ job[j].sock = "closing" \/ job[j].reading
    \/ ~job[j].uploaded /\ (job[j].wait => job[j].resumed)
    \/ job[j].vm \in {"sent", "running"} \cup Reporting
    \/ job[j].vm = "lost"
=============================================================================
