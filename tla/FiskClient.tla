------------------------------ MODULE FiskClient ------------------------------
(***************************************************************************)
(* One run of fiskc: main() of client/main.cpp from the connection to the  *)
(* daemon to the exit code, with its watchdog (Watchdog.cpp), its select   *)
(* loops (Select.cpp), its two websockets (WebSocket.cpp,                  *)
(* SchedulerWebSocket.h, BuilderWebSocket.h), its preprocessing thread     *)
(* (Preprocessed.cpp), and the builder's side of the job's connection.     *)
(*                                                                         *)
(* The main thread is either in the select() of one of its loops, where    *)
(* sockets, timers and the thread are heard of, or between two loops;      *)
(* everything from a loop to the next one is one action.  Slots are        *)
(* modelled in FiskDaemon, the builder's queue in BuilderQueue.            *)
(***************************************************************************)
EXTENDS Integers, Sequences, SequencesExt

CONSTANTS
  Indexes,    \* sizes of the output files of one compile: a set of sequences
  Failures,   \* what may go wrong with an output: subset of {"write", "open"}
  MaxBeats    \* bound: heartbeats of the builder

ASSUME FiskClientAssumption ==
  /\ Indexes \subseteq Seq(Nat)
  /\ Failures \subseteq {"write", "open"} /\ MaxBeats \in Nat

VARIABLES
  pc,       \* the loop main() is in, or what it does next
  cached,   \* Config::objectCache
  given,    \* what fiskc is to compile: "source", or what is preprocessed already
  wd,       \* Watchdog::mState
  stage,    \* Watchdog::mStage, from 1
  daemon,   \* daemonSocket.state()
  thread,   \* the preprocessing thread
  key,      \* what the MD5 sent to scheduler and builder was computed from
  sched,    \* schedulerWebsocket.state()
  answer,   \* what the scheduler said
  b,        \* builderWebSocket
  told,     \* the x-fisk-wait header of the builder's answer
  out,      \* what of the job is in mSendBuffer
  wire,     \* what the builder sent and the client has not read
  job,      \* the job at the builder
  fed,      \* the builder has all of the source
  beats,    \* heartbeats sent
  sizes,    \* history: the output files the builder sent
  failed,   \* the assert() that failed: "none", of transition(), "wait", "file"
  exit      \* how the run ended

config == <<cached, given>>
mainVars == <<pc, wd, stage, failed, exit>>
builderVars == <<wire, job, fed, beats, sizes>>
vars == <<mainVars, config, daemon, thread, key, sched, answer, b, told, out,
          builderVars>>

(* Mutant of Stages: one order for both modes. *)
StagesOfCache ==
  <<"Initial", "ConnectedToDaemon", "PreprocessFinished",
    "ConnectedToScheduler", "AcquiredBuilder", "ConnectedToBuilder",
    "UploadedJob", "Finished">>

(* Watchdog::stages, in the mode with and without object cache. *)
Stages ==
  IF cached
  THEN <<"Initial", "ConnectedToDaemon", "PreprocessFinished",
         "ConnectedToScheduler", "AcquiredBuilder", "ConnectedToBuilder",
         "UploadedJob", "Finished">>
  ELSE <<"Initial", "ConnectedToDaemon", "ConnectedToScheduler",
         "AcquiredBuilder", "ConnectedToBuilder", "PreprocessFinished",
         "UploadedJob", "Finished">>

Loops == {"daemon", "preprocess", "scheduler", "builder", "wait", "response",
          "environment", "slot"}
Messages == [type : {"resume", "heartbeat", "ok", "bad", "data", "eof"},
             index : Indexes \cup {<<>>}, file : Nat, bytes : Nat]
Message(type) == [type |-> type, index |-> <<>>, file |-> 0, bytes |-> 0]

TypeOK ==
  /\ pc \in Loops \cup {"send", "upload", "exit"}
  /\ cached \in BOOLEAN /\ wd \in {"running", "stopped", "timedOut"}
  /\ stage \in 1..Len(Stages)
  /\ daemon \in {"connecting", "connected", "lost"}
  /\ thread \in {"none", "running", "output", "done", "failed"}
  /\ given \in {"source", "preprocessed"}
  /\ key \in {"none", "arguments", "part", "whole"}
  /\ sched \in {"none", "connecting", "connected", "gone"}
  /\ answer \in {"none", "builder", "nobody", "needsEnvironment", "error"}
  /\ b \in [state : {"none", "connecting", "connected", "gone"},
            done : BOOLEAN, error : BOOLEAN, wait : BOOLEAN,
            files : Seq(Nat), total : Nat, f : BOOLEAN, intact : BOOLEAN]
  /\ told \in BOOLEAN /\ out \in {<<>>, <<"json">>, <<"source">>, <<"json", "source">>}
  /\ wire \in Seq(Messages)
  /\ job \in {"none", "queued", "started", "answered", "gone"} /\ fed \in BOOLEAN
  /\ beats \in 0..MaxBeats /\ sizes \in Indexes \cup {<<>>}
  /\ failed \in {"none", "stage", "wait", "file"}
  /\ exit \in {"none", "local", "remote", "cachehit", "mismatch", "aborted"}

Init ==
  /\ pc = "daemon" /\ cached \in BOOLEAN /\ given \in {"source", "preprocessed"}
  /\ wd = "running" /\ stage = 1
  /\ daemon = "connecting" /\ thread = "none" /\ key = "none"
  /\ sched = "none" /\ answer = "none"
  /\ b = [state |-> "none", done |-> FALSE, error |-> FALSE, wait |-> FALSE,
          files |-> <<>>, total |-> 0, f |-> FALSE, intact |-> TRUE]
  /\ told = FALSE /\ out = <<>> /\ wire = <<>> /\ job = "none" /\ fed = FALSE
  /\ beats = 0 /\ sizes = <<>> /\ failed = "none" /\ exit = "none"

-----------------------------------------------------------------------------
(* Messages of the builder.                                                *)

(* Mutant of Fails: the loops are not told. *)
FailsQuietly(s) == [s EXCEPT !.error = TRUE]

Fails(s) == [s EXCEPT !.done = TRUE, !.error = TRUE]

(* One round of the loop in fill(): r.s is the websocket, r.offset how     *)
(* much of message m was used, r.stop that the loop is over.  A write that *)
(* takes bytes of another file or from beyond m spoils the output.         *)
FillRound(r, m, io) ==
  LET front == Head(r.s.files)
      n == IF front < m.bytes THEN front ELSE m.bytes
      at == r.s.total - Len(r.s.files) + 1
      written == [r.s EXCEPT
        !.files = <<front - n>> \o Tail(@),
        !.intact = @ /\ (n > 0 => m.file = at /\ r.offset + n <= m.bytes)]
      next == [written EXCEPT !.files = Tail(@), !.f = Len(r.s.files) > 1]
      used == r.offset + n
  IN CASE r.stop -> r
       [] ~r.stop /\ n > 0 /\ io = "write" ->
            [s |-> Fails(r.s), offset |-> m.bytes, stop |-> TRUE]
       [] ~r.stop /\ ~(n > 0 /\ io = "write") /\ n < front ->
            [s |-> written, offset |-> used, stop |-> used >= m.bytes]
       [] ~r.stop /\ ~(n > 0 /\ io = "write") /\ n = front ->
            IF next.f /\ io = "open"
            THEN [s |-> Fails([next EXCEPT !.f = FALSE]), offset |-> m.bytes,
                  stop |-> TRUE]
            ELSE [s |-> next, offset |-> used,
                  stop |-> ~next.f \/ used >= m.bytes]

(* fill(), of which a round finishes a file or is the last. *)
Fill(s, m, io) ==
  LET end == FoldLeft(LAMBDA r, i : FillRound(r, m, io),
                      [s |-> s, offset |-> 0, stop |-> FALSE],
                      [i \in 1..Len(s.files) |-> i])
  IN IF end.offset < m.bytes THEN Fails(end.s) ELSE end.s

(* Mutant of Binary: done with the first file. *)
BinaryOnce(s, m, io) ==
  IF s.files = <<>> THEN Fails(s) ELSE [Fill(s, m, io) EXCEPT !.done = TRUE]

(* handleResponseBinary() *)
Binary(s, m, io) ==
  LET after == Fill(s, m, io)
  IN IF s.files = <<>> THEN Fails(s)
     ELSE [after EXCEPT !.done = @ \/ after.files = <<>>]

(* "response", of a compile that may have failed; with files to come.      *)
Response(s, m, io) ==
  LET begun == [s EXCEPT !.files = m.index, !.total = Len(m.index)]
  IN CASE m.index = <<>> -> [s EXCEPT !.done = TRUE]
       [] m.index # <<>> /\ io = "open" -> Fails(begun)
       [] m.index # <<>> /\ io # "open" -> [begun EXCEPT !.f = TRUE]

(* onMessage().  bad: no JSON, an unknown type, an error of the builder or *)
(* one that looks suspicious.                                              *)
OnMessage(s, m, io) ==
  CASE m.type = "resume" -> [s EXCEPT !.wait = FALSE]
    [] m.type = "heartbeat" -> s
    [] m.type = "bad" -> Fails(s)
    [] m.type = "ok" -> Response(s, m, io)
    [] m.type = "data" -> Binary(s, m, io)

(* assert(f) of fill() *)
NoFile(s, m) == m.type = "data" /\ s.files # <<>> /\ ~s.f

(* onMessage() for each message of a batch, until an assert() ends it. *)
Handle(batch, io) ==
  FoldLeft(LAMBDA r, m :
             IF r.failed \/ NoFile(r.s, m) THEN [r EXCEPT !.failed = TRUE]
             ELSE [r EXCEPT !.s = OnMessage(r.s, m, io)],
           [s |-> b, failed |-> FALSE], batch)

-----------------------------------------------------------------------------
(* The loops of main().                                                    *)

(* main() is in select().  The last two loops have no watchdog: the upload *)
(* of an environment, which hears of the scheduler only, and the wait for  *)
(* a compile slot.                                                         *)
InLoop ==
  /\ pc \in Loops /\ (wd = "timedOut" => pc = "slot")
  /\ CASE pc = "daemon" -> daemon = "connecting"
       [] pc = "preprocess" ->
            thread \notin {"done", "failed"} /\ daemon = "connected"
       [] pc = "scheduler" -> answer = "none" /\ sched \in {"connecting", "connected"}
       [] pc = "builder" -> b.state = "connecting"
       [] pc = "wait" -> /\ ~b.done
                         /\ out # <<>> \/ b.wait
                         /\ b.state = "connected"
       [] pc = "response" -> ~b.done /\ b.state = "connected"
       [] pc = "environment" -> sched = "connected"
       [] pc = "slot" -> daemon = "connected"

Between(loop) == pc = loop /\ ~InLoop

(* watchdog->stop() *)
Stop == IF wd = "running" THEN "stopped" ELSE wd

(* Client::runLocal(), and whatever becomes of the compile. *)
Compile ==
  /\ exit' = "local" /\ pc' = "exit"
  /\ UNCHANGED <<wd, stage, failed>>

(* runLocal() of main(): the watchdog is stopped, and the daemon is asked  *)
(* for a compile slot, which is waited for.                                *)
RunLocal ==
  /\ pc' = "slot" /\ wd' = Stop
  /\ UNCHANGED <<stage, failed, exit>>

(* watchdog->transition(to), on the way to the next loop. *)
TransitionTo(to, loop) ==
  /\ pc' = loop /\ UNCHANGED <<wd, exit>>
  /\ IF wd # "running" THEN UNCHANGED <<stage, failed>>
     ELSE /\ stage' = stage + 1
          /\ failed' = IF Stages[stage + 1] = to THEN failed ELSE "stage"

(* Watchdog::onTimeout(), if no socket has anything to tell. *)
Timeout ==
  /\ InLoop /\ wd = "running" /\ stage < Len(Stages)
  /\ wd' = "timedOut"
  /\ UNCHANGED <<pc, stage, failed, exit, config, daemon, thread, key, sched,
                 answer, b, told, out, builderVars>>

(* The daemon connects, or hangs up at any time. *)
DaemonConnects ==
  /\ InLoop /\ daemon = "connecting" /\ daemon' = "connected"
  /\ UNCHANGED <<mainVars, config, thread, key, sched, answer, b, told, out,
                 builderVars>>

DaemonLost ==
  /\ InLoop /\ pc # "environment" /\ daemon # "lost" /\ daemon' = "lost"
  /\ UNCHANGED <<mainVars, config, thread, key, sched, answer, b, told, out,
                 builderVars>>

(* The preprocessing thread: the preprocessor has written its output and   *)
(* its status, its MD5 is computed, done; a source that is preprocessed is *)
(* read and no MD5 computed.  failed: no slot, an error or no output.      *)
ThreadRuns ==
  /\ thread = "running" /\ pc # "exit"
  /\ thread' \in {"output", "failed"}
  /\ UNCHANGED <<mainVars, config, daemon, key, sched, answer, b, told, out,
                 builderVars>>

ThreadDone ==
  /\ thread = "output" /\ pc # "exit"
  /\ thread' = "done"
  /\ UNCHANGED <<mainVars, config, daemon, key, sched, answer, b, told, out,
                 builderVars>>

(* Connected to the daemon or not; the arguments can be distributed or     *)
(* not, and with an object cache preprocessing comes first.                *)
LeaveDaemon ==
  /\ Between("daemon")
  /\ \/ /\ wd = "timedOut" \/ daemon # "connected"
        /\ Compile /\ UNCHANGED <<thread, sched>>
     \/ /\ wd # "timedOut" /\ daemon = "connected"
        /\ \/ RunLocal /\ UNCHANGED <<thread, sched>>
           \/ /\ cached /\ thread' = "running" /\ UNCHANGED sched
              /\ TransitionTo("ConnectedToDaemon", "preprocess")
           \/ /\ ~cached /\ thread' = "running" /\ sched' = "connecting"
              /\ TransitionTo("ConnectedToDaemon", "scheduler")
  /\ UNCHANGED <<config, daemon, key, answer, b, told, out, builderVars>>

(* What the thread put into the MD5, beside the arguments. *)
Digest ==
  CASE given = "preprocessed" -> "arguments"
    [] given = "source" /\ thread = "output" -> "part"
    [] given = "source" /\ thread # "output" -> "whole"

(* What follows the loop that waits for the thread.  The exit status is    *)
(* read whether the thread is done or the daemon lost.                     *)
Preprocessed ==
  /\ \/ /\ wd = "timedOut" \/ thread \in {"running", "failed"} \/ cached
        /\ RunLocal /\ UNCHANGED <<key, sched>>
     \/ /\ wd # "timedOut" /\ thread \in {"output", "done"}
        /\ \/ /\ cached /\ sched' = "connecting"
              /\ key' = Digest
              /\ TransitionTo("PreprocessFinished", "scheduler")
           \/ /\ ~cached /\ UNCHANGED <<key, sched>>
              /\ TransitionTo("PreprocessFinished", "send")
  /\ UNCHANGED <<config, daemon, thread, answer, b, told, out, builderVars>>

(* Mutant of LeavePreprocess: the end of the preprocessor is waited for. *)
LeavePreprocessEarly == pc = "preprocess" /\ thread # "running" /\ Preprocessed

LeavePreprocess == Between("preprocess") /\ Preprocessed

-----------------------------------------------------------------------------
(* The scheduler.                                                          *)

(* Connected, the answer to the upgrade read: onConnected(). *)
SchedulerConnects ==
  /\ InLoop /\ sched = "connecting"
  /\ sched' = "connected"
  /\ TransitionTo("ConnectedToScheduler", pc)
  /\ UNCHANGED <<config, daemon, thread, key, answer, b, told, out, builderVars>>

(* Refused, hung up, an upgrade that is none or comes in two pieces; also  *)
(* an answer that is read together with the end of the stream.             *)
SchedulerGone ==
  /\ InLoop /\ sched \in {"connecting", "connected"}
  /\ sched' = "gone"
  /\ UNCHANGED <<mainVars, config, daemon, thread, key, answer, b, told, out,
                 builderVars>>

(* SchedulerWebSocket::onMessage(); what comes late is not looked at. *)
SchedulerAnswers ==
  /\ InLoop /\ pc = "scheduler" /\ sched = "connected"
  /\ \/ /\ answer' \in {"builder", "nobody", "needsEnvironment"}
        /\ UNCHANGED mainVars
     \/ /\ answer' = "error" /\ wd' = Stop
        /\ UNCHANGED <<pc, stage, failed, exit>>
     \/ /\ exit' = "mismatch" /\ pc' = "exit"
        /\ UNCHANGED <<wd, stage, failed, answer>>
  /\ UNCHANGED <<config, daemon, thread, key, sched, b, told, out, builderVars>>

(* An environment that is asked for is uploaded, if it can be prepared,    *)
(* before the local compile.                                               *)
LeaveScheduler ==
  /\ Between("scheduler")
  /\ \/ RunLocal /\ UNCHANGED b
     \/ /\ wd # "timedOut" /\ answer = "needsEnvironment"
        /\ pc' = "environment" /\ wd' = Stop
        /\ UNCHANGED <<stage, failed, exit, b>>
     \/ /\ wd # "timedOut" /\ answer = "builder"
        /\ b' = [b EXCEPT !.state = "connecting"]
        /\ TransitionTo("AcquiredBuilder", "builder")
  /\ UNCHANGED <<config, daemon, thread, key, sched, answer, told, out, builderVars>>

-----------------------------------------------------------------------------
(* The builder's connection, as the client sees it.                        *)

BuilderConnects ==
  /\ InLoop /\ b.state = "connecting"
  /\ b' = [b EXCEPT !.state = "connected"] /\ told' \in BOOLEAN
  /\ UNCHANGED <<mainVars, config, daemon, thread, key, sched, answer, out,
                 builderVars>>

(* Refused, reset: what was sent and not read is lost. *)
BuilderGone ==
  /\ InLoop /\ b.state \in {"connecting", "connected"}
  /\ b' = [b EXCEPT !.state = "gone"]
  /\ wire' = <<>> /\ job' = "gone"
  /\ UNCHANGED <<mainVars, config, daemon, thread, key, sched, answer, told, out,
                 fed, beats, sizes>>

LeaveBuilder ==
  /\ Between("builder")
  /\ \/ /\ wd = "timedOut" \/ b.state # "connected"
        /\ RunLocal
     \/ /\ wd # "timedOut" /\ b.state = "connected"
        /\ TransitionTo("ConnectedToBuilder", IF cached THEN "send" ELSE "preprocess")
  /\ UNCHANGED <<config, daemon, thread, key, sched, answer, b, told, out,
                 builderVars>>

(* The description of the job is put into the send buffer. *)
Send ==
  /\ pc = "send"
  /\ b' = [b EXCEPT !.wait = told]
  /\ out' = Append(out, "json")
  /\ pc' = IF told THEN "wait" ELSE "upload"
  /\ UNCHANGED <<wd, stage, failed, exit, config, daemon, thread, key, sched,
                 answer, told, builderVars>>

(* WebSocket::onWrite(); the builder receives it. *)
Flush ==
  /\ InLoop /\ b.state = "connected" /\ out # <<>>
  /\ out' = Tail(out)
  /\ \/ /\ Head(out) = "json" /\ UNCHANGED fed
        /\ job' = IF job = "gone" THEN job ELSE "queued"
     \/ Head(out) = "source" /\ fed' = TRUE /\ UNCHANGED job
  /\ UNCHANGED <<mainVars, config, daemon, thread, key, sched, answer, b, told,
                 wire, beats, sizes>>

-----------------------------------------------------------------------------
(* The builder.                                                            *)

Client == <<mainVars, config, daemon, thread, key, sched, answer, b, told, out>>

(* The files, each in a message of its own. *)
Contents(index) ==
  [i \in 1..Len(index) |->
     [Message("data") EXCEPT !.file = i, !.bytes = index[i]]]

(* start(): a client that was told to wait is told to go on. *)
Start ==
  /\ job = "queued" /\ job' = "started"
  /\ wire' = IF told THEN Append(wire, Message("resume")) ELSE wire
  /\ UNCHANGED <<Client, fed, beats, sizes>>

(* The response, from the cache for a job that is not started, or of a     *)
(* compile; a read error of the cache closes the connection half way.      *)
Answer ==
  /\ job = "queued" \/ (job = "started" /\ fed)
  /\ \E index \in Indexes :
       /\ sizes' = index
       /\ \/ /\ job' = "answered"
             /\ wire' = wire \o <<[Message("ok") EXCEPT !.index = index]>>
                             \o Contents(index)
          \/ /\ job = "queued" /\ job' = "gone"
             /\ \E n \in 0..Len(index) :
                  wire' = wire \o <<[Message("ok") EXCEPT !.index = index]>>
                               \o SubSeq(Contents(index), 1, n)
                               \o <<Message("eof")>>
  /\ UNCHANGED <<Client, fed, beats>>

(* A compile that failed, an error of the connection's handler. *)
Refuse ==
  /\ job \in {"queued", "started"} /\ job' = "gone"
  /\ wire' = wire \o <<Message("bad"), Message("eof")>>
  /\ UNCHANGED <<Client, fed, beats, sizes>>

Heartbeat ==
  /\ job \in {"queued", "started"} /\ beats < MaxBeats
  /\ beats' = beats + 1
  /\ wire' = Append(wire, Message("heartbeat"))
  /\ UNCHANGED <<Client, job, fed, sizes>>

(* The builder hangs up: no environment, or it stops. *)
HangUp ==
  /\ job \in {"queued", "started", "answered"} /\ job' = "gone"
  /\ wire' = Append(wire, Message("eof"))
  /\ UNCHANGED <<Client, fed, beats, sizes>>

-----------------------------------------------------------------------------
(* WebSocket::onRead(): all there is to read, which is some of wire.  With *)
(* the end of the stream what came just before it is not looked at.        *)
OnRead ==
  /\ InLoop /\ b.state = "connected"
  /\ \E n \in 1..Len(wire), io \in Failures \cup {"none"} :
       LET batch == SubSeq(wire, 1, n)
           r == Handle(batch, io)
       IN /\ wire' = SubSeq(wire, n + 1, Len(wire))
          /\ \/ /\ Last(batch).type = "eof"
                /\ b' = [b EXCEPT !.state = "gone"]
                /\ UNCHANGED mainVars
             \/ /\ Last(batch).type # "eof" /\ ~r.failed
                /\ b' = r.s
                /\ wd' = IF r.s.error THEN Stop ELSE wd
                /\ UNCHANGED <<pc, stage, failed, exit>>
             \/ /\ Last(batch).type # "eof" /\ r.failed
                /\ failed' = "file" /\ exit' = "aborted" /\ pc' = "exit"
                /\ UNCHANGED <<b, wd, stage>>
  /\ UNCHANGED <<config, daemon, thread, key, sched, answer, told, out,
                 job, fed, beats, sizes>>

(* An answer from the cache ends the wait and the run. *)
LeaveWait ==
  /\ Between("wait")
  /\ \/ /\ b.done /\ ~b.error
        /\ exit' = "cachehit" /\ pc' = "exit" /\ wd' = Stop
        /\ stage' = IF wd = "running" THEN stage + 2 ELSE stage
        /\ failed' = IF wd = "running" /\ Len(Stages) # stage + 2 THEN "stage"
                     ELSE failed
     \/ /\ (b.done /\ b.error) \/ (~b.done /\ (wd = "timedOut" \/ b.state # "connected"))
        /\ RunLocal
     \/ /\ ~b.done /\ wd # "timedOut" /\ b.state = "connected"
        /\ pc' = "upload" /\ UNCHANGED <<wd, stage, failed, exit>>
  /\ UNCHANGED <<config, daemon, thread, key, sched, answer, b, told, out,
                 builderVars>>

(* The source is put into the send buffer; the loop that should see it     *)
(* leave is not entered.                                                   *)
Upload ==
  /\ pc = "upload"
  /\ \/ /\ ~b.wait
        /\ out' = Append(out, "source")
        /\ \/ b.state # "connected" /\ RunLocal
           \/ b.state = "connected" /\ TransitionTo("UploadedJob", "response")
     \/ /\ b.wait
        /\ failed' = "wait" /\ exit' = "aborted" /\ pc' = "exit"
        /\ UNCHANGED <<wd, stage, out>>
  /\ UNCHANGED <<config, daemon, thread, key, sched, answer, b, told, builderVars>>

LeaveResponse ==
  /\ Between("response")
  /\ \/ /\ wd = "timedOut" \/ ~b.done \/ b.error
        /\ RunLocal
     \/ /\ wd # "timedOut" /\ b.done /\ ~b.error
        /\ exit' = "remote" /\ pc' = "exit" /\ wd' = Stop
        /\ stage' = IF wd = "running" THEN stage + 1 ELSE stage
        /\ failed' = IF wd = "running" /\ Len(Stages) # stage + 1 THEN "stage"
                     ELSE failed
  /\ UNCHANGED <<config, daemon, thread, key, sched, answer, b, told, out,
                 builderVars>>

-----------------------------------------------------------------------------
(* The loops without a timer.                                              *)

(* uploadEnvironment() returns. *)
Uploaded ==
  /\ pc = "environment" /\ RunLocal
  /\ UNCHANGED <<config, daemon, thread, key, sched, answer, b, told, out,
                 builderVars>>

(* The scheduler has taken the last piece; or the connection is over. *)
EnvironmentTaken == InLoop /\ Uploaded
LeaveEnvironment == Between("environment") /\ Uploaded

(* waitForCompileSlot() returns, with a slot or without. *)
GoLocal ==
  /\ pc = "slot" /\ Compile
  /\ UNCHANGED <<config, daemon, thread, key, sched, answer, b, told, out,
                 builderVars>>

(* The daemon grants the slot; or anything else wakes the select() once    *)
(* slotAcquisitionTimeout has passed: no timer does.                       *)
SlotComes == InLoop /\ GoLocal
LeaveSlot == Between("slot") /\ GoLocal

Main ==
  \/ LeaveDaemon \/ LeavePreprocess \/ LeaveScheduler \/ LeaveBuilder
  \/ Send \/ LeaveWait \/ Upload \/ LeaveResponse
  \/ LeaveEnvironment \/ LeaveSlot

Next ==
  \/ Main \/ Timeout
  \/ DaemonConnects \/ DaemonLost \/ ThreadRuns \/ ThreadDone
  \/ SchedulerConnects \/ SchedulerGone \/ SchedulerAnswers
  \/ BuilderConnects \/ BuilderGone \/ Flush \/ OnRead
  \/ EnvironmentTaken \/ SlotComes
  \/ Start \/ Answer \/ Refuse \/ Heartbeat \/ HangUp

Spec == Init /\ [][Next]_vars

(* main() goes on when its loop is over, and the timer of the watchdog     *)
(* comes; nothing is expected of daemon, scheduler, builder and thread.    *)
Fairness == WF_vars(Main) /\ WF_vars(Timeout)
LiveSpec == Spec /\ Fairness

-----------------------------------------------------------------------------
(* The stages are passed in the order the watchdog has them in, with and   *)
(* without object cache (Watchdog.cpp:26), and the source goes to a        *)
(* builder that has a client wait only once it has started the job, which  *)
(* the client has heard of (main.cpp:551).                                 *)
OrderHolds ==
  /\ TypeOK
  /\ failed \notin {"stage", "wait"}
  /\ told /\ (fed \/ \E i \in 1..Len(out) : out[i] = "source")
       => job # "queued"

(* A run that ends without a local compile has every output file the       *)
(* builder sent, whole and with its own contents, whatever the pieces they *)
(* came in, and whatever the builder did afterwards.                       *)
RemoteIsWhole ==
  exit \in {"remote", "cachehit"} =>
    /\ b.done /\ ~b.error /\ b.intact
    /\ b.files = <<>> /\ b.total = Len(sizes)

(* What the object cache is asked for, and filled under, is the MD5 of the *)
(* whole source, unless the daemon went away while it was computed, or the *)
(* source was preprocessed already (Preprocessed.cpp:71-115).              *)
KeyIsOfSource ==
  sched # "none" /\ cached /\ daemon = "connected" /\ given = "source"
  => key = "whole"

(* What the option object-cache promises: the output of a compile, that is *)
(* of this source and not of another file of its name (Config.cpp:86).     *)
KeyTellsSources ==
  sched # "none" /\ cached /\ daemon = "connected" => key \in {"part", "whole"}

(* Whoever falls silent, a run ends or reaches one of the two waits that   *)
(* have no timer and stays there: the daemon does not answer the request   *)
(* for a compile slot, and nothing else wakes the select() that would look *)
(* at slotAcquisitionTimeout (DaemonSocket.cpp:222), or the scheduler does *)
(* not read the environment it asked for (Client.cpp:780).  Everywhere     *)
(* else the watchdog is running, or what stopped it has ended the loop.    *)
Blocked(loop) == InLoop /\ pc = loop
RunEnds == <>(pc = "exit") \/ <>[]Blocked("slot") \/ <>[]Blocked("environment")

=============================================================================
