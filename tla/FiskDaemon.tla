----------------------------- MODULE FiskDaemon -----------------------------
(***************************************************************************)
(* fisk-daemon and the fiskc processes of one machine.                     *)
(*                                                                         *)
(* The daemon (daemon/fisk-daemon.js, compile.js, server.js) owns two slot *)
(* pools; every fiskc has one connection to it, over which it asks for a   *)
(* slot of the "cpp" pool before it preprocesses and for one of the        *)
(* "compile" pool before it falls back to a local compile.  fiskc          *)
(* (client/main.cpp, Preprocessed.cpp, DaemonSocket.cpp) is modelled as    *)
(* far as it drives this protocol: what the scheduler and the builder do   *)
(* only decides, nondeterministically, which way the main thread goes.     *)
(***************************************************************************)
EXTENDS Integers, Sequences, SequencesExt

CONSTANTS
  Clients,          \* fiskc processes; a finished one may start again
  CppCount,         \* --cpp-slots
  CompileCount,     \* --slots
  UploadFinishers,  \* clients with --release-cpp-slot-mode=upload-finished
  MaxStops          \* how often the daemon is killed and started again

ASSUME DaemonAssumption ==
  /\ CppCount \in Nat /\ CompileCount \in Nat /\ MaxStops \in Nat
  /\ UploadFinishers \subseteq Clients

VARIABLES
  cppUsed, cppPending,           \* cppSlots
  compileUsed, compilePending,   \* compileSlots
  requestedCpp,                  \* [Clients -> BOOLEAN], per connection
  requestedCompile,              \* [Clients -> BOOLEAN], per connection
  conn,       \* "closed", "open", or "ended": closed by the client only
  commands,   \* bytes on their way to the daemon, one Seq per connection
  replies,    \* slots granted that the client has not read yet
  failed,     \* an assertion of the daemon failed
  stops,      \* how often the daemon went down
  phase,      \* where the main thread of the client is
  thread,     \* where its preprocessing thread is
  hasCpp,     \* DaemonSocket::mHasCppSlot
  hasCompile, \* DaemonSocket::mHasCompileSlot
  unsent      \* clients with preprocessed source left in their send buffer

cppVars == <<cppUsed, cppPending>>
compileVars == <<compileUsed, compilePending>>
flagVars == <<requestedCpp, requestedCompile>>
daemonVars == <<cppVars, compileVars, flagVars, failed, stops>>
wireVars == <<conn, commands, replies>>
slotVars == <<hasCpp, hasCompile>>
clientVars == <<phase, thread, slotVars, unsent>>
vars == <<daemonVars, wireVars, clientVars>>

Cpp == INSTANCE Slots
         WITH Ids <- Clients, Count <- CppCount,
              used <- cppUsed, pending <- cppPending
Compile == INSTANCE Slots
         WITH Ids <- Clients, Count <- CompileCount,
              used <- compileUsed, pending <- compilePending

Commands == {"AcquireCppSlot", "AcquireCompileSlot", "ReleaseCppSlot"}
Pools == {"cpp", "compile"}
Nobody == [c \in Clients |-> FALSE]

Init ==
  /\ Cpp!SlotsInit /\ Compile!SlotsInit
  /\ requestedCpp = Nobody /\ requestedCompile = Nobody
  /\ failed = FALSE /\ stops = 0
  /\ conn = [c \in Clients |-> "closed"]
  /\ commands = [c \in Clients |-> <<>>]
  /\ replies = [c \in Clients |-> {}]
  /\ phase = [c \in Clients |-> "idle"]
  /\ thread = [c \in Clients |-> "none"]
  /\ hasCpp = Nobody /\ hasCompile = Nobody
  /\ unsent = {}

-----------------------------------------------------------------------------
(* The daemon.                                                             *)

(* The reply callback writes to the connection of whoever got the slot. *)
SendGrants(pool, granted) ==
  replies' = [c \in Clients |->
                IF c \in granted /\ conn[c] = "open"
                THEN replies[c] \cup {pool} ELSE replies[c]]

NewCppHolders == Cpp!Holders' \ Cpp!Holders
NewCompileHolders == Compile!Holders' \ Compile!Holders

(* An assertion fails: uncaughtException, process.exit(). *)
AssertionFails ==
  /\ failed' = TRUE
  /\ UNCHANGED <<cppVars, compileVars, flagVars, stops, replies>>

AcquireCppSlot(c) ==
  \/ requestedCpp[c] /\ AssertionFails
  \/ /\ ~requestedCpp[c]
     /\ requestedCpp' = [requestedCpp EXCEPT ![c] = TRUE]
     /\ Cpp!Acquire(c)
     /\ SendGrants("cpp", NewCppHolders)
     /\ UNCHANGED <<compileVars, requestedCompile, failed, stops>>

AcquireCompileSlot(c) ==
  \/ requestedCompile[c] /\ AssertionFails
  \/ /\ ~requestedCompile[c]
     /\ requestedCompile' = [requestedCompile EXCEPT ![c] = TRUE]
     /\ Compile!Acquire(c)
     /\ SendGrants("compile", NewCompileHolders)
     /\ UNCHANGED <<cppVars, requestedCpp, failed, stops>>

ReleaseCppSlot(c) ==
  \/ ~(requestedCpp[c] /\ Cpp!ReleaseAsserts(c)) /\ AssertionFails
  \/ /\ requestedCpp[c] /\ Cpp!ReleaseAsserts(c)
     /\ requestedCpp' = [requestedCpp EXCEPT ![c] = FALSE]
     /\ Cpp!Release(c)
     /\ SendGrants("cpp", NewCppHolders)
     /\ UNCHANGED <<compileVars, requestedCompile, failed, stops>>

(* Compile::_onData: the next command of a connection. *)
OnData(c) ==
  /\ ~failed
  /\ conn[c] # "closed" /\ commands[c] # <<>>
  /\ commands' = [commands EXCEPT ![c] = Tail(@)]
  /\ \/ Head(commands[c]) = "AcquireCppSlot" /\ AcquireCppSlot(c)
     \/ Head(commands[c]) = "AcquireCompileSlot" /\ AcquireCompileSlot(c)
     \/ Head(commands[c]) = "ReleaseCppSlot" /\ ReleaseCppSlot(c)
  /\ UNCHANGED <<conn, clientVars>>

(* Mutant of GiveBackCpp: a client that only waits is left in the queue. *)
GiveBackCppHeld(c) ==
  \/ c \in Cpp!Holders /\ Cpp!Release(c)
  \/ c \notin Cpp!Holders /\ UNCHANGED cppVars

(* What 'end' and 'error' do with each pool. *)
GiveBackCpp(c) ==
  \/ requestedCpp[c] /\ Cpp!Release(c)
  \/ ~requestedCpp[c] /\ UNCHANGED cppVars
GiveBackCompile(c) ==
  \/ requestedCompile[c] /\ Compile!Release(c)
  \/ ~requestedCompile[c] /\ UNCHANGED compileVars

(***************************************************************************)
(* 'end' after the last command, or 'error' (writing a grant to a client   *)
(* that is gone) with commands still unread: both take everything back.    *)
(***************************************************************************)
OnEnd(c) ==
  /\ ~failed
  /\ conn[c] = "ended"
  /\ conn' = [conn EXCEPT ![c] = "closed"]
  /\ commands' = [commands EXCEPT ![c] = <<>>]
  /\ GiveBackCpp(c) /\ GiveBackCompile(c)
  /\ requestedCpp' = [requestedCpp EXCEPT ![c] = FALSE]
  /\ requestedCompile' = [requestedCompile EXCEPT ![c] = FALSE]
  /\ replies' = [d \in Clients |->
       IF conn'[d] # "open" THEN replies[d]
       ELSE replies[d] \cup {p \in Pools :
              \/ p = "cpp" /\ d \in NewCppHolders
              \/ p = "compile" /\ d \in NewCompileHolders}]
  /\ UNCHANGED <<failed, stops, clientVars>>

(* SIGINT, or a crash of the host process, and a fresh start. *)
DaemonStops ==
  /\ ~failed /\ stops < MaxStops
  /\ stops' = stops + 1
  /\ cppUsed' = <<>> /\ cppPending' = <<>>
  /\ compileUsed' = <<>> /\ compilePending' = <<>>
  /\ requestedCpp' = Nobody /\ requestedCompile' = Nobody
  /\ conn' = [c \in Clients |-> "closed"]
  /\ commands' = [c \in Clients |-> <<>>]
  /\ UNCHANGED <<failed, replies, clientVars>>

-----------------------------------------------------------------------------
(* fiskc.                                                                  *)

Connected(c) == conn[c] = "open"

(* DaemonSocket::send; without a daemon the bytes go nowhere. *)
Send(c, cmd) ==
  commands' = IF Connected(c) THEN [commands EXCEPT ![c] = Append(@, cmd)]
                              ELSE commands

GoTo(c, p) == phase' = [phase EXCEPT ![c] = p]

(***************************************************************************)
(* A new fiskc connects, asks for a cpp slot and starts the thread that    *)
(* waits for it, or (disabled, not a compile) goes straight to runLocal.   *)
(***************************************************************************)
Start(c) ==
  /\ phase[c] = "idle" /\ conn[c] = "closed"
  /\ conn' = [conn EXCEPT ![c] = "open"]
  /\ \/ /\ GoTo(c, "preprocess")
        /\ thread' = [thread EXCEPT ![c] = "waiting"]
        /\ commands' = [commands EXCEPT ![c] = <<"AcquireCppSlot">>]
     \/ /\ GoTo(c, "waitCompile")
        /\ commands' = [commands EXCEPT ![c] = <<"AcquireCompileSlot">>]
        /\ UNCHANGED thread
  /\ UNCHANGED <<daemonVars, replies, slotVars, unsent>>

(* DaemonSocket::processMessage: read one grant. *)
OnRead(c, pool) ==
  /\ pool \in replies[c] /\ phase[c] \notin {"idle", "compiling"}
  /\ replies' = [replies EXCEPT ![c] = @ \ {pool}]
  /\ \/ /\ pool = "cpp"
        /\ hasCpp' = [hasCpp EXCEPT ![c] = TRUE]
        /\ UNCHANGED hasCompile
     \/ /\ pool = "compile"
        /\ hasCompile' = [hasCompile EXCEPT ![c] = TRUE]
        /\ UNCHANGED hasCpp
  /\ UNCHANGED <<daemonVars, conn, commands, phase, thread, unsent>>

(* The thread of Preprocessed::create: waitForCppSlot, run, done. *)
ThreadRuns(c) ==
  /\ thread[c] = "waiting" /\ hasCpp[c]
  /\ thread' = [thread EXCEPT ![c] = "running"]
  /\ UNCHANGED <<daemonVars, wireVars, phase, slotVars, unsent>>
ThreadDone(c) ==
  /\ thread[c] = "running"
  /\ thread' = [thread EXCEPT ![c] = "done"]
  /\ UNCHANGED <<daemonVars, wireVars, phase, slotVars, unsent>>

(***************************************************************************)
(* The main thread has seen the preprocessor finish.  It gives the slot    *)
(* back, unless it is to keep it until the upload, and goes on to the      *)
(* builder, or to runLocal if preprocessing failed.                        *)
(***************************************************************************)
PreprocessFinished(c) ==
  /\ phase[c] = "preprocess" /\ thread[c] = "done"
  /\ \E ok \in BOOLEAN :
       LET release == IF c \in UploadFinishers THEN <<>>
                      ELSE <<"ReleaseCppSlot">>
           acquire == IF ok THEN <<>> ELSE <<"AcquireCompileSlot">>
       IN /\ GoTo(c, IF ok THEN "remote" ELSE "waitCompile")
          /\ commands' = IF Connected(c)
                         THEN [commands EXCEPT ![c] = @ \o release \o acquire]
                         ELSE commands
  /\ UNCHANGED <<daemonVars, conn, replies, thread, slotVars, unsent>>

(* Mutant of UploadedJob: the slot is released whatever the release mode. *)
UploadedAndReleased(c) ==
  /\ phase[c] = "remote"
  /\ GoTo(c, "uploaded")
  /\ unsent' = unsent \cup {c}
  /\ Send(c, "ReleaseCppSlot")
  /\ UNCHANGED <<daemonVars, conn, replies, thread, slotVars>>

(***************************************************************************)
(* The preprocessed source goes into the send buffer of the socket to the  *)
(* builder.  The loop that is to wait until the buffer is empty runs while *)
(* the watchdog HAS timed out (main.cpp:555), so it ends at once.          *)
(***************************************************************************)
UploadedJob(c) ==
  /\ phase[c] = "remote"
  /\ GoTo(c, "uploaded")
  /\ unsent' = unsent \cup {c}
  /\ \/ c \in UploadFinishers /\ Send(c, "ReleaseCppSlot")
     \/ c \notin UploadFinishers /\ UNCHANGED commands
  /\ UNCHANGED <<daemonVars, conn, replies, thread, slotVars>>

(* WebSocket::send, called by select, writes the last of the buffer. *)
UploadSent(c) ==
  /\ c \in unsent /\ phase[c] \in {"uploaded", "waitCompile"}
  /\ unsent' = unsent \ {c}
  /\ UNCHANGED <<daemonVars, wireVars, phase, thread, slotVars>>

(* Mutant of RunLocal: the cpp slot is released while the thread may run. *)
RunLocalReleasing(c) ==
  /\ phase[c] \in {"preprocess", "remote", "uploaded"}
  /\ GoTo(c, "waitCompile")
  /\ commands' =
       IF Connected(c)
       THEN [commands EXCEPT
               ![c] = @ \o <<"ReleaseCppSlot", "AcquireCompileSlot">>]
       ELSE commands
  /\ UNCHANGED <<daemonVars, conn, replies, thread, slotVars, unsent>>

(***************************************************************************)
(* The runLocal lambda, from wherever the main thread gave up: a watchdog  *)
(* timeout, no builder, an error of the builder.  Whatever slot the client *)
(* has or waits for stays as it is.                                        *)
(***************************************************************************)
RunLocal(c) ==
  /\ phase[c] \in {"preprocess", "remote", "uploaded"}
  /\ GoTo(c, "waitCompile")
  /\ Send(c, "AcquireCompileSlot")
  /\ UNCHANGED <<daemonVars, conn, replies, thread, slotVars, unsent>>

(* Mutant of DaemonLost: the loop looks at the daemon's socket too late. *)
DaemonLostLate(c) ==
  phase[c] = "preprocess" /\ ~Connected(c) /\ hasCpp[c] /\ RunLocal(c)

(* The daemon is gone: the wait for the preprocessor ends, main.cpp:320. *)
DaemonLost(c) == phase[c] = "preprocess" /\ ~Connected(c) /\ RunLocal(c)

(* waitForCompileSlot ends with the slot, or without it ... *)
CompileSlotAcquired(c) ==
  /\ phase[c] = "waitCompile" /\ (hasCompile[c] \/ ~Connected(c))
  /\ GoTo(c, "compiling")
  /\ UNCHANGED <<daemonVars, wireVars, thread, slotVars, unsent>>
(***************************************************************************)
(* ... after slotAcquisitionTimeout.  It is looked at only when something  *)
(* else wakes the select(), which may be never: so this may happen and     *)
(* need not, and has no fairness.                                          *)
(***************************************************************************)
SlotAcquisitionTimeout(c) ==
  /\ phase[c] = "waitCompile" /\ ~hasCompile[c]
  /\ GoTo(c, "compiling")
  /\ UNCHANGED <<daemonVars, wireVars, thread, slotVars, unsent>>

(***************************************************************************)
(* The process ends and with it its threads and its end of the connection; *)
(* what select() had not flushed yet is lost.                              *)
(***************************************************************************)
Exit(c) ==
  /\ GoTo(c, "idle")
  /\ thread' = [thread EXCEPT ![c] = "none"]
  /\ hasCpp' = [hasCpp EXCEPT ![c] = FALSE]
  /\ hasCompile' = [hasCompile EXCEPT ![c] = FALSE]
  /\ replies' = [replies EXCEPT ![c] = {}]
  /\ conn' = [conn EXCEPT ![c] = IF @ = "open" THEN "ended" ELSE @]
  /\ \E n \in 0..Len(commands[c]) :
       commands' = [commands EXCEPT ![c] = SubSeq(@, 1, n)]
  /\ unsent' = unsent \ {c}
  /\ UNCHANGED daemonVars

(* The builder answered, or the local compiler returned. *)
Finish(c) == phase[c] \in {"remote", "uploaded", "compiling"} /\ Exit(c)
(* Interrupted, at any point. *)
Killed(c) == phase[c] # "idle" /\ Exit(c)

-----------------------------------------------------------------------------
ClientStep(c) ==
  \/ \E pool \in Pools : OnRead(c, pool)
  \/ ThreadRuns(c) \/ ThreadDone(c)
  \/ PreprocessFinished(c) \/ UploadedJob(c) \/ UploadSent(c)
  \/ CompileSlotAcquired(c) \/ DaemonLost(c) \/ Finish(c)

Next ==
  \/ DaemonStops
  \/ \E c \in Clients :
       \/ OnData(c) \/ OnEnd(c)
       \/ Start(c) \/ ClientStep(c)
       \/ RunLocal(c) \/ SlotAcquisitionTimeout(c) \/ Killed(c)

Spec == Init /\ [][Next]_vars

(***************************************************************************)
(* Node's event loop serves every connection; a process that can take its  *)
(* next step takes it; the network, the builder and the compilers answer.  *)
(* Nothing makes a client start, be killed, give up or time out.           *)
(***************************************************************************)
Fairness ==
  \A c \in Clients :
    /\ WF_vars(OnData(c)) /\ WF_vars(OnEnd(c))
    /\ \A pool \in Pools : WF_vars(OnRead(c, pool))
    /\ WF_vars(ThreadRuns(c)) /\ WF_vars(ThreadDone(c))
    /\ WF_vars(PreprocessFinished(c)) /\ WF_vars(UploadedJob(c))
    /\ WF_vars(CompileSlotAcquired(c)) /\ WF_vars(DaemonLost(c))
    /\ WF_vars(Finish(c))

FairSpec == Spec /\ Fairness

-----------------------------------------------------------------------------
TypeOK ==
  /\ Cpp!SlotsTypeOK /\ Compile!SlotsTypeOK
  /\ requestedCpp \in [Clients -> BOOLEAN]
  /\ requestedCompile \in [Clients -> BOOLEAN]
  /\ conn \in [Clients -> {"closed", "open", "ended"}]
  /\ commands \in [Clients -> Seq(Commands)]
  /\ replies \in [Clients -> SUBSET Pools]
  /\ failed \in BOOLEAN /\ stops \in 0..MaxStops
  /\ phase \in [Clients -> {"idle", "preprocess", "remote", "uploaded",
                            "waitCompile", "compiling"}]
  /\ thread \in [Clients -> {"none", "waiting", "running", "done"}]
  /\ hasCpp \in [Clients -> BOOLEAN] /\ hasCompile \in [Clients -> BOOLEAN]
  /\ unsent \subseteq Clients

(***************************************************************************)
(* No order in which clients ask, give up, finish and die makes one of the *)
(* daemon's assertions fail (fisk-daemon.js:58,70,82,94, slots.js:38-39),  *)
(* which would take every client's daemon down with it.                    *)
(***************************************************************************)
NoAssertionFails == ~failed

(***************************************************************************)
(* The flags of the connections and the pools agree, and a connection that *)
(* is gone has no request left: no slot leaks when clients die.            *)
(***************************************************************************)
FlagsMatchPools ==
  /\ TypeOK
  /\ Cpp!Requested = {c \in Clients : requestedCpp[c]}
  /\ Compile!Requested = {c \in Clients : requestedCompile[c]}
  /\ \A c \in Cpp!Requested \cup Compile!Requested : conn[c] # "closed"

(***************************************************************************)
(* What the pools are for: a connected client whose preprocessor runs has  *)
(* a slot at that moment, so that no more than CppCount of them run at a   *)
(* time; and a local compile that was told it has a slot has one.  Client  *)
(* and daemon only know each other's state through messages in flight.     *)
(***************************************************************************)
RunningHasSlot ==
  \A c \in Clients : Connected(c) =>
    /\ thread[c] = "running" => c \in Cpp!Holders
    /\ phase[c] = "compiling" /\ hasCompile[c] => c \in Compile!Holders

(***************************************************************************)
(* What --release-cpp-slot-mode=upload-finished promises (Config.cpp:119): *)
(* the cpp slot is kept for as long as there is source left to upload.     *)
(***************************************************************************)
SlotKeptForUpload ==
  \A c \in UploadFinishers :
     c \in unsent /\ Connected(c) => c \in Cpp!Holders

(***************************************************************************)
(* Every run of fiskc ends, so whoever waits for a slot gets one or leaves. *)
(* The two pools cannot deadlock each other although a client may hold a   *)
(* cpp slot while it waits for a compile slot, and they do not need the    *)
(* timeouts for that.                                                      *)
(***************************************************************************)
EveryRunEnds == \A c \in Clients : phase[c] # "idle" ~> phase[c] = "idle"
=============================================================================
