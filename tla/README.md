# A verification project for fisk

fisk is a distributed compile system: `fiskc` (client/, C++) stands in for the
compiler, preprocesses the source, asks a *scheduler* for a *builder*, uploads
the source to that builder and writes the files it gets back; when anything goes
wrong it compiles locally. A *daemon* on every client machine limits how many
preprocessors and local compilers run at a time. Everything on the server side
is Node.js: one event loop per process, every handler runs to its end, and what
interleaves is the order of events. fiskc is a process with two threads, and
there are many of them.

This directory holds TLA+ modules translated from the source, TLC configurations
that check them on small instances, and TLAPS proofs of the results that matter
most. `PROJECT.json` maps every definition to the lines it stands for.

## 1. Inventory

| Part | State | Operations | Talks to |
|---|---|---|---|
| daemon/slots.js | Maps `used`, `pending` | `acquire`, `release` | callbacks of its caller |
| daemon/fisk-daemon.js, compile.js, server.js | two pools; per connection `requestedCppSlot`, `requestedCompileSlot` | acquire/release of each pool, `error`, `end`, uncaughtException | fiskc, over a Unix socket, one byte per command |
| fiskc: DaemonSocket, Preprocessed, main.cpp | has the slots, phase of the main thread, the preprocessing thread | connect, wait for slots, release, run locally | daemon |
| fiskc: Scheduler/BuilderWebSocket, Watchdog, Select | stage of the watchdog, response parser | connect, upload, receive, retry | scheduler, builder |
| builder/fisk-builder.js, server.js | `jobQueue`, the objects `j`, `environments` | job arrives, data, error, close, cache hit, finished; environments | fiskc, VM processes, scheduler |
| builder/VM.js, VM_runtime.js, compile.js | `compiles` in both processes | start, feed, cancel, destroy, finished | each other by IPC |
| builder/objectcache.js | `cache`, `pending`, size | add, remove, purge, get, state | files, scheduler |
| builder/client.js | the connection to the scheduler | send, reconnect | scheduler |
| scheduler/fisk-scheduler.js, server.js | `builders`, `activeJobs`, `capacity`, `pendingEnvironments`, ... | builder connects/closes/load/environments, compile, upload, ping | everybody |
| scheduler/environments.js | environments on disk, links, uploads | prepare, complete, remove, link | files |
| scheduler/objectcachemanager.js | `byMd5`, `byNode` | insert, remove, addNode, removeNode, distribute | builders |
| scheduler/database.js | `queue`, `busy`, the file and its temporary | get, set | one JSON file |
| scheduler: users, links | `pendingUsers`, `_links`, the keys "users" and "links" of the database | addUser, removeUser, login, link, unlink, load at the start | monitors, database |
| deployment/.../run-fisk-scheduler.js | `fisk`, `killed`, `checkForUpdateActive`, timers, the directories prod/ and stage/ | check for an update, install, replace, start, kill, restart, SIGHUP | npm, a shell, the scheduler it forks |
| scheduler/peak.js | windowed maxima | add | - |
| monitor, proxy, packaging, create-fisk-env | - | user interface, relay, installation | - |

What is hard about it, and what makes each part correct:

* **daemon**: clients die at any point, with commands unread and grants in flight.
  A slot must not leak, must not be idle while somebody waits, and must not be
  counted twice; the daemon's assertions must hold, since one that fails takes
  the daemon of the machine down.
* **builder queue**: finishes, cache hits, failing cache reads, hang-ups and
  socket errors all free slots and may come in any order, and the VM process can
  go down. Every job must leave the queue once, be answered at most once and be
  reported to the scheduler consistently; no slot may stay idle.
* **scheduler**: connections break without notice and builders come back under
  the same key before their old connection is known to be dead. Counters must
  stay exact, only connected builders may be chosen, free slots come first, and
  an environment may be pending only while somebody uploads it.
* **object cache, environments, database, users**: several asynchronous file
  operations per request, any of which can fail or be overtaken by the next
  request. What a request was told must be so, a file must never be half written,
  and nobody may wait for ever.
* **supervisor**: crashes of the scheduler, timers and checks for updates overlap.
  There must be one scheduler at a time, it must run from a whole installation,
  and it must come back.

`PROJECT.json` lists the hazards one by one, each at its line, with the
properties that cover it or the reason why none does yet.

## 2. The modules

### SlotLine, Slots (daemon/slots.js)

`SlotLine` is the abstract promise: requests stand in one line in the order they
were made, and the slots belong to the first `Count` of them. `Slots` is the
class: the Maps are sequences of their keys, because a JavaScript Map iterates in
insertion order and the hand-over in `release()` depends on that. `Acquire` and
`Release` are whole methods, the hand-over included; the two assertions of
`release()` are the operators `SlotWasCounted` and `NoOneWaitedInVain`, evaluated
where the code evaluates them. `SlotsNext` is the pool as fisk-daemon.js uses it:
its flags let a connection acquire only without and release only with an
outstanding request. The refinement mapping is `line <- used \o pending`.

### FiskDaemon (daemon/, and client/ as far as it drives the daemon)

Two instances of `Slots`, the flags of every connection, the bytes in flight each
way, and fiskc: the phase of its main thread, its preprocessing thread and the slots
its `DaemonSocket` knows of. `AcquireCppSlot`, `AcquireCompileSlot` and
`ReleaseCppSlot` are the handlers with their assertions (`AssertionFails` is the
uncaughtException handler), `OnEnd` is `'end'` or `'error'`, `DaemonStops` a crash
or SIGINT followed by a new daemon. A client's actions follow main(): `Start`,
`PreprocessFinished`, `UploadedJob`, `RunLocal` (from anywhere a watchdog or an
error sends it), the wait for the compile slot with its timeout, `Finish`, `Killed`.
`SlotAcquisitionTimeout` has no fairness: the code compares the time only when
something else has woken its `select()` (DaemonSocket.cpp:222). When a process
exits, any suffix of what it wrote may be lost unread. What the scheduler and the
builder answer is nondeterministic.

### KeySequences, SlotsProofs, FiskDaemonProofs

`KeySequences` has the lemmas about sequences without duplicates (what is in them,
how many they are, what removing, appending and taking the head make of that);
the pools' Maps, the builder's `jobQueue` and the cache's keys are such sequences.
Its second half is induction over numbers and what is needed about folds
(section 5). The others are the theorems about the pools and the daemon.

### BuilderQueue (builder/)

`queue` is `jobQueue`, `job[j]` the objects `j` and `job` with both ends of their
websocket, `cache` is `objectCache.state`, `vm` in a job is where its compile is
between the two processes. Handlers call each other (`startPending` runs inside
`close` and inside `finished`), so the steps of a handler are operators from a
state of the jobs to the next (`Answer`, `Tell`, `Compile`, `Leave`) and each
action is the whole handler. The reads of a cached object are one step (`CacheHit`,
`CacheReadFails`). The object of a compile that failed has no files
(builder/compile.js:240); its hit is over within `j.start()`, which is `ReadCache`
followed at once by `CacheHit` here. `MaxVmDeaths = 1` lets the VM process go
down, by accident or because its environment is dropped. The theorems are in
`BuilderQueueProofs`.

### Scheduler (scheduler/fisk-scheduler.js, server.js, environments.js)

The registry `builders` maps a key ("ip port") to a connection; counters, load
and environments belong to connections, as they do in the code, where a builder
that reconnects gets a new object. `CompileConnects` is the handler of a compile:
version check, request for an environment, the candidates (whoever holds the
object; otherwise whoever has a usable environment), the score
`min(4, free slots) * (100 - load)`, and the assignment or the refusal. The
tie-break (time of the last job, order of the registry) is a choice among the
best. `GiveBack` is `'error'` and `'close'` of an assigned compile. Uploads are
modelled up to what `pendingEnvironments` sees, the throwing `discard()`
included.

### FiskClient (client/main.cpp and what it calls)

One run of main() from the connection to the daemon to its exit code. The main
thread is in `select()` in one of eight loops (`pc`), where it hears of sockets,
timers and the preprocessing thread, or on its way from one loop to the next, which
is one action (`LeaveDaemon`, `Preprocessed`, ..., `LeaveResponse`) with all the
conditions main() tests there in their order. `InLoop` is the loops' conditions. The
watchdog (`wd`, `stage`) has its asserted order of stages in both modes; `Timeout`
may only happen in a round of select() in which no socket fired, as Select.cpp has
it. The last two loops come after `watchdog->stop()` and have no timer: the wait for
the compile slot of a local compile (DaemonSocket.cpp:222) and before it, for a
client that is asked for an environment, the upload (Client.cpp:766), which hears of
the scheduler only. The local processes that prepare the upload, and the local
compile, are assumed to end. `b` is the BuilderWebSocket: `Fill` and `FillRound` are
`fill()` with its two bounds, `OnMessage` the parser, and `OnRead` takes any number
of the messages that wait, since WebSocket::onRead() reads all there are before
main() looks at anything. With the end of the stream the messages read together with
it are lost. The builder's side of the connection is what fisk-builder.js sends in
which order, to a client told to wait or not. Slots are FiskDaemon's matter, the
queue BuilderQueue's.

### ObjectCache (builder/objectcache.js, scheduler/objectcachemanager.js)

Every operation of the cache (its state and specification are `cacheVars` and
`CacheSpec`) with the file it writes, the size it counts, the order it purges in
(`Without` of `KeyOrder`, which deletes keys and leaves the order of the others), the
messages it causes, and what the scheduler makes of them (`known` counts the entries
in `byMd5`, which may hold a node twice). Each connection to the scheduler makes a new
ObjectCache while the old one may still be writing, so there are two instances. The
`Streams` are the downloads of fetch_cache_objects: one begins for every order, whatever
is cached, written or downloaded already, so two may be of one object. A writer
(`Writers`: an instance or a stream) truncates the file it opens; who was writing it
goes on in a file that was cut (`"cut"`), and may leave one of full length with a hole
in it (`"torn"`), which passes for whole where only the size is compared. The callback
of a buffered write comes before its bytes are in the file (`PendingItem`): `WriteEnds`
and `Flush` come in either order. `muddled` is a history variable: a reconnect met a
write or what such writes had left, or a download met an object that was there or being
written, by an add or by another download. The code does not keep them apart (two
overlapping downloads count an object twice and report it twice) and the properties say
what holds until then, and again after the next quiet connection. On the scheduler's
side every connection has a node of its own, so the late close of an old one removes
nothing of the next.

### Environments, EnvSync (scheduler's syncEnvironments, builder's environments, VM.js)

`Environments` declares what this module and the next share: `data`, the
environments the scheduler has. What happens to it here is `Stores` (an
environment comes, others or it itself are purged) and `SchedulerRestarts`, and the
specification is `SyncSpec`. A connection that breaks may close at both ends at once
or only at the builder's: then the scheduler holds on to it (`ghosts`) while the builder
connects again, and when it closes at last (`GhostCloses`), removeBuilder() deletes the
entry of the registry by its key, whoever has it. `listed` says that the builder's
connection is in the registry; one that is not (`Ousted`) is told of no upload.
A builder that starts (`boot`) first waits for every VM process it made from its
directories to say 'ready' or 'error', and connects then; `Hangs` names the
builders that never will, since VM emits neither when its process dies. From
there on: what the scheduler has and believes, what the builder has, its directories, and
the chains of work that `getEnvironments` starts, which do not know of each
other. The history variable `tangled` says that a fetch met an environment that
is there, going down, or being fetched.

### EnvironmentUpload (scheduler/environments.js, requestEnvironment)

The archives on disk and the environments made of them, with uploads that are
asked for, written, checked and discarded while their sockets close and fail in
any order; `Store` and `Purge` are purgeEnvironmentsToMaxSize with its early end.
`overlap` is the set of environments two uploads of which met, `robbed` says that
the end of one upload took another one's entry from pendingEnvironments.

### KeyValueStore, Database, Users (scheduler/database.js, users, links)

`KeyValueStore` is the abstract promise: a call of get() or set() takes effect at
one moment between call and answer, or fails without effect. `Database` is the
class, step by step: the queue of callers, `busy`, the read of the file, the write
of a temporary file and the rename. A failing read, write or rename rejects; what a
process that dies leaves in the file is what it was. set() releases the queue before
its rename is over; `overtaken` is the history of the set() that read the file in
between. The refinement mapping gives a set() its effect at the rename and a get()
at its read. `Users` is built on Database: its callers are the requests of the
monitors (`add`, `remove`, `login`), which read the users, change them and write
them back, and the changes of links, which `environments.js` writes without waiting;
`Restart` loses what is in memory and loads both keys again. `linksInfo()` hands out
references to the live maps, so a queued `set()` may write a later state of the
links than the model's; what it writes is then what a later `set()` writes again.
`overlapped` says that two requests were in hand at a time.

### Supervisor (deployment/fisk-scheduler/.../run-fisk-scheduler.js)

The whole script (`sup`, with the specification `SupSpec`): `checkForUpdate` with
the question to npm, the installation into stage/, the replacement of prod/,
`startFisk`, `killFisk` with its timeout, the 'exit' handler with the restart of 1 s
and the early exit that removes prod/, SIGHUP, the timer of the next check, and the
timers nobody clears. A check is a record with its place in the chain of callbacks
(`Checks` of them may be under way); the scheduler is what it does when it is told
to go (`fisk`). An earlier run leaves prod/ absent or whole; a prod/ that is half
removed, which takes a crash or a failed installation in the earlier run, is left
out of the initial states.

### BuilderQueueProofs, SchedulerProofs, EnvironmentsProofs, FiskClientProofs, UsersProofs

The theorems about these components (section 5). `SchedulerProofs` is about
Scheduler, Supervisor and ObjectCache, `EnvironmentsProofs` about
EnvironmentUpload and EnvSync, `UsersProofs` about Database and Users.

## 3. The runs

| Run | Instance | Question |
|---|---|---|
| slots | 5 connections, 2 slots | Is a pool a fair line, with no slot idle or overbooked? |
| daemon | 2 fiskc, 1 cpp and 1 compile slot, one in upload-finished mode, one restart, fairness | Do flags, pools and clients agree through deaths and restarts, and does every run end, and so every wait for a slot? |
| upload_finished | 2 fiskc, no restart | Is the cpp slot kept until the upload is done? **No**, see section 4 |
| builder_queue | 3 jobs, two with the same source, 1 slot, the VM process may die | Do queue, answers, reports and cancellation stay consistent, and can anything get stuck? |
| scheduler | 3 connections of builders on 2 keys, 2 clients with one compiler, 2 environments of which one can stand in for the other, loads 0 and 50 | Are the counters exact and the choices right, through reconnects? Can an environment stay pending for good? |
| object_cache | 2 objects of sizes 1 and 2, limit 2, two downloads at a time, two lost connections or restarts | Do cache, files, sizes and the scheduler's belief agree; do purges keep the limit and the newest? |
| env_sync | 2 environments, a change, a cut, whose other end may close late, a failure, 2 chains, a builder that boots with VM processes that may die, fairness | When all is quiet, do scheduler and builder agree, and do they come to agree? |
| environment_upload | 3 clients, two of them with one compiler, a restart | Is what is stored whole, asked for once, and kept while it is the newest? |
| fisk_client | outputs with 0 to 2 files, empty ones first and last, a heartbeat, files that cannot be opened or written, fairness | Does every way through main() keep the order of its stages, is an answer that is used whole, and does every run end but in the two waits without a timer? |
| users | 2 requests, 1 change of links, 2 names, failing reads, writes and renames, restarts, fairness | Is the database an atomic store and its file whole, are requests answered, and does what they were told stay true? |
| supervisor | 2 crashes, 1 failed install, 1 publish, fairness | Is there one scheduler, run from a whole prod/, does it come back unless a fork failed, and does every check end? |
| client_key | no failures | Does the key of the object cache depend on the source? **No** |

*Bounds.* `MaxStops` bounds restarts of the daemon and `MaxVmDeaths` deaths of the
VM process; one of each is enough to meet every other action before and after it.
Clients of FiskDaemon may start again without bound. In ObjectCache `MaxWire` is how
many messages to the scheduler may wait before the next handler runs (a handler may
send several, so their order still matters), `MaxFetches`, `MaxStops`, `MaxChanges`,
`MaxCuts` and `MaxFailures` count events that come from outside; two downloads and
two streams are the least at which downloads overlap, and with sizes 1 and 2 in a
cache of 2 an add makes no object, one or two go. `BigHeaders` is empty in the run
(the proofs are for any). `MaxChains` are the messages at work at a time (two, the
least at which they can tangle), `MaxBeats` heartbeats. One cut in EnvSync is enough
for a reconnect, and the late close after it. `MCInit` keeps one of two initial
states that differ in the names of the environments only: a choice of initial
states, which is sound for liveness too. The supervisor's `MaxCrashes = 2` lets a
restart crash again, `MaxFailures` and `MaxPublishes` are failed installations and
new versions, and a crash adds at most one check to the first two, so that `Checks`
has `MaxCrashes + 2` of them. Users was also run once with two changes of links
(653,000 states), to the same result. Builder connections, jobs and compiles are
used once each, so those models stop when all are used (`CHECK_DEADLOCK FALSE`
there; FiskDaemon and Slots never stop and are checked for deadlock). Three requests
on one slot are the least at which a hand-over can go to the wrong one, three jobs
the least at which one waits while two exchange the slot, and two connections under
one key plus one of another key the least at which a namesake and a stranger can be
told apart.

*Symmetry* is over clients that the instance does not tell apart (of the same
release mode, with the same compiler), over the two jobs with the same source,
over the two connections with the same key and over the two downloads; in no run that checks liveness.

*Fairness.* Weak fairness of every handler that is ready (Node's loop serves every
connection), of the next step of a process that has one, and of the external
compilers, file reads and closing handshakes, which all end. In EnvSync connections
are retried and messages arrive, timers fire, downloads and processes end; when the
scheduler notices a lost connection is left open, since it pings the builders of its
registry only. In FiskClient nothing is expected of daemon, scheduler, builder or
thread: main() goes on when its loop is over, and the watchdog's timer comes while
the watchdog runs. No fairness of starting, dying, hanging up, timing out or falling
back: liveness does not rest on a client giving up. In Users the file operations of
Node's thread pool end and the continuations of promises run. In the supervisor
timers fire, npm and the shell end, and the kernel reports the exit of a process; a
scheduler that runs need never exit.

Every property has a mutant in its module (commented "Mutant of ..."): a plausible
slip in the mapped code under which TLC finds the property violated.

## 4. What the checks found

* **The wait for the upload is inverted.** `while (data.watchdog->timedOut() && ...)`
  (client/main.cpp:555) lacks the negation all its siblings have and ends at once.
  With `--release-cpp-slot-mode=upload-finished` the slot is therefore released
  before the source has left the send buffer; run `upload_finished` shows it in
  `SlotKeptForUpload`.
* **The key of a preprocessed source.** A `.i` or `.ii` file is not put into the
  MD5 (client/Preprocessed.cpp:71-76), so after a change the cache answers with
  the object of its old contents; run `client_key`.
* An output file that cannot be opened is to make the client compile locally, but
  its contents, read in the same round, reach `assert(f)` in fill()
  (client/BuilderWebSocket.h:160) and end it: `failed = "file"` in FiskClient.
* A daemon that goes away while the MD5 is computed leaves the key of a part of the
  source (`KeyIsOfSource` excepts it), which is a data race as well.
* **Two waits of fiskc have no timer.** Before a local compile main() stops the
  watchdog and waits for a compile slot in a loop that compares the time with
  `slotAcquisitionTimeout` only when its `select()` is woken, by nothing but the daemon
  it waits for (DaemonSocket.cpp:222-229); the upload of an environment waits for the
  scheduler in the same way (Client.cpp:766). A daemon or a scheduler that falls silent
  there, without closing the connection, keeps fiskc for ever. `RunEnds` excepts these
  two waits and shows that there is no other.
* The exceptions the properties make (`muddled`, `tangled`, stuck chains, `Hangs`,
  `Ousted`, `overlap`, `robbed`, `overtaken`, `overlapped`) are all reachable: sizes
  that count an object twice when two downloads of it overlap, a directory removed
  under a running compiler, a builder that never connects because a VM process died
  while it booted, one that is connected and hears of no upload, an environment
  stored whose archive is gone, a `set()` that reads the file before the rename of
  the last one and loses its change, a user added by one monitor and lost by what
  another wrote back. Each is a hazard in PROJECT.json; no text of the repository
  promises otherwise.
* More compilers than slots can run, in one way only: a backlogged client hangs up
  and `startPending()` starts another job (`OvercommitOnlyByHangup`).
* A compile whose socket failed before it closed is not cancelled
  (`OrphansAreCancelled` names that exception).
* A builder that reconnects can fall out of the registry when its old connection
  closes (fisk-scheduler.js:320). `LostOnlyByNamesake` shows that a builder which is
  still connected loses its entry in two ways only: another connection under its key
  takes its place, or closes. What follows is in EnvSync (`Ousted`): the builder is
  told of later uploads only after its next report or connection.
* A job whose compile was lost waits until its client gives up (`NothingStuck`
  names that case, and shows that there is no other). It is lost with the VM
  process, whose exit nobody handles, and which `!compiles.length` in
  VM_runtime.js:125 lets exit on 'destroy' with compiles running; or it is lost
  because the compiler cannot be spawned, an 'error' that Compile passes on to
  nobody (builder/compile.js:200).
* The supervisor, with the exceptions its properties name:
  - a scheduler that crashes within ten seconds has prod/ removed and a check
    started while another may be under way; that check, or the restart timer of a
    later crash, can start the scheduler while prod/ is being replaced;
  - `throw !existsSync(...)` after an installation throws `true`, which the caller
    takes for "was updated", so an empty stage/ may replace prod/;
  - `fork()` with a missing directory emits 'error' and never 'exit': the
    supervisor then waits for ever for the end of a child that never was
    (`fisk = "failed"`), the one way in which no scheduler comes back; `ComesBack`
    allows it only after a crash or a failed installation;
  - the request that asks whether the scheduler still answers has a timeout of
    15 s that nobody listens to, so a wedged scheduler blocks the check for good;
  - a check that begins while a timer is set forgets that timer (`leaked`), which
    starts one more check.
  Taken together, a `db.json` that cannot be parsed makes the scheduler exit at its
  start (fisk-scheduler.js:1362), upon which the supervisor installs it again, and
  again. The scheduler leaves no such file as long as no `set()` overtakes the rename
  of the last (`FileStaysWhole`, until `overtaken`); the three syncLinks() in a row in
  `remove()` of environments.js make that easy to reach.

## 5. What is proved

*SlotsProofs*, for every finite or infinite set of ids and every `Count \in Nat`:
`SlotsInvariant` (`SlotsInv` is inductive as it stands), `SlotsAssertions`, and
`SlotsRefineLine`: every step of the pool is `Join`, `LeaveAt` or a stutter. The
argument is about `used \o pending`: deleting a key from either Map removes one
place of the concatenation, and the hand-over moves the border between them without
changing it. The lemmas before say what `Map.delete` does to sequences without
duplicates.

*FiskDaemonProofs*, for any set of clients, any numbers of slots, any number of
restarts: `NoAssertionFails`, `FlagsMatchPools` and `RunningHasSlot`. None of them
is inductive: whether an assertion of the daemon can fail depends on the commands
that are still in the socket and on what the client will write next. `DaemonInv`
adds to the two pools' `SlotsInv` what is so of every client (`Orderly`): the
commands under way never release what was not asked for before them (`InOrder`), and
what was asked for, granted and released fits the flags of the connection (`Asks`),
the phase of main() and its preprocessing thread (`Runs`), and nothing is left of a
client that is gone (`Idle`). There is a lemma per action. The pools are two
instances of SlotsProofs: `AcquireAdds` and `ReleaseRemoves` say which requests a
pool holds afterwards, and that `SlotsInv` is kept, so that no lemma here looks
inside a pool. TLC checked `DaemonInv` before it was proved.

*BuilderQueueProofs*, for any jobs, sources and number of slots: the six properties
of the run. What they say of a job depends on its record and on whether it is in the
queue, and on nothing else; so the invariant is a predicate of these two (`Job`,
made of `Fits`: where a job can be when, and `Heard`: what has been sent about it),
for every job, with a queue without duplicates and `NoIdleSlot`. A handler changes
the record of one job, may take it from the queue, and may start one other job: a
lemma for each of the changes shows that `Job` is kept, and the count of active jobs
goes down by one and up by one. `NoIdleSlot` alone is not inductive: that a job
which waits can be started at all, and that the one which ends was counted, is in
`Fits`.

*SchedulerProofs*, on Scheduler, for any finite sets of builders and clients, any
slots, loads, environments and links:

* `TypeCorrect`, `CountersAreExact`: the invariant is `IInv`, the type invariant
  with `CountsExact` and `NewHasNone` (a client that has not been handled has no
  builder, without which an assignment might count somebody twice). The counters are
  cardinalities, so each step adds or removes one element of a set.
* `RegistryIsLive`: `OnlyLiveBuilders` is inductive given the types; its second half
  (a builder is registered under its own key only) is what makes `removeBuilder`
  safe.
* `RegistryLosses`: the action property `LostOnlyByNamesake`, from the same
  invariant: which connection takes the place of the one that is lost, or closes, is
  said for each action.
* `NoneStaysPending`: `PendingHasUploader` is inductive given the types, since a
  step of one client deletes the entry of its own environment only, and leaves every
  other client uploading that was.
* `FreeSlotsAreUsed`: the action property `FreeSlotFirst`. A score is positive just
  if the builder has a free slot and a load below 100 (`ScoreMeans`), and the best
  score is no less than that of any candidate.

*SchedulerProofs*, on Supervisor, for any number of crashes, failed installations
and new versions:

* `OneSchedulerRuns`: `SupInv` says what every function of the script keeps
  (`Sound`: the child is the only process, a timer is set just when no check is
  active, and the chains of checks, counted with their timers, are one at least and
  one more than there were crashes at most) and that `killed` is set just while a
  check waits for the exit. When the child exits, everybody who waits for that goes
  on within the same event: a fold over the checks, each of which may start the next
  child; `SetSteps` is the induction over it.
* `RunsFromWholeInstalls`: before the first crash there is one chain (by the count),
  so that nothing is removed or moved while a child runs (`Calm`); and before the
  first installation that failed, what is about to be moved, or forked from, is
  whole (`Fresh`).

*SchedulerProofs*, on ObjectCache, for any finite set of objects, any sizes and
limits, any number of downloads and lost connections:

* `CachedFilesAreWhole`: that what is cached is whole on the disk is not inductive:
  somebody could be writing to it. `CacheInv` adds, until `muddled`, that nobody
  writes to the file of a cached object, no file has two writers, whether adds or
  downloads, and the old instance writes nothing (`Apart`), and that nobody goes on in
  a file that was truncated (`Uncut`); and, always, that the keys are distinct and
  that the size is no less than what they weigh (`Holding`), without which a purge
  would not be known to end below its goal. TLC checked `CacheInv` on the instance
  of the run before it was proved. The size is a fold over a set: `WeightWith` and
  `WeightMinus` show that it does not depend on the order, so that each handler adds
  or subtracts what it says.
* `SchedulerLearnsTheCache`: what the scheduler believes once it has learned from
  the messages in flight, in their order, is what the cache has. The handlers put
  messages at the end and the scheduler takes the first; `ToldFirst` and `ToldMore`
  are what the fold of `Learn` makes of that, and `ToldRemoved` of the messages of a
  purge.
* `AddsStayWithinLimit`: the action property `AddsEndWithinLimit`, from the same
  invariant, which it needs for the cache that loading or downloads have taken
  beyond its limit.

*EnvironmentsProofs*, on EnvironmentUpload, for any clients, any finite set of
environments, any sizes and restarts:

* `UploadsAreAskedOnce`. What keeps a second client from being asked is the entry in
  `pendingEnvironments`; so the invariant says that, until `robbed`, everybody
  connected who uploads has an entry (`EntriesKept`). The handlers that end an
  upload delete an entry by its hash; the lemma `EndKeepsInv` shows that an upload
  which loses its entry so makes `robbed` true.
* `StoreIsWhole`: an environment is stored by the handler that found its archive
  good, and can be damaged by another upload that still writes. `StoreInv` says that
  two who write one archive make it part of `overlap`, and that what somebody writes
  and no one else is neither stored nor whole yet.
* `NewestIsKept`: the action property `UploadSurvives`. `Purge` is a fold over the
  files by age with an early end; the lemmas show that it stops before the newest if
  that one fits.

*EnvironmentsProofs*, on EnvSync, for any environments, any number of chains,
changes, cuts and failures:

* `EnvironmentsAreWhole`: until `tangled`, what the builder has is in whole
  directories, and the environments that are fetched, that are there and that go
  down are kept apart (`FilesInv`); without the last part a chain could write where
  a job runs.
* `QuietIsSynced`: that both agree once all is quiet follows from what is in flight.
  `AgreeInv` says of a builder in the registry: the scheduler believes of nothing it
  does not have, the orders end, for each environment, with what the scheduler wants;
  and when no chain is at work or ordered, what the builder has is known, but for the
  drops on their way, or the newest report says it. Of a builder that is `Ousted`
  nothing is claimed; connecting again makes it all true again, whatever closed late.
* `UploadsFeedSync`: EnvironmentUpload changes `data` in two ways only: an upload
  whose archive was found good stores its own environment and purges (`Stores`, as in
  EnvSync's `Gain`), or a scheduler that starts again offers what is whole on its disk,
  which is among what EnvSync's `SchedulerRestarts` allows. So what is proved of the
  synchronisation for any changes holds with the uploads that there are.

*FiskClientProofs*, for any output files, failures and number of heartbeats. The
builder's messages are handled by folds, over the messages read and, in `fill()`,
over the files to come; the first part is what these go through.

* `OrderIsKept`: the stage the watchdog is in follows from where main() is, in both
  modes (`StageFits`); what was sent, and what the builder did upon it, from the
  same (`SentInTurn`, `WireFits`): a client told to wait keeps its source while the
  job is queued, since no message that would end the wait is on the wire then.
* `RemoteRunsAreWhole`: the files that are left to fill are the last ones of the
  response, and the next data on the wire is of the first of them (`FilesInv`), for
  as long as nothing failed. Reading any number of messages, with the two bounds of
  `fill()`, keeps that; a run can end as remote only with no file left.
* `KeyFitsSource`: main() leaves the loop that waits for the MD5 only when the
  thread is done, but for a daemon that went away.

*UsersProofs*, on Database, for any callers, keys and values and any failures:

* `TakesTurns`: the caller in hand is one, is at the head of the queue, and nobody
  who waits is missing from it.
* `FileStaysWhole`: the file is never torn, and a rename puts in place what its own
  `set()` wrote, until `overtaken`. The invariant `DbInv` needs both parts at once:
  two writers of the one temporary file are kept apart by the turns, and the turns
  end early only at the rename.
* `ImplementsStore`: every step is a step of `KeyValueStore` or a stutter; a `set()`
  takes effect at its rename, a `get()` at its read.

*UsersProofs*, on Users, for any requests, names and changes of links:

* `NamesAreReleased`, whatever the database answers: a request claims a name, goes
  on, or releases it; there is a lemma for each.
* `RepliesStay`: of the links, the newest change is always in the file or in a
  `set()` that will be renamed after all others of its kind: the changes under way
  stand in the queue in the order they were made (`LinksInv`). Of the users, the
  file has what the monitors were told, up to the one request in hand, whose `set()`
  holds that with its own change (`RequestsInv`); both until a `set()` overtakes a
  rename, the second until two requests are in hand at a time.
* `HandlersAreCallers`: the steps of Users are steps of Database for its callers, so
  that all that was proved of the database holds with the monitors and the links as
  they use it.

*KeySequences*. What a recursive definition computes is beyond the provers here,
since the library's induction theorems take an operator as a parameter. A claim
about a number or a finite set can be had all the same: `Least` (a set of numbers
has a least one) is proved from well-founded induction over a set, `Steps` says that
a set of numbers with 0 that has `i+1` with `i` has them all, and `SetSteps` the
same for finite sets that grow by a chosen element. `FoldExists` and `AlongExists`
show with them that the folds of the community modules have the function of their
intermediate values, and any two such functions agree; so a proof about a fold is
one about the values along it.

The assumptions are those of the constants (`SlotCountIsNat`, `DaemonAssumption`,
`BuilderAssumption`, `SchedulerAssumption`, `SupervisorAssumption`,
`ObjectCacheAssumption`, `EnvironmentUploadAssumption`, `EnvSyncAssumption`,
`FiskClientAssumption`, `DatabaseAssumption`, `UsersAssumption`), which TLC
evaluates in the runs: types, finite sets where something is counted (the files of
one directory, the builders and clients of one scheduler), and bounds, of any size;
only the supervisor's `Checks` are as many as its crashes can start.

Every invariant and every action property of the runs that pass, and both
refinements, are theorems. *Only model-checked* is liveness: `EveryRunEnds`,
`Converges`, `RunEnds` (with the two waits it excepts), `CallsAreAnswered`,
`ComesBack` and `ChecksEnd` (TLAPS has no proof rules for `WF` and ENABLED here).

## 6. Not modelled, and why

Statistics (jobs scheduled, failed, cached), data (preprocessed text, compiler
output, JSON), logging, the HTTP pages, the monitor (a user interface), the proxy (a
relay without state), installation scripts and third-party code. Frames and
handshakes of websockets byte by byte: a handshake that arrives in two pieces is a
connection that fails. In the daemon, malformed input, after which compile.js:131
destroys the connection: fiskc sends none. In BuilderQueue, an output file that
cannot be read after it was listed (fisk-builder.js:741): the exception reaches
quit-on-error.js, which ends the builder two seconds later, and its clients compile
locally. In EnvSync, restart-on-new-environments and requestEnvironments (which
nobody sends); and a handshake with the scheduler that takes more than a second,
upon which client.connect runs again and the builder has two websockets of its own.
In ObjectCache, the byte counts the scheduler keeps and the choice of what it
distributes. In FiskClient, --verify, --dump-slots and the frames in which an
environment is uploaded: what is modelled of that is the wait for the scheduler,
which may not end. Not yet modelled, and planned: section 7.

## 7. Plan

1. Slots, SlotLine, FiskDaemon, SlotsProofs, FiskDaemonProofs - done.
2. BuilderQueue, BuilderQueueProofs - done.
3. Scheduler, Supervisor, ObjectCache, SchedulerProofs - done.
4. EnvSync, EnvironmentUpload, EnvironmentsProofs - done.
5. FiskClient, FiskClientProofs - done.
6. KeyValueStore, Database, Users, UsersProofs - done.
7. Distribution: objectcachemanager.js 198-293, what is sent to whom.
8. Pure algorithms against reference definitions: Peak, ClientBuffer, CompilerArgs.
9. The composed system: job ids across restarts of the scheduler, an assignment
   that arrives at a builder that has changed meanwhile.
