------------------------------ MODULE EnvSync ------------------------------
(***************************************************************************)
(* How environments get from the scheduler to one builder:                 *)
(* syncEnvironments (scheduler/fisk-scheduler.js), and the builder's       *)
(* getEnvironments, dropEnvironments and connection handling               *)
(* (builder/fisk-builder.js, builder/VM.js).                               *)
(*                                                                         *)
(* The two ends of a connection need not close together: the builder may   *)
(* be back on a new one while the scheduler still holds the old.  Each     *)
(* getEnvironments message starts a chain of work that fetches, unpacks    *)
(* and starts one environment after the other.  Chains do not know of each *)
(* other, nor of the VM processes that are going down.  Envs are the       *)
(* environments whose system the builder can run.                          *)
(***************************************************************************)
EXTENDS Integers, FiniteSets, Sequences, SequencesExt, Environments

CONSTANTS
  MaxChanges,   \* bound: changes of the scheduler's set
  MaxCuts,      \* bound: losses of the connection, restarts of the builder
  MaxFailures,  \* bound: downloads and VM processes that fail
  MaxChains     \* bound: chains at work at a time

ASSUME EnvSyncAssumption ==
  {MaxChanges, MaxCuts, MaxFailures, MaxChains} \subseteq Nat

VARIABLES
  belief,    \* builder.environments, at the scheduler
  linked,    \* a websocket between them is open at both ends
  listed,    \* builders[key] is that connection
  ghosts,    \* connections that the builder has lost and the scheduler holds
  orders,    \* messages to the builder
  reports,   \* "environments" messages to the scheduler
  envs,      \* environments, at the builder
  dir,       \* the directories under environmentsRoot
  boot,      \* the VM processes that loadEnvironments() waits for
  dying,     \* environments of which a destroyed VM process is still up
  chain,     \* the work() of each getEnvironments message
  tangled,   \* history: a fetch met a live, dying or fetched environment
  changes, cuts, failures

connection == <<linked, listed, ghosts>>
server == <<data, belief, connection, orders, reports>>
builder == <<envs, dir, boot, dying, chain, tangled>>
bounds == <<changes, cuts, failures>>
syncVars == <<server, builder, bounds>>

Chains == 1..MaxChains

(* off: no chain; ready: about to take the next environment; stuck: waits  *)
(* for a callback that never comes.                                        *)
WorkStages == {"off", "ready", "fetching", "unpacking", "starting", "informing",
           "stuck"}
AtWork == {"fetching", "unpacking", "starting"}

Work == [stage : WorkStages,
         todo : SUBSET Envs,   \* message.environments, in any order
         env : Envs \cup {"none"},
         lost : BOOLEAN]       \* its directory was removed meanwhile

Order == [type : {"drop", "get"}, list : SUBSET Envs]

SyncTypeOK ==
  /\ data \subseteq Envs /\ belief \subseteq Envs
  /\ linked \in BOOLEAN /\ listed \in BOOLEAN /\ ghosts \in Nat
  /\ orders \in Seq(Order) /\ reports \in Seq(SUBSET Envs)
  /\ envs \subseteq Envs /\ dying \subseteq Envs /\ tangled \in BOOLEAN
  /\ dir \in [Envs -> {"none", "partial", "archive", "whole"}]
  /\ boot \in [Envs -> {"over", "waits", "never"}]
  /\ chain \in [Chains -> Work]
  /\ changes \in 0..MaxChanges /\ cuts \in 0..MaxCuts
  /\ failures \in 0..MaxFailures

Off == [stage |-> "off", todo |-> {}, env |-> "none", lost |-> FALSE]
Stuck == [Off EXCEPT !.stage = "stuck"]
Ready(todo) == [Off EXCEPT !.stage = "ready", !.todo = todo]

(* loadEnvironments() has forked a VM process for each environment. *)
BootOf(S) == [e \in Envs |-> IF e \in S THEN "waits" ELSE "over"]

SyncInit ==
  /\ data \in SUBSET Envs /\ belief = {}
  /\ linked = FALSE /\ listed = FALSE /\ ghosts = 0
  /\ orders = <<>> /\ reports = <<>>
  /\ envs \in SUBSET Envs                         \* loadEnvironments()
  /\ dir = [e \in Envs |-> IF e \in envs THEN "whole" ELSE "none"]
  /\ boot = BootOf(envs)
  /\ dying = {} /\ chain = [c \in Chains |-> Off] /\ tangled = FALSE
  /\ changes = 0 /\ cuts = 0 /\ failures = 0

-----------------------------------------------------------------------------
(* The scheduler.                                                          *)

(* An order without environments is not sent. *)
OrderFor(type, S) == IF S = {} THEN <<>> ELSE <<[type |-> type, list |-> S]>>

(* Mutant of Sync: nothing is dropped. *)
SyncOnlyGets(scheds, believed, pipe) ==
  /\ belief' = believed \cap scheds
  /\ orders' = pipe \o OrderFor("get", scheds \ believed)

(* syncEnvironments(builder), with the environments in scheds. *)
Sync(scheds, believed, pipe) ==
  /\ belief' = believed \cap scheds
  /\ orders' = pipe \o OrderFor("drop", believed \ scheds)
                    \o OrderFor("get", scheds \ believed)

(* What complete() does to the store: e is added, and to make room others  *)
(* are purged, or e itself.                                                *)
Stores(e) ==
  \E purged \in SUBSET (data \cup {e}) : data' = (data \cup {e}) \ purged

(* An upload is complete, and the builders of the registry are told.       *)
Gain(e) ==
  /\ changes < MaxChanges
  /\ changes' = changes + 1
  /\ Stores(e)
  /\ IF listed THEN Sync(data', belief, orders) ELSE UNCHANGED <<belief, orders>>
  /\ UNCHANGED <<connection, reports, builder, cuts, failures>>

(* builder "environments": registered or not, the sender is told. *)
Hear ==
  /\ reports # <<>>
  /\ reports' = Tail(reports)
  /\ Sync(data, Head(reports), orders)
  /\ UNCHANGED <<data, connection, builder, bounds>>

-----------------------------------------------------------------------------
(* The connection.                                                         *)

(***************************************************************************)
(* client.connect(Object.keys(environments)), server "builder", which      *)
(* takes the entry of the registry from a ghost.  The first time,          *)
(* loadEnvironments() must have resolved.                                  *)
(***************************************************************************)
Connect ==
  /\ ~linked /\ \A e \in Envs : boot[e] = "over"
  /\ linked' = TRUE /\ listed' = TRUE /\ Sync(data, envs, <<>>)
  /\ UNCHANGED <<data, ghosts, reports, builder, bounds>>

(* What is in flight is lost. *)
Unlinked ==
  /\ linked' = FALSE /\ listed' = FALSE
  /\ belief' = {} /\ orders' = <<>> /\ reports' = <<>>

(* The builder's end goes; the scheduler's, now or later. *)
LeavesGhost == ghosts' = ghosts \/ (linked /\ ghosts' = ghosts + 1)

(* "close", on both sides or on the builder's. *)
Cut ==
  /\ linked /\ cuts < MaxCuts
  /\ Unlinked /\ LeavesGhost
  /\ cuts' = cuts + 1
  /\ UNCHANGED <<data, builder, changes, failures>>

(* "close" of a connection the builder has long given up: removeBuilder    *)
(* deletes builders[key], whoever has that entry by now.                   *)
GhostCloses ==
  /\ ghosts > 0 /\ ghosts' = ghosts - 1
  /\ listed' = FALSE
  /\ UNCHANGED <<data, belief, linked, orders, reports, builder, bounds>>

(* The scheduler dies; environments.load takes what is in its directory.   *)
SchedulerRestarts ==
  /\ cuts < MaxCuts
  /\ Unlinked /\ ghosts' = 0 /\ data' \in SUBSET Envs
  /\ cuts' = cuts + 1
  /\ UNCHANGED <<builder, changes, failures>>

(* The builder dies; loadEnvironments() keeps what is whole. *)
BuilderRestarts ==
  /\ cuts < MaxCuts
  /\ Unlinked /\ LeavesGhost
  /\ envs' = {e \in Envs : dir[e] = "whole"}
  /\ dir' = [e \in Envs |-> IF e \in envs' THEN "whole" ELSE "none"]
  /\ boot' = BootOf(envs')
  /\ dying' = {} /\ chain' = [c \in Chains |-> Off] /\ tangled' = FALSE
  /\ cuts' = cuts + 1
  /\ UNCHANGED <<data, changes, failures>>

(* VM "ready"; an 'error' of the child process is made a "ready" as well. *)
Boots(e) ==
  /\ boot[e] = "waits"
  /\ boot' = [boot EXCEPT ![e] = "over"]
  /\ UNCHANGED <<server, envs, dir, dying, chain, tangled, bounds>>

(* The process exits before it is ready: VM emits "exit", which nobody     *)
(* listens to, and never the "error" that loadEnvironments() waits for.    *)
NeverBoots(e) ==
  /\ boot[e] = "waits" /\ failures < MaxFailures
  /\ failures' = failures + 1
  /\ boot' = [boot EXCEPT ![e] = "never"]
  /\ UNCHANGED <<server, envs, dir, dying, chain, tangled, changes, cuts>>

-----------------------------------------------------------------------------
(* The builder's handlers.                                                 *)

(* dropEnvironments *)
Drop ==
  /\ orders # <<>> /\ Head(orders).type = "drop"
  /\ LET gone == Head(orders).list \cap envs
     IN envs' = envs \ gone /\ dying' = dying \cup gone
  /\ orders' = Tail(orders)
  /\ UNCHANGED <<data, belief, connection, reports, dir, boot, chain, tangled, bounds>>

(* dir without e, and the chains that worked in that directory. *)
RemoveDir(e) == [dir EXCEPT ![e] = "none"]
Strand(ch, e) ==
  [c \in Chains |-> IF ch[c].stage \in AtWork /\ ch[c].env = e
                    THEN [ch[c] EXCEPT !.lost = TRUE] ELSE ch[c]]

(* The destroyed VM process exits: fs.remove(root). *)
VmExits(e) ==
  /\ e \in dying
  /\ dying' = dying \ {e}
  /\ dir' = RemoveDir(e) /\ chain' = Strand(chain, e)
  /\ UNCHANGED <<server, envs, boot, tangled, bounds>>

(* getEnvironments; the first number that is free stands for the chain. *)
Get(c) ==
  /\ orders # <<>> /\ Head(orders).type = "get" /\ chain[c].stage = "off"
  /\ \A d \in Chains : d < c => chain[d].stage # "off"
  /\ orders' = Tail(orders)
  /\ chain' = [chain EXCEPT ![c] = Ready(Head(orders).list)]
  /\ UNCHANGED <<data, belief, connection, reports, envs, dir, boot, dying, tangled, bounds>>

(* work(): the directory is made anew and the download begins. *)
Fetch(c) ==
  /\ chain[c].stage = "ready"
  /\ \E e \in chain[c].todo :
        /\ chain' = [Strand(chain, e) EXCEPT ![c] =
                       [stage |-> "fetching", todo |-> chain[c].todo \ {e},
                        env |-> e, lost |-> FALSE]]
        /\ dir' = [dir EXCEPT ![e] = "partial"]
        /\ tangled' = (\/ tangled \/ e \in envs \cup dying
                       \/ \E d \in Chains \ {c} :
                            chain[d].stage \in AtWork /\ chain[d].env = e)
  /\ UNCHANGED <<server, envs, boot, dying, bounds>>

(* stream "finish" *)
Fetched(c) ==
  /\ chain[c].stage = "fetching"
  /\ chain' = [chain EXCEPT ![c].stage = "unpacking"]
  /\ dir' = [dir EXCEPT ![chain[c].env] = IF chain[c].lost THEN @ ELSE "archive"]
  /\ UNCHANGED <<server, envs, boot, dying, tangled, bounds>>

(* The request fails, say because the scheduler has dropped it: the        *)
(* directory is emptied, and nothing calls work() again.                   *)
FetchFails(c) ==
  /\ chain[c].stage = "fetching" /\ failures < MaxFailures
  /\ failures' = failures + 1
  /\ chain' = [Strand(chain, chain[c].env) EXCEPT ![c] = Stuck]
  /\ dir' = [dir EXCEPT ![chain[c].env] = "partial"]
  /\ UNCHANGED <<server, envs, boot, dying, tangled, changes, cuts>>

(* The catch of the chain: on to the next environment. *)
GiveUp(c) ==
  /\ dir' = RemoveDir(chain[c].env)
  /\ chain' = [Strand(chain, chain[c].env) EXCEPT ![c] = Ready(chain[c].todo)]

(* Mutant of Unpack: a directory that cannot be used is used. *)
UnpackAnyway(c) ==
  /\ chain[c].stage = "unpacking"
  /\ chain' = [chain EXCEPT ![c].stage = "starting"]
  /\ UNCHANGED <<server, envs, dir, boot, dying, tangled, bounds>>

(* tar, bin/true, environment.json, unlink; then the VM is forked.  It     *)
(* works if there is a whole archive in the directory.                     *)
Unpack(c) ==
  /\ chain[c].stage = "unpacking"
  /\ \/ /\ dir[chain[c].env] = "archive"
        /\ dir' = [dir EXCEPT ![chain[c].env] = "whole"]
        /\ chain' = [chain EXCEPT ![c].stage = "starting"]
     \/ dir[chain[c].env] # "archive" /\ GiveUp(c)
  /\ UNCHANGED <<server, envs, boot, dying, tangled, bounds>>

(* The archive is bad. *)
UnpackFails(c) ==
  /\ chain[c].stage = "unpacking" /\ failures < MaxFailures
  /\ failures' = failures + 1
  /\ GiveUp(c)
  /\ UNCHANGED <<server, envs, boot, dying, tangled, changes, cuts>>

(* VM "ready" *)
VmReady(c) ==
  /\ chain[c].stage = "starting"
  /\ envs' = envs \cup {chain[c].env}
  /\ chain' = [chain EXCEPT ![c] = Ready(chain[c].todo)]
  /\ UNCHANGED <<server, dir, boot, dying, tangled, bounds>>

(* The VM process goes down before it is ready: no event is emitted. *)
VmNeverReady(c) ==
  /\ chain[c].stage = "starting"
  /\ IF dir[chain[c].env] = "whole"
     THEN failures < MaxFailures /\ failures' = failures + 1
     ELSE UNCHANGED failures
  /\ chain' = [chain EXCEPT ![c] = Stuck]
  /\ UNCHANGED <<server, envs, dir, boot, dying, tangled, changes, cuts>>

(* Mutant of Finish: the scheduler is not told. *)
FinishSilently(c) ==
  /\ chain[c].stage = "ready" /\ chain[c].todo = {}
  /\ chain' = [chain EXCEPT ![c] = Off]
  /\ UNCHANGED <<server, envs, dir, boot, dying, tangled, bounds>>

(* work() with nothing left: the timer of inform-delay is set. *)
Finish(c) ==
  /\ chain[c].stage = "ready" /\ chain[c].todo = {}
  /\ chain' = [chain EXCEPT ![c].stage = "informing"]
  /\ UNCHANGED <<server, envs, dir, boot, dying, tangled, bounds>>

(* The timer fires. *)
Inform(c) ==
  /\ chain[c].stage = "informing"
  /\ chain' = [chain EXCEPT ![c] = Off]
  /\ reports' = IF linked THEN Append(reports, envs) ELSE reports
  /\ UNCHANGED <<data, belief, connection, orders, envs, dir, boot, dying, tangled, bounds>>

-----------------------------------------------------------------------------
WorkStep(c) ==
  Fetch(c) \/ Fetched(c) \/ Unpack(c) \/ VmReady(c) \/ Finish(c) \/ Inform(c)

SyncNext ==
  \/ Hear \/ Connect \/ Cut \/ GhostCloses \/ SchedulerRestarts \/ BuilderRestarts
  \/ Drop
  \/ \E e \in Envs : Gain(e) \/ VmExits(e) \/ Boots(e) \/ NeverBoots(e)
  \/ \E c \in Chains :
       Get(c) \/ WorkStep(c) \/ FetchFails(c) \/ UnpackFails(c) \/ VmNeverReady(c)

SyncSpec == SyncInit /\ [][SyncNext]_syncVars

(* Connections are retried every second, messages arrive, timers fire, and *)
(* processes and downloads end.  When the scheduler notices a lost         *)
(* connection is open: it pings the builders of the registry only.         *)
SyncFairness ==
  /\ WF_syncVars(Connect) /\ WF_syncVars(Hear) /\ WF_syncVars(Drop)
  /\ WF_syncVars(\E c \in Chains : Get(c))
  /\ \A e \in Envs : WF_syncVars(VmExits(e)) /\ WF_syncVars(Boots(e))
  /\ \A c \in Chains : WF_syncVars(WorkStep(c))
LiveSpec == SyncSpec /\ SyncFairness

-----------------------------------------------------------------------------
(* tangled says that a fetch was begun for an environment that the builder *)
(* has, whose old VM process is going down, or that another chain fetches. *)
(* Nothing in the code keeps these apart: the scheduler asks for all it    *)
(* does not know the builder to have, whatever it asked for before.        *)

Idle == \A c \in Chains : chain[c].stage = "off"
Synced == linked /\ data = belief /\ belief = envs

(* Jobs are compiled in a directory that is there and whole, as long as    *)
(* fetches do not tangle.                                                  *)
EnvsAreWhole ==
  /\ SyncTypeOK
  /\ ~tangled => \A e \in envs : dir[e] = "whole"

(* The builder is connected, and not in the registry: a connection it had  *)
(* before was closed after it had come back (fisk-scheduler.js:320).  It   *)
(* is told of no upload (394-398) until it connects again, or sends a      *)
(* report.                                                                 *)
Ousted == linked /\ ~listed

(* When nothing is under way and no chain got stuck, both sides agree and  *)
(* the builder has all the scheduler has: but for ousting the builder, no  *)
(* order of uploads, purges, drops, failures, cuts, late closes and        *)
(* restarts makes one of them forget; and a new connection mends that too. *)
QuietMeansSynced ==
  linked /\ ~Ousted /\ orders = <<>> /\ reports = <<>> /\ Idle => Synced

(* The builder ends up with what the scheduler has, however often archives *)
(* are bad or connections break, unless a chain stays stuck, fetches are   *)
(* tangled (fisk-scheduler.js:404-428), the builder stays ousted, or a VM  *)
(* process never comes up: then the builder never connects at all          *)
(* (fisk-builder.js:353).                                                  *)
Stays == \E c \in Chains : chain[c].stage = "stuck"
Hangs == \E e \in Envs : boot[e] = "never"
Converges ==
  <>[]tangled \/ <>[]Stays \/ <>[]Hangs \/ <>[]Ousted \/ <>[]Synced

=============================================================================
