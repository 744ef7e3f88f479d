----------------------------- MODULE Scheduler -----------------------------
(***************************************************************************)
(* The core of fisk-scheduler (scheduler/fisk-scheduler.js, server.js):    *)
(* the registry of the builders that are connected and the assignment of   *)
(* clients' compiles to them, with the counters both keep.                 *)
(*                                                                         *)
(* A builder that reconnects is a new connection under the same key ("ip   *)
(* port"), so it is connections that builders, their counters and their    *)
(* load belong to.  Every handler runs to its end; the events of different *)
(* connections come in any order.  Where the choice of a builder depends   *)
(* on the time of its last job or on the order of the registry, any of the *)
(* best is chosen.  max-environment-size is not set: nothing is purged.    *)
(***************************************************************************)
EXTENDS Integers, FiniteSets, FiniteSetsExt

CONSTANTS
  Conns,    \* connections of builders
  Keys,     \* builderKey: "ip port"
  Key,      \* [Conns -> Keys]
  Slots,    \* [Conns -> Nat]: x-fisk-slots
  Loads,    \* what a builder may report as its load, in percent
  Clients,  \* connections of clients that want to compile
  Envs,     \* hashes of environments
  Env,      \* [Clients -> Envs]: the client's compiler
  Accepts,  \* [Clients -> SUBSET Conns]: x-fisk-builder and labels
  Links,    \* <<src, target>>: environments that can stand in for src
  NoConn    \* undefined

ASSUME SchedulerAssumption ==
  /\ Key \in [Conns -> Keys] /\ Slots \in [Conns -> Nat \ {0}]
  /\ Loads \subseteq 0..100 /\ 0 \in Loads
  /\ Env \in [Clients -> Envs] /\ Accepts \in [Clients -> SUBSET Conns]
  /\ Links \subseteq Envs \X Envs
  /\ NoConn \notin Conns
  /\ IsFiniteSet(Conns) /\ IsFiniteSet(Clients)

VARIABLES
  builders,             \* [Keys -> Conns \cup {NoConn}]: the registry
  builder,              \* [Conns -> the object of the connection]
  builderCount, capacity,
  activeJobs,
  compile,              \* [Clients -> the connection and its handlers]
  nodes,                \* objectCache: who has the object of this source
  environments,         \* the environments the scheduler has
  pendingEnvironments,  \* those some client was asked to upload
  completing            \* uploads that have arrived but are not unpacked

builderVars == <<builders, builder, builderCount, capacity>>
envVars == <<environments, pendingEnvironments, completing>>
vars == <<builderVars, activeJobs, compile, nodes, envVars>>

Builder == [state : {"new", "live", "refused", "closed"},
            envs : SUBSET Envs, load : Loads, activeClients : Int]
Compile == [state : {"new", "assigned", "failed", "uploading",
                     "uploadFailed", "refused", "closed"},
            builder : Conns \cup {NoConn}]

Init ==
  /\ builders = [k \in Keys |-> NoConn]
  /\ builder = [b \in Conns |->
       [state |-> "new", envs |-> {}, load |-> 0, activeClients |-> 0]]
  /\ compile = [c \in Clients |-> [state |-> "new", builder |-> NoConn]]
  /\ builderCount = 0 /\ capacity = 0
  /\ activeJobs = 0
  /\ nodes = {}
  /\ environments \in SUBSET Envs
  /\ pendingEnvironments = {} /\ completing = {}

Live == {b \in Conns : builder[b].state = "live"}
Registered == {builders[k] : k \in Keys} \ {NoConn}

-----------------------------------------------------------------------------
(* Builders.                                                               *)

(***************************************************************************)
(* server "builder": insertBuilder and syncEnvironments, which forgets the *)
(* builder's environments that the scheduler does not have.                *)
(***************************************************************************)
BuilderConnects(b, envs) ==
  /\ builder[b].state = "new"
  /\ builder' = [builder EXCEPT ![b].state = "live",
                                ![b].envs = envs \cap environments]
  /\ builders' = [builders EXCEPT ![Key[b]] = b]
  /\ builderCount' = builderCount + 1
  /\ capacity' = capacity + Slots[b]
  /\ UNCHANGED <<activeJobs, compile, nodes, envVars>>

(* Mutant of BuilderRefused: whoever is under its key is removed. *)
BuilderRefusedAndRemoved(b) ==
  /\ builder[b].state = "new"
  /\ builder' = [builder EXCEPT ![b].state = "refused"]
  /\ builders' = [builders EXCEPT ![Key[b]] = NoConn]
  /\ UNCHANGED <<builderCount, capacity, activeJobs, compile, nodes, envVars>>

(* Its npm version is too old: it is told so, and not inserted. *)
BuilderRefused(b) ==
  /\ builder[b].state = "new"
  /\ builder' = [builder EXCEPT ![b].state = "refused"]
  /\ UNCHANGED <<builders, builderCount, capacity>>
  /\ UNCHANGED <<activeJobs, compile, nodes, envVars>>

(* Mutant of BuilderCloses: without removeNode. *)
BuilderClosesKeepingNode(b) ==
  /\ builder[b].state = "live"
  /\ builder' = [builder EXCEPT ![b].state = "closed"]
  /\ builders' = [builders EXCEPT ![Key[b]] = NoConn]
  /\ builderCount' = builderCount - 1
  /\ capacity' = capacity - Slots[b]
  /\ UNCHANGED <<activeJobs, compile, nodes, envVars>>

(* builder "close": removeBuilder, which deletes whatever is under its key, *)
(* and objectCache.removeNode.                                              *)
BuilderCloses(b) ==
  /\ builder[b].state = "live"
  /\ builder' = [builder EXCEPT ![b].state = "closed"]
  /\ builders' = [builders EXCEPT ![Key[b]] = NoConn]
  /\ builderCount' = builderCount - 1
  /\ capacity' = capacity - Slots[b]
  /\ nodes' = nodes \ {b}
  /\ UNCHANGED <<activeJobs, compile, envVars>>

(* builder "environments", "load" *)
BuilderHasEnvironments(b, envs) ==
  /\ builder[b].state = "live"
  /\ builder' = [builder EXCEPT ![b].envs = envs \cap environments]
  /\ UNCHANGED <<builders, builderCount, capacity>>
  /\ UNCHANGED <<activeJobs, compile, nodes, envVars>>
BuilderLoad(b, load) ==
  /\ builder[b].state = "live"
  /\ builder' = [builder EXCEPT ![b].load = load]
  /\ UNCHANGED <<builders, builderCount, capacity>>
  /\ UNCHANGED <<activeJobs, compile, nodes, envVars>>

(* builder "objectCache", "objectCacheAdded", "objectCacheRemoved" *)
BuilderCached(b) ==
  /\ builder[b].state = "live"
  /\ nodes' \in {nodes \cup {b}, nodes \ {b}}
  /\ UNCHANGED <<builderVars, activeJobs, compile, envVars>>

-----------------------------------------------------------------------------
(* Compiles.                                                               *)

CompatibleEnvironments(src) ==
  ({src} \cap environments) \cup {e \in Envs : <<src, e>> \in Links}

Available(b) == Slots[b] - builder[b].activeClients
LesserOf(m, n) == IF m < n THEN m ELSE n

(* Mutant of Score: the free slots are left out. *)
ScoreByLoad(b) == 100 - builder[b].load

Score(b) == LesserOf(4, Available(b)) * (100 - builder[b].load)

(* Those a builder search can end with: no other has a better score. *)
Best(candidates) ==
  {b \in candidates : \A d \in candidates : Score(d) <= Score(b)}

(* Who has the object; only if nobody has, who has a usable environment. *)
Candidates(c) ==
  IF nodes \cap Accepts[c] # {} THEN nodes \cap Accepts[c]
  ELSE {b \in Registered \cap Accepts[c] :
          builder[b].envs \cap CompatibleEnvironments(Env[c]) # {}}

(* The client is told to compile locally (an empty "builder" message). *)
NoBuilder(c) ==
  /\ compile' = [compile EXCEPT ![c].state = "refused"]
  /\ UNCHANGED <<builderVars, activeJobs, nodes, envVars>>

(* requestEnvironment, unless somebody else is uploading it. *)
MustUpload(c) ==
  Env[c] \notin environments /\ Env[c] \notin pendingEnvironments

(* Mutant of RequestEnvironment: the client is pending, not its hash. *)
RequestByClient(c) ==
  /\ compile' = [compile EXCEPT ![c].state = "uploading"]
  /\ pendingEnvironments' = pendingEnvironments \cup {c}
  /\ UNCHANGED <<builderVars, activeJobs, nodes>>
  /\ UNCHANGED <<environments, completing>>

RequestEnvironment(c) ==
  /\ compile' = [compile EXCEPT ![c].state = "uploading"]
  /\ pendingEnvironments' = pendingEnvironments \cup {Env[c]}
  /\ UNCHANGED <<builderVars, activeJobs, nodes>>
  /\ UNCHANGED <<environments, completing>>

Assign(c, b) ==
  /\ compile' = [compile EXCEPT ![c] = [state |-> "assigned", builder |-> b]]
  /\ builder' = [builder EXCEPT ![b].activeClients = @ + 1]
  /\ activeJobs' = activeJobs + 1
  /\ UNCHANGED <<builders, builderCount, capacity, nodes, envVars>>

(* server "compile"; a client whose version is too old fails at once. *)
CompileConnects(c) ==
  /\ compile[c].state = "new"
  /\ \/ NoBuilder(c)   \* version_mismatch, or no builder of its labels
     \/ /\ MustUpload(c)
        /\ RequestEnvironment(c)
     \/ /\ ~MustUpload(c)
        /\ CompatibleEnvironments(Env[c]) # {}
        /\ \E b \in Best(Candidates(c)) : Assign(c, b)

(* Mutant of GiveBack: the client keeps its builder, to give it back again. *)
GiveBackAndKeep(c, state) ==
  /\ compile' = [compile EXCEPT ![c].state = state]
  /\ \/ /\ compile[c].builder # NoConn
        /\ builder' = [builder EXCEPT ![compile[c].builder].activeClients = @ - 1]
        /\ activeJobs' = activeJobs - 1
     \/ /\ compile[c].builder = NoConn
        /\ UNCHANGED <<builder, activeJobs>>
  /\ UNCHANGED <<builders, builderCount, capacity>>

(* Both 'error' and 'close' of an assigned compile give the slot back,     *)
(* whichever comes first.                                                  *)
GiveBack(c, state) ==
  /\ compile' = [compile EXCEPT ![c] = [state |-> state, builder |-> NoConn]]
  /\ \/ /\ compile[c].builder # NoConn
        /\ builder' = [builder EXCEPT ![compile[c].builder].activeClients = @ - 1]
        /\ activeJobs' = activeJobs - 1
     \/ /\ compile[c].builder = NoConn
        /\ UNCHANGED <<builder, activeJobs>>
  /\ UNCHANGED <<builders, builderCount, capacity>>

Uploading(c) == compile[c].state \in {"uploading", "uploadFailed"}

(* compile "error" *)
CompileFails(c) ==
  /\ compile[c].state = "assigned"
  /\ GiveBack(c, "failed")
  /\ UNCHANGED <<nodes, envVars>>

(***************************************************************************)
(* "error" during an upload: the file is discarded and the environment can *)
(* be asked for again; unless the file is closed already and about to be   *)
(* unpacked, when discard() throws and the handler ends there.             *)
(***************************************************************************)
UploadFails(c) ==
  /\ compile[c].state = "uploading"
  /\ compile' = [compile EXCEPT ![c].state = "uploadFailed"]
  /\ \/ /\ pendingEnvironments' = pendingEnvironments \ {Env[c]}
        /\ completing' = completing \ {c}
     \/ /\ c \in completing
        /\ UNCHANGED <<pendingEnvironments, completing>>
  /\ UNCHANGED <<builderVars, activeJobs, nodes, environments>>

(* Mutant of CompileCloses: an upload that breaks off stays pending. *)
CompileClosesPending(c) ==
  /\ compile[c].state \notin {"new", "closed"}
  /\ GiveBack(c, "closed")
  /\ UNCHANGED <<nodes, envVars>>

(* compile "close"; an upload that has arrived goes on without it. *)
CompileCloses(c) ==
  /\ compile[c].state \notin {"new", "closed"}
  /\ GiveBack(c, "closed")
  /\ pendingEnvironments' = IF Uploading(c)
                            THEN pendingEnvironments \ {Env[c]}
                            ELSE pendingEnvironments
  /\ UNCHANGED <<nodes, environments, completing>>

(* The last "uploadEnvironmentData". *)
UploadArrives(c) ==
  /\ compile[c].state = "uploading" /\ c \notin completing
  /\ completing' = completing \cup {c}
  /\ UNCHANGED <<builderVars, activeJobs, compile, nodes>>
  /\ UNCHANGED <<environments, pendingEnvironments>>

(* Environments.complete has unpacked the file: it is the scheduler's. *)
EnvironmentCompleted(c) ==
  /\ c \in completing
  /\ completing' = completing \ {c}
  /\ environments' = environments \cup {Env[c]}
  /\ pendingEnvironments' = pendingEnvironments \ {Env[c]}
  /\ UNCHANGED <<builderVars, activeJobs, compile, nodes>>

-----------------------------------------------------------------------------
Next ==
  \/ \E b \in Conns :
       \/ BuilderRefused(b) \/ BuilderCloses(b) \/ BuilderCached(b)
       \/ \E envs \in SUBSET Envs :
            BuilderConnects(b, envs) \/ BuilderHasEnvironments(b, envs)
       \/ \E load \in Loads : BuilderLoad(b, load)
  \/ \E c \in Clients :
       \/ CompileConnects(c) \/ CompileFails(c) \/ CompileCloses(c)
       \/ UploadFails(c) \/ UploadArrives(c) \/ EnvironmentCompleted(c)

Spec == Init /\ [][Next]_vars

-----------------------------------------------------------------------------
TypeOK ==
  /\ builders \in [Keys -> Conns \cup {NoConn}]
  /\ builder \in [Conns -> Builder]
  /\ compile \in [Clients -> Compile]
  /\ builderCount \in Int /\ capacity \in Int
  /\ activeJobs \in Int
  /\ nodes \subseteq Conns
  /\ environments \subseteq Envs
  /\ pendingEnvironments \subseteq Envs /\ completing \subseteq Clients

AssignedTo(b) == {c \in Clients : compile[c].builder = b}
Assigned == {c \in Clients : compile[c].builder # NoConn}

(***************************************************************************)
(* activeJobs and each builder's activeClients, on which the choice of a   *)
(* builder rests, count the open compiles exactly, although the end of a   *)
(* connection may show up as 'error', as 'close' or as both, and although  *)
(* a builder may be gone when its compiles end.                            *)
(***************************************************************************)
ActiveJobsExact == activeJobs = Cardinality(Assigned)
ActiveClientsExact ==
  \A b \in Conns : builder[b].activeClients = Cardinality(AssignedTo(b))
CountsExact == ActiveJobsExact /\ ActiveClientsExact

(***************************************************************************)
(* No compile can be sent to a builder that is gone: neither the registry  *)
(* nor the object cache manager remembers a closed connection.             *)
(***************************************************************************)
OnlyLiveBuilders ==
  /\ Registered \cup nodes \subseteq Live
  /\ \A k \in Keys : builders[k] # NoConn => Key[builders[k]] = k

(***************************************************************************)
(* A connected builder drops out of the registry in two cases only: one    *)
(* that connects under its key takes its place, or one that had the place  *)
(* before and that the scheduler still took for connected closes.  The     *)
(* second is what becomes of a builder that is back before the scheduler   *)
(* has noticed that its old connection broke: removeBuilder deletes by key *)
(* and takes the new one out.                                              *)
(***************************************************************************)
TakesPlace(d, b) ==
  /\ Key[d] = Key[b]
  /\ \/ d \notin Live /\ builders'[Key[b]] = d
     \/ d \in Live /\ d \notin Live'
LostOnlyByNamesake ==
  [][\A b \in Conns :
       b \in Registered /\ b \notin Registered' /\ b \in Live' =>
         \E d \in Conns \ {b} : TakesPlace(d, b)]_vars

(***************************************************************************)
(* A compile goes to a builder with a free slot if one that would do has   *)
(* one and is not fully loaded, whatever the scores of the others.         *)
(***************************************************************************)
FreeSlotFirst ==
  [][\A c \in Clients :
       /\ compile[c].state = "new" /\ compile'[c].state = "assigned"
       /\ \E b \in Candidates(c) : Available(b) > 0 /\ builder[b].load < 100
       => Available(compile'[c].builder) > 0]_vars

(***************************************************************************)
(* Clients are told to wait for an environment only while somebody who was *)
(* asked for it is still connected: none stays pending for good.           *)
(***************************************************************************)
PendingHasUploader ==
  \A e \in pendingEnvironments :
    \E c \in Clients : Uploading(c) /\ Env[c] = e
=============================================================================
