-------------------------- MODULE SchedulerProofs --------------------------
(***************************************************************************)
(* What holds of the scheduler's counters and of its registry for any      *)
(* number of builders, clients, slots and environments; then, of the       *)
(* script that supervises it, for any number of crashes, failed installs   *)
(* and new versions; last, of what it knows of the object cache of a       *)
(* builder, and of that cache.                                             *)
(***************************************************************************)
EXTENDS Scheduler, Supervisor, ObjectCache, KeySequences

(***************************************************************************)
(* The counters are exact because a client has a builder only between its  *)
(* assignment and the first of its 'error' and 'close': one that has not   *)
(* been handled yet has none.                                              *)
(***************************************************************************)
NewHasNone ==
  \A c \in Clients : compile[c].state = "new" => compile[c].builder = NoConn
IInv == TypeOK /\ NewHasNone /\ CountsExact

(* Sets of clients are finite, so they can be counted. *)
LEMMA ClientsFinite ==
  ASSUME NEW S, S \subseteq Clients
  PROVE  IsFiniteSet(S) /\ Cardinality(S) \in Nat
BY FS_Subset, FS_CardinalityType, SchedulerAssumption

(* A set without one of its clients has one client less. *)
LEMMA CountOneLess ==
  ASSUME NEW S, S \subseteq Clients, NEW c \in S
  PROVE  Cardinality(S \ {c}) = Cardinality(S) - 1
<1>1. IsFiniteSet(S)
  BY ClientsFinite
<1>2. Cardinality(S \ {c}) = IF c \in S THEN Cardinality(S) - 1
                                        ELSE Cardinality(S)
  BY <1>1, FS_RemoveElement, Zenon
<1> QED
  BY <1>2

(* Nobody is assigned and no count changes. *)
LEMMA CountsSame ==
  ASSUME CountsExact, activeJobs' = activeJobs,
         \A c \in Clients : compile'[c].builder = compile[c].builder,
         \A b \in Conns : builder'[b].activeClients = builder[b].activeClients
  PROVE  CountsExact'
<1>1. Assigned' = Assigned
  BY DEF Assigned
<1>2. \A b \in Conns : AssignedTo(b)' = AssignedTo(b)
  BY DEF AssignedTo
<1> QED
  BY <1>1, <1>2 DEF CountsExact, ActiveJobsExact, ActiveClientsExact

(* A client that had no builder is assigned to b: one more for both counts. *)
LEMMA AssignCounts ==
  ASSUME IInv, NEW c \in Clients, NEW b \in Conns,
         compile[c].state = "new", Assign(c, b)
  PROVE  CountsExact'
<1>1. compile[c].builder = NoConn /\ NoConn \notin Conns
  BY SchedulerAssumption DEF IInv, NewHasNone
<1>2. \A d \in Clients : compile'[d].builder = IF d = c THEN b
                                               ELSE compile[d].builder
  BY DEF Assign, IInv, TypeOK
<1>3. \A d \in Conns : builder'[d].activeClients =
         IF d = b THEN builder[d].activeClients + 1
                  ELSE builder[d].activeClients
  BY DEF Assign, IInv, TypeOK, Builder
<1>4. /\ Assigned \subseteq Clients /\ c \notin Assigned
      /\ Assigned' = Assigned \cup {c}
  BY <1>1, <1>2 DEF Assigned
<1>5. Cardinality(Assigned') = Cardinality(Assigned) + 1
  BY <1>4, ClientsFinite, FS_AddElement
<1>6. \A d \in Conns \ {b} : AssignedTo(d)' = AssignedTo(d)
  BY <1>1, <1>2 DEF AssignedTo
<1>7. /\ AssignedTo(b) \subseteq Clients /\ c \notin AssignedTo(b)
      /\ AssignedTo(b)' = AssignedTo(b) \cup {c}
  BY <1>1, <1>2 DEF AssignedTo
<1>8. Cardinality(AssignedTo(b)') = Cardinality(AssignedTo(b)) + 1
  BY <1>7, ClientsFinite, FS_AddElement
<1>9. ActiveJobsExact'
  BY <1>5 DEF Assign, IInv, CountsExact, ActiveJobsExact
<1>10. ActiveClientsExact'
  BY <1>3, <1>6, <1>8 DEF IInv, CountsExact, ActiveClientsExact
<1> QED
  BY <1>9, <1>10 DEF CountsExact

(* A client gives its builder back, if it has one. *)
LEMMA GiveBackCounts ==
  ASSUME IInv, NEW c \in Clients, NEW state, GiveBack(c, state)
  PROVE  CountsExact'
<1>1. NoConn \notin Conns
  BY SchedulerAssumption
<1>2. \A d \in Clients : compile'[d].builder = IF d = c THEN NoConn
                                               ELSE compile[d].builder
  BY DEF GiveBack, IInv, TypeOK
<1>3. CASE compile[c].builder = NoConn
  <2>1. \A d \in Clients : compile'[d].builder = compile[d].builder
    BY <1>2, <1>3
  <2>2. UNCHANGED <<builder, activeJobs>>
    BY <1>3 DEF GiveBack
  <2> QED
    BY <2>1, <2>2, CountsSame DEF IInv
<1>4. CASE compile[c].builder # NoConn
  <2>1. PICK b \in Conns : b = compile[c].builder
    BY <1>4 DEF IInv, TypeOK, Compile
  <2>2. /\ builder' = [builder EXCEPT ![b].activeClients = @ - 1]
        /\ activeJobs' = activeJobs - 1
    BY <1>4, <2>1 DEF GiveBack
  <2>3. \A d \in Conns : builder'[d].activeClients =
          IF d = b THEN builder[d].activeClients - 1
                   ELSE builder[d].activeClients
    BY <2>1, <2>2 DEF IInv, TypeOK, Builder
  <2>4. /\ Assigned \subseteq Clients /\ c \in Assigned
        /\ Assigned' = Assigned \ {c}
    BY <1>2, <1>4 DEF Assigned
  <2>5. Cardinality(Assigned') = Cardinality(Assigned) - 1
    <3>1. Cardinality(Assigned \ {c}) = Cardinality(Assigned) - 1
      BY <2>4, CountOneLess, Zenon
    <3> QED
      BY <3>1, <2>4
  <2>6. \A d \in Conns \ {b} : AssignedTo(d)' = AssignedTo(d)
    BY <1>1, <1>2, <2>1 DEF AssignedTo
  <2>7. /\ AssignedTo(b) \subseteq Clients /\ c \in AssignedTo(b)
        /\ AssignedTo(b)' = AssignedTo(b) \ {c}
    BY <1>1, <1>2, <2>1 DEF AssignedTo
  <2>8. Cardinality(AssignedTo(b)') = Cardinality(AssignedTo(b)) - 1
    <3>1. Cardinality(AssignedTo(b) \ {c}) = Cardinality(AssignedTo(b)) - 1
      BY <2>7, CountOneLess, Zenon
    <3> QED
      BY <3>1, <2>7
  <2>9. ActiveJobsExact'
    BY <2>2, <2>5 DEF IInv, CountsExact, ActiveJobsExact
  <2>10. ActiveClientsExact'
    BY <2>1, <2>3, <2>6, <2>8 DEF IInv, CountsExact, ActiveClientsExact
  <2> QED
    BY <2>9, <2>10 DEF CountsExact
<1> QED
  BY <1>3, <1>4

-----------------------------------------------------------------------------
(* Every step keeps the type of the state; a step has one of these shapes. *)

(* A builder's event: only its own object and the registry may change. *)
BuilderEvent(b) ==
  \/ BuilderRefused(b) \/ BuilderCloses(b) \/ BuilderCached(b)
  \/ \E envs \in SUBSET Envs :
       BuilderConnects(b, envs) \/ BuilderHasEnvironments(b, envs)
  \/ \E load \in Loads : BuilderLoad(b, load)

(* A builder that connects becomes a builder object with a key. *)
LEMMA BuilderConnectsType ==
  ASSUME TypeOK, NEW b \in Conns, NEW envs \in SUBSET Envs,
         BuilderConnects(b, envs)
  PROVE  TypeOK'
<1>1. builder' \in [Conns -> Builder]
  <2>1. builder[b] \in Builder /\ envs \cap environments \in SUBSET Envs
    BY DEF TypeOK
  <2>2. [builder[b] EXCEPT !.state = "live", !.envs = envs \cap environments]
          \in Builder
    BY <2>1 DEF Builder
  <2> QED
    BY <2>2 DEF BuilderConnects, TypeOK
<1>2. builders' \in [Keys -> Conns \cup {NoConn}]
  BY DEF BuilderConnects, TypeOK
<1>3. builderCount' \in Int /\ capacity' \in Int
  <2>1. Slots[b] \in Nat
    BY SchedulerAssumption
  <2> QED
    BY <2>1 DEF BuilderConnects, TypeOK
<1> QED
  BY <1>1, <1>2, <1>3 DEF BuilderConnects, TypeOK, envVars

(* A builder that closes leaves its key to nobody. *)
LEMMA BuilderClosesType ==
  ASSUME TypeOK, NEW b \in Conns, BuilderCloses(b)
  PROVE  TypeOK'
<1>1. builder' \in [Conns -> Builder]
  BY DEF BuilderCloses, TypeOK, Builder
<1>2. builders' \in [Keys -> Conns \cup {NoConn}]
  BY DEF BuilderCloses, TypeOK
<1>3. builderCount' \in Int /\ capacity' \in Int
  <2>1. Slots[b] \in Nat
    BY SchedulerAssumption
  <2> QED
    BY <2>1 DEF BuilderCloses, TypeOK
<1> QED
  BY <1>1, <1>2, <1>3 DEF BuilderCloses, TypeOK, envVars

(* A load that is reported is a load. *)
LEMMA BuilderLoadType ==
  ASSUME TypeOK, NEW b \in Conns, NEW load \in Loads, BuilderLoad(b, load)
  PROVE  TypeOK'
<1>1. builder' \in [Conns -> Builder]
  <2>1. [builder[b] EXCEPT !.load = load] \in Builder
    BY DEF TypeOK, Builder
  <2> QED
    BY <2>1 DEF BuilderLoad, TypeOK
<1> QED
  BY <1>1 DEF BuilderLoad, TypeOK, envVars

(* Every event of a builder keeps the types. *)
LEMMA BuilderStepType ==
  ASSUME TypeOK, NEW b \in Conns, BuilderEvent(b)
  PROVE  TypeOK'
<1>1. CASE BuilderRefused(b)
  BY <1>1 DEF BuilderRefused, TypeOK, Builder, envVars
<1>2. CASE BuilderCloses(b)
  BY <1>2, BuilderClosesType
<1>3. CASE BuilderCached(b)
  BY <1>3 DEF BuilderCached, TypeOK, builderVars, envVars
<1>4. ASSUME NEW envs \in SUBSET Envs, BuilderHasEnvironments(b, envs)
      PROVE  TypeOK'
  BY <1>4 DEF BuilderHasEnvironments, TypeOK, Builder, envVars
<1> QED
  BY <1>1, <1>2, <1>3, <1>4, BuilderConnectsType, BuilderLoadType
  DEF BuilderEvent

(* An assignment keeps the types. *)
LEMMA AssignType ==
  ASSUME TypeOK, NEW c \in Clients, NEW b \in Conns, Assign(c, b)
  PROVE  TypeOK'
<1>1. compile' \in [Clients -> Compile]
  BY DEF TypeOK, Assign, Compile
<1>2. builder' \in [Conns -> Builder]
  BY DEF TypeOK, Assign, Builder
<1> QED
  BY <1>1, <1>2 DEF TypeOK, Assign, envVars

(* Giving a builder back keeps the types. *)
LEMMA GiveBackType ==
  ASSUME TypeOK, NEW c \in Clients, NEW state \in {"failed", "closed"},
         GiveBack(c, state),
         nodes' \subseteq Conns, environments' \subseteq Envs,
         pendingEnvironments' \subseteq Envs, completing' \subseteq Clients
  PROVE  TypeOK'
<1>1. compile' \in [Clients -> Compile]
  BY DEF TypeOK, GiveBack, Compile
<1>2. builder' \in [Conns -> Builder] /\ activeJobs' \in Int
  <2>1. CASE compile[c].builder = NoConn
    BY <2>1 DEF TypeOK, GiveBack
  <2>2. CASE compile[c].builder # NoConn
    <3>1. PICK b \in Conns : b = compile[c].builder
      BY <2>2 DEF TypeOK, Compile
    <3> QED
      BY <2>2, <3>1 DEF TypeOK, GiveBack, Builder
  <2> QED
    BY <2>1, <2>2
<1> QED
  BY <1>1, <1>2 DEF TypeOK, GiveBack

(* A client's connection: assigned, refused or asked to upload. *)
LEMMA CompileConnectsType ==
  ASSUME TypeOK, NEW c \in Clients, CompileConnects(c)
  PROVE  TypeOK'
<1> USE SchedulerAssumption DEF TypeOK
<1>1. CASE NoBuilder(c)
  BY <1>1 DEF NoBuilder, Compile, builderVars, envVars
<1>2. CASE RequestEnvironment(c)
  BY <1>2 DEF RequestEnvironment, Compile, builderVars
<1>3. ASSUME NEW b \in Best(Candidates(c)), Assign(c, b)
      PROVE  TypeOK'
  <2>1. Candidates(c) \subseteq Conns
    BY DEF Candidates, Registered
  <2>2. b \in Conns
    BY <2>1 DEF Best
  <2> QED
    BY <1>3, <2>2, AssignType
<1> QED
  BY <1>1, <1>2, <1>3 DEF CompileConnects

(* The end of an upload keeps the types. *)
LEMMA UploadStepType ==
  ASSUME TypeOK, NEW c \in Clients,
         UploadFails(c) \/ UploadArrives(c) \/ EnvironmentCompleted(c)
  PROVE  TypeOK'
<1> USE SchedulerAssumption DEF TypeOK, builderVars
<1>1. CASE UploadFails(c)
  BY <1>1 DEF UploadFails, Compile
<1>2. CASE UploadArrives(c)
  BY <1>2 DEF UploadArrives
<1>3. CASE EnvironmentCompleted(c)
  BY <1>3 DEF EnvironmentCompleted
<1> QED
  BY <1>1, <1>2, <1>3

(* The end of a compile keeps the types. *)
LEMMA EndOfCompileType ==
  ASSUME TypeOK, NEW c \in Clients, CompileFails(c) \/ CompileCloses(c)
  PROVE  TypeOK'
<1>1. CASE CompileFails(c)
  BY <1>1, GiveBackType DEF CompileFails, TypeOK, envVars
<1>2. CASE CompileCloses(c)
  <2>1. GiveBack(c, "closed")
    BY <1>2 DEF CompileCloses
  <2>2. pendingEnvironments' \subseteq Envs
    BY <1>2 DEF CompileCloses, TypeOK
  <2>3. /\ nodes' \subseteq Conns /\ environments' \subseteq Envs
        /\ completing' \subseteq Clients
    BY <1>2 DEF CompileCloses, TypeOK
  <2> QED
    BY <2>1, <2>2, <2>3, GiveBackType
<1> QED
  BY <1>1, <1>2

-----------------------------------------------------------------------------
(* The inductive invariant holds at first ... *)
LEMMA InitIInv == Init => IInv
<1> SUFFICES ASSUME Init PROVE IInv
  OBVIOUS
<1>1. TypeOK
  BY SchedulerAssumption DEF Init, TypeOK, Builder, Compile
<1>2. NewHasNone
  BY DEF Init, NewHasNone
<1>3. Assigned = {} /\ \A b \in Conns : AssignedTo(b) = {}
  BY SchedulerAssumption DEF Init, Assigned, AssignedTo
<1>4. CountsExact
  BY <1>3, FS_EmptySet DEF Init, CountsExact, ActiveJobsExact,
                           ActiveClientsExact
<1> QED
  BY <1>1, <1>2, <1>4 DEF IInv

(* The events of builders leave every compile with the builder it has. *)
LEMMA BuilderStepIInv ==
  ASSUME IInv, NEW b \in Conns, BuilderEvent(b)
  PROVE  IInv'
<1>1. TypeOK'
  BY BuilderStepType DEF IInv
<1>2. compile' = compile /\ activeJobs' = activeJobs
  BY DEF BuilderEvent, BuilderRefused, BuilderCloses, BuilderCached,
         BuilderConnects,
         BuilderHasEnvironments, BuilderLoad
<1>3. \A d \in Conns : builder'[d].activeClients = builder[d].activeClients
  BY DEF BuilderEvent, BuilderRefused, BuilderCloses, BuilderCached,
         BuilderConnects,
         BuilderHasEnvironments, BuilderLoad, builderVars, IInv, TypeOK,
         Builder
<1>4. CountsExact'
  BY <1>2, <1>3, CountsSame DEF IInv
<1> QED
  BY <1>1, <1>2, <1>4 DEF IInv, NewHasNone

(* A client that connects is counted if it is assigned. *)
LEMMA CompileConnectsIInv ==
  ASSUME IInv, NEW c \in Clients, CompileConnects(c)
  PROVE  IInv'
<1>1. TypeOK'
  BY CompileConnectsType DEF IInv
<1>2. CASE NoBuilder(c) \/ RequestEnvironment(c)
  <2>1. \A d \in Clients : compile'[d].builder = compile[d].builder
    BY <1>2 DEF NoBuilder, RequestEnvironment, IInv, TypeOK, Compile
  <2>2. UNCHANGED <<builder, activeJobs>>
    BY <1>2 DEF NoBuilder, RequestEnvironment, builderVars
  <2>3. CountsExact'
    BY <2>1, <2>2, CountsSame DEF IInv
  <2>4. NewHasNone'
    BY <1>2, <2>1 DEF NoBuilder, RequestEnvironment, IInv, TypeOK, Compile,
                      NewHasNone
  <2> QED
    BY <1>1, <2>3, <2>4 DEF IInv
<1>3. ASSUME NEW b \in Best(Candidates(c)), Assign(c, b)
      PROVE  IInv'
  <2>1. Candidates(c) \subseteq Conns
    BY DEF Candidates, Registered, IInv, TypeOK
  <2>2. b \in Conns
    BY <2>1 DEF Best
  <2>3. compile[c].state = "new"
    BY DEF CompileConnects
  <2>4. CountsExact'
    BY <1>3, <2>2, <2>3, AssignCounts
  <2>5. NewHasNone'
    BY <1>3 DEF Assign, IInv, TypeOK, NewHasNone
  <2> QED
    BY <1>1, <2>4, <2>5 DEF IInv
<1> QED
  BY <1>2, <1>3 DEF CompileConnects

(* An upload is not an open compile. *)
LEMMA UploadStepIInv ==
  ASSUME IInv, NEW c \in Clients,
         UploadFails(c) \/ UploadArrives(c) \/ EnvironmentCompleted(c)
  PROVE  IInv'
<1>1. TypeOK'
  BY UploadStepType DEF IInv
<1>2. \A d \in Clients : /\ compile'[d].builder = compile[d].builder
                         /\ compile'[d].state = "new" =>
                              compile[d].state = "new"
  BY DEF UploadFails, UploadArrives, EnvironmentCompleted, IInv, TypeOK,
         Compile
<1>3. UNCHANGED <<builder, activeJobs>>
  BY DEF UploadFails, UploadArrives, EnvironmentCompleted, builderVars
<1>4. CountsExact'
  BY <1>2, <1>3, CountsSame DEF IInv
<1> QED
  BY <1>1, <1>2, <1>4 DEF IInv, NewHasNone

(* A compile that ends is not counted any more. *)
LEMMA EndOfCompileIInv ==
  ASSUME IInv, NEW c \in Clients, CompileFails(c) \/ CompileCloses(c)
  PROVE  IInv'
<1>1. TypeOK'
  BY EndOfCompileType DEF IInv
<1>2. PICK state \in {"failed", "closed"} : GiveBack(c, state)
  BY DEF CompileFails, CompileCloses
<1>3. CountsExact'
  BY <1>2, GiveBackCounts
<1>4. NewHasNone'
  BY <1>2 DEF GiveBack, IInv, TypeOK, NewHasNone
<1> QED
  BY <1>1, <1>3, <1>4 DEF IInv

(* ... and every step keeps it. *)
LEMMA NextIInv == IInv /\ [Next]_vars => IInv'
<1> SUFFICES ASSUME IInv, [Next]_vars PROVE IInv'
  OBVIOUS
<1>1. CASE UNCHANGED vars
  <2>1. CountsExact'
    BY <1>1, CountsSame DEF vars, builderVars, IInv
  <2> QED
    BY <1>1, <2>1 DEF vars, builderVars, envVars, IInv, TypeOK,
                      NewHasNone
<1>2. ASSUME NEW b \in Conns, BuilderEvent(b) PROVE IInv'
  BY <1>2, BuilderStepIInv
<1>3. ASSUME NEW c \in Clients, CompileConnects(c) PROVE IInv'
  BY <1>3, CompileConnectsIInv
<1>4. ASSUME NEW c \in Clients,
             UploadFails(c) \/ UploadArrives(c) \/ EnvironmentCompleted(c)
      PROVE  IInv'
  BY <1>4, UploadStepIInv
<1>5. ASSUME NEW c \in Clients, CompileFails(c) \/ CompileCloses(c)
      PROVE  IInv'
  BY <1>5, EndOfCompileIInv
<1> QED
  BY <1>1, <1>2, <1>3, <1>4, <1>5 DEF Next, BuilderEvent

(***************************************************************************)
(* The type invariant, for the variables of fisk-scheduler.js.             *)
(***************************************************************************)
THEOREM TypeCorrect == Spec => []TypeOK
<1>1. IInv => TypeOK
  BY DEF IInv
<1> QED
  BY <1>1, InitIInv, NextIInv, PTL DEF Spec

(***************************************************************************)
(* activeJobs and every builder's activeClients count the open compiles    *)
(* exactly, whatever order connections end and fail in.                    *)
(***************************************************************************)
THEOREM CountersAreExact == Spec => []CountsExact
<1>1. IInv => CountsExact
  BY DEF IInv
<1> QED
  BY <1>1, InitIInv, NextIInv, PTL DEF Spec

-----------------------------------------------------------------------------
(* The registry.                                                           *)

(* What clients do leaves the registry and every builder's state alone. *)
LEMMA ClientStepRegistry ==
  ASSUME TypeOK, NEW c \in Clients,
         \/ CompileConnects(c) \/ CompileFails(c) \/ CompileCloses(c)
         \/ UploadFails(c) \/ UploadArrives(c) \/ EnvironmentCompleted(c)
  PROVE  /\ builders' = builders /\ nodes' = nodes
         /\ \A b \in Conns : builder'[b].state = builder[b].state
<1>1. CASE CompileConnects(c)
  <2>1. CASE NoBuilder(c) \/ RequestEnvironment(c)
    BY <2>1 DEF NoBuilder, RequestEnvironment, builderVars
  <2>2. ASSUME NEW b \in Conns, Assign(c, b)
        PROVE  /\ builders' = builders /\ nodes' = nodes
               /\ \A d \in Conns : builder'[d].state = builder[d].state
    BY <2>2 DEF Assign, TypeOK, Builder
  <2>3. Best(Candidates(c)) \subseteq Conns
    BY DEF Best, Candidates, Registered, TypeOK
  <2> QED
    BY <1>1, <2>1, <2>2, <2>3 DEF CompileConnects
<1>2. CASE CompileFails(c) \/ CompileCloses(c)
  <2>1. PICK state : GiveBack(c, state)
    BY <1>2 DEF CompileFails, CompileCloses
  <2>2. CASE compile[c].builder = NoConn
    BY <1>2, <2>1, <2>2 DEF GiveBack, CompileFails, CompileCloses
  <2>3. CASE compile[c].builder # NoConn
    <3>1. PICK b \in Conns : b = compile[c].builder
      BY <2>3 DEF TypeOK, Compile
    <3>2. builder' = [builder EXCEPT ![b].activeClients = @ - 1]
      BY <2>1, <2>3, <3>1 DEF GiveBack
    <3>3. \A d \in Conns : builder'[d].state = builder[d].state
      BY <3>2 DEF TypeOK, Builder
    <3> QED
      BY <1>2, <2>1, <3>3 DEF GiveBack, CompileFails, CompileCloses
  <2> QED
    BY <2>2, <2>3
<1>3. CASE UploadFails(c) \/ UploadArrives(c) \/ EnvironmentCompleted(c)
  BY <1>3 DEF UploadFails, UploadArrives, EnvironmentCompleted, builderVars
<1> QED
  BY <1>1, <1>2, <1>3

(* A step that changes neither the registry nor a builder's state keeps it. *)
LEMMA RegistrySame ==
  ASSUME OnlyLiveBuilders, builders' = builders, nodes' = nodes,
         \A b \in Conns : builder'[b].state = builder[b].state
  PROVE  OnlyLiveBuilders'
<1>1. Live' = Live
  BY DEF Live
<1>2. Registered' = Registered
  BY DEF Registered
<1> QED
  BY <1>1, <1>2 DEF OnlyLiveBuilders

(* A builder that connects is live and takes the place of its key. *)
LEMMA BuilderConnectsRegistry ==
  ASSUME TypeOK, OnlyLiveBuilders, NEW b \in Conns, NEW envs,
         BuilderConnects(b, envs)
  PROVE  OnlyLiveBuilders'
<1>1. Live' = Live \cup {b}
  BY DEF BuilderConnects, TypeOK, Builder, Live
<1>2. \A k \in Keys : builders'[k] = IF k = Key[b] THEN b ELSE builders[k]
  BY SchedulerAssumption DEF BuilderConnects, TypeOK
<1>3. Registered' \subseteq Registered \cup {b}
  BY <1>2 DEF Registered
<1>4. nodes' = nodes
  BY DEF BuilderConnects
<1> QED
  BY <1>1, <1>2, <1>3, <1>4 DEF OnlyLiveBuilders

(* It is registered under its own key only, which is what is deleted. *)
LEMMA BuilderClosesRegistry ==
  ASSUME TypeOK, OnlyLiveBuilders, NEW b \in Conns, BuilderCloses(b)
  PROVE  OnlyLiveBuilders'
<1>1. Live' = Live \ {b}
  BY DEF BuilderCloses, TypeOK, Builder, Live
<1>2. /\ NoConn \notin Conns
      /\ \A k \in Keys : builders'[k] = IF k = Key[b] THEN NoConn
                                                      ELSE builders[k]
  BY SchedulerAssumption DEF BuilderCloses, TypeOK
<1>3. \A k \in Keys : builders[k] = b => k = Key[b]
  BY <1>2 DEF OnlyLiveBuilders
<1>4. Registered' \subseteq Registered \ {b}
  BY <1>2, <1>3 DEF Registered
<1>5. nodes' = nodes \ {b}
  BY DEF BuilderCloses
<1> QED
  BY <1>1, <1>2, <1>4, <1>5 DEF OnlyLiveBuilders

(* Every event of a builder keeps the registry live. *)
LEMMA BuilderEventRegistry ==
  ASSUME TypeOK, OnlyLiveBuilders, NEW b \in Conns, BuilderEvent(b)
  PROVE  OnlyLiveBuilders'
<1>1. CASE BuilderRefused(b)
  <2>1. Live' = Live
    BY <1>1 DEF BuilderRefused, TypeOK, Builder, Live
  <2> QED
    BY <1>1, <2>1 DEF BuilderRefused, OnlyLiveBuilders, Registered
<1>2. CASE BuilderCloses(b)
  BY <1>2, BuilderClosesRegistry
<1>3. CASE BuilderCached(b)
  <2>1. Live' = Live /\ b \in Live /\ Registered' = Registered
    BY <1>3 DEF BuilderCached, builderVars, Live, Registered
  <2> QED
    BY <1>3, <2>1 DEF BuilderCached, builderVars, OnlyLiveBuilders
<1>4. ASSUME NEW envs \in SUBSET Envs, BuilderHasEnvironments(b, envs)
      PROVE  OnlyLiveBuilders'
  <2>1. \A d \in Conns : builder'[d].state = builder[d].state
    BY <1>4 DEF BuilderHasEnvironments, TypeOK, Builder
  <2> QED
    BY <1>4, <2>1, RegistrySame DEF BuilderHasEnvironments
<1>5. ASSUME NEW load \in Loads, BuilderLoad(b, load)
      PROVE  OnlyLiveBuilders'
  <2>1. \A d \in Conns : builder'[d].state = builder[d].state
    BY <1>5 DEF BuilderLoad, TypeOK, Builder
  <2> QED
    BY <1>5, <2>1, RegistrySame DEF BuilderLoad
<1> QED
  BY <1>1, <1>2, <1>3, <1>4, <1>5, BuilderConnectsRegistry DEF BuilderEvent

(* The registry is empty at first ... *)
LEMMA InitRegistry == Init => OnlyLiveBuilders
BY DEF Init, OnlyLiveBuilders, Registered, Live

(* ... and every step keeps it live. *)
LEMMA NextRegistry ==
  TypeOK /\ OnlyLiveBuilders /\ [Next]_vars => OnlyLiveBuilders'
<1> SUFFICES ASSUME TypeOK, OnlyLiveBuilders, [Next]_vars
             PROVE  OnlyLiveBuilders'
  OBVIOUS
<1>1. CASE UNCHANGED vars
  BY <1>1, RegistrySame DEF vars, builderVars
<1>2. ASSUME NEW b \in Conns, BuilderEvent(b) PROVE OnlyLiveBuilders'
  BY <1>2, BuilderEventRegistry
<1>3. ASSUME NEW c \in Clients,
             \/ CompileConnects(c) \/ CompileFails(c) \/ CompileCloses(c)
             \/ UploadFails(c) \/ UploadArrives(c) \/ EnvironmentCompleted(c)
      PROVE  OnlyLiveBuilders'
  BY <1>3, ClientStepRegistry, RegistrySame
<1> QED
  BY <1>1, <1>2, <1>3 DEF Next, BuilderEvent

(***************************************************************************)
(* Neither the registry nor the object cache manager remembers a builder   *)
(* whose connection is closed, so that no client can be sent to one.       *)
(***************************************************************************)
THEOREM RegistryIsLive == Spec => []OnlyLiveBuilders
<1>1. Init => OnlyLiveBuilders
  BY InitRegistry
<1>2. TypeOK /\ OnlyLiveBuilders /\ [Next]_vars => OnlyLiveBuilders'
  BY NextRegistry
<1> QED
  BY <1>1, <1>2, TypeCorrect, PTL DEF Spec

-----------------------------------------------------------------------------
(* Who falls out of the registry.                                          *)

Lost(b) ==
  b \in Registered /\ b \notin Registered' /\ b \in Live'
    => \E d \in Conns \ {b} : TakesPlace(d, b)

(* Who is pushed out by a new connection has a live namesake. *)
LEMMA LostInConnect ==
  ASSUME TypeOK, OnlyLiveBuilders, NEW b \in Conns, NEW d \in Conns,
         NEW envs, BuilderConnects(d, envs)
  PROVE  Lost(b)
<1> SUFFICES ASSUME b \in Registered, b \notin Registered'
             PROVE  \E e \in Conns \ {b} : TakesPlace(e, b)
  BY DEF Lost
<1>1. PICK k \in Keys : builders[k] = b
  BY DEF Registered
<1>2. Key[b] = k
  BY <1>1, SchedulerAssumption DEF OnlyLiveBuilders
<1>3. \A l \in Keys : builders'[l] = IF l = Key[d] THEN d ELSE builders[l]
  BY SchedulerAssumption DEF BuilderConnects, TypeOK
<1>4. builders'[k] # b
  BY SchedulerAssumption DEF Registered
<1>5. k = Key[d] /\ d # b
  BY <1>1, <1>3, <1>4
<1>6. d \notin Live /\ builders'[Key[b]] = d
  BY <1>2, <1>3, <1>5 DEF BuilderConnects, TypeOK, Builder, Live
<1> QED
  BY <1>2, <1>5, <1>6 DEF TakesPlace

(* Who is deleted with an old connection has a live namesake. *)
LEMMA LostInClose ==
  ASSUME TypeOK, OnlyLiveBuilders, NEW b \in Conns, NEW d \in Conns,
         BuilderCloses(d)
  PROVE  Lost(b)
<1> SUFFICES ASSUME b \in Registered, b \notin Registered', b \in Live'
             PROVE  \E e \in Conns \ {b} : TakesPlace(e, b)
  BY DEF Lost
<1>1. PICK k \in Keys : builders[k] = b
  BY DEF Registered
<1>2. Key[b] = k
  BY <1>1, SchedulerAssumption DEF OnlyLiveBuilders
<1>3. \A l \in Keys : builders'[l] = IF l = Key[d] THEN NoConn
                                                   ELSE builders[l]
  BY SchedulerAssumption DEF BuilderCloses, TypeOK
<1>4. builders'[k] # b
  BY SchedulerAssumption DEF Registered
<1>5. k = Key[d]
  BY <1>1, <1>3, <1>4
<1>6. d \in Live /\ d \notin Live'
  BY DEF BuilderCloses, TypeOK, Builder, Live
<1> QED
  BY <1>2, <1>5, <1>6 DEF TakesPlace

(* Nothing else takes anybody out of the registry. *)
LEMMA LostInStep ==
  ASSUME TypeOK, OnlyLiveBuilders, Next, NEW b \in Conns
  PROVE  Lost(b)
<1>1. CASE builders' = builders
  BY <1>1 DEF Lost, Registered
<1>2. CASE builders' # builders
  <2>1. PICK d \in Conns :
          BuilderCloses(d) \/ \E envs \in SUBSET Envs : BuilderConnects(d, envs)
    BY <1>2, ClientStepRegistry
    DEF Next, BuilderRefused, BuilderCached, BuilderHasEnvironments,
        BuilderLoad, builderVars
  <2> QED
    BY <2>1, LostInConnect, LostInClose
<1> QED
  BY <1>1, <1>2

(***************************************************************************)
(* A connected builder loses its place in the registry only to one that    *)
(* connects under its key, or when a connection under its key closes.      *)
(***************************************************************************)
THEOREM RegistryLosses == Spec => LostOnlyByNamesake
<1>1. TypeOK /\ OnlyLiveBuilders /\ Next => \A b \in Conns : Lost(b)
  BY LostInStep
<1>2. TypeOK /\ OnlyLiveBuilders /\ [Next]_vars =>
        [\A b \in Conns :
           b \in Registered /\ b \notin Registered' /\ b \in Live' =>
             \E d \in Conns \ {b} : TakesPlace(d, b)]_vars
  BY <1>1 DEF Lost
<1> QED
  BY <1>2, TypeCorrect, RegistryIsLive, PTL DEF Spec, LostOnlyByNamesake

-----------------------------------------------------------------------------
(* A client's event. *)
ClientStep(c) ==
  \/ CompileConnects(c) \/ CompileFails(c) \/ CompileCloses(c)
  \/ UploadFails(c) \/ UploadArrives(c) \/ EnvironmentCompleted(c)

(* A builder's event leaves compiles and uploads alone. *)
LEMMA BuilderEventCompiles ==
  ASSUME NEW b \in Conns, BuilderEvent(b)
  PROVE  compile' = compile /\ pendingEnvironments' = pendingEnvironments
BY DEF BuilderEvent, BuilderRefused, BuilderCloses, BuilderCached,
       BuilderConnects, BuilderHasEnvironments, BuilderLoad, envVars

(* A step of a client is seen by no other compile; if it makes a client    *)
(* stop uploading, or its environment pending, that is the environment of  *)
(* this client.                                                            *)
LEMMA ClientEventCompiles ==
  ASSUME TypeOK, NEW c \in Clients, ClientStep(c)
  PROVE  /\ \A d \in Clients \ {c} : compile'[d] = compile[d]
         /\ \A e \in pendingEnvironments' :
              \/ e = Env[c] /\ Uploading(c)'
              \/ /\ e \in pendingEnvironments
                 /\ (Uploading(c) => (Uploading(c)' \/ e # Env[c]))
<1> USE DEF TypeOK, Compile, Uploading
<1>1. CASE CompileConnects(c)
  <2>1. CASE NoBuilder(c)
    BY <1>1, <2>1 DEF CompileConnects, NoBuilder, envVars
  <2>2. CASE RequestEnvironment(c)
    BY <2>2 DEF RequestEnvironment
  <2>3. ASSUME NEW b, Assign(c, b)
        PROVE  /\ \A d \in Clients \ {c} : compile'[d] = compile[d]
               /\ pendingEnvironments' = pendingEnvironments
    BY <2>3 DEF Assign, envVars
  <2> QED
    BY <1>1, <2>1, <2>2, <2>3 DEF CompileConnects
<1>2. CASE CompileFails(c)
  BY <1>2 DEF CompileFails, GiveBack, envVars
<1>3. CASE CompileCloses(c)
  BY <1>3 DEF CompileCloses, GiveBack
<1>4. CASE UploadFails(c)
  BY <1>4 DEF UploadFails
<1>5. CASE UploadArrives(c) \/ EnvironmentCompleted(c)
  BY <1>5 DEF UploadArrives, EnvironmentCompleted
<1> QED
  BY <1>1, <1>2, <1>3, <1>4, <1>5 DEF ClientStep

(***************************************************************************)
(* While an environment is pending, whoever was asked for it is connected. *)
(***************************************************************************)
THEOREM NoneStaysPending == Spec => []PendingHasUploader
<1>1. Init => PendingHasUploader
  BY DEF Init, PendingHasUploader
<1>2. TypeOK /\ PendingHasUploader /\ [Next]_vars => PendingHasUploader'
  <2> SUFFICES ASSUME TypeOK, PendingHasUploader, [Next]_vars,
                      NEW e \in pendingEnvironments'
               PROVE  \E c \in Clients : Uploading(c)' /\ Env[c] = e
    BY DEF PendingHasUploader
  <2>1. ASSUME NEW c \in Clients, ClientStep(c)
        PROVE  \E d \in Clients : Uploading(d)' /\ Env[d] = e
    <3>1. CASE e = Env[c] /\ Uploading(c)'
      BY <3>1
    <3>2. CASE /\ e \in pendingEnvironments
               /\ (Uploading(c) => (Uploading(c)' \/ e # Env[c]))
      <4>1. PICK d \in Clients : Uploading(d) /\ Env[d] = e
        BY <3>2 DEF PendingHasUploader
      <4>2. Uploading(d)'
        BY <2>1, <3>2, <4>1, ClientEventCompiles DEF Uploading
      <4> QED
        BY <4>1, <4>2
    <3> QED
      BY <2>1, <3>1, <3>2, ClientEventCompiles
  <2>2. CASE UNCHANGED vars
    BY <2>2 DEF vars, envVars, PendingHasUploader, Uploading
  <2>3. ASSUME NEW b \in Conns, BuilderEvent(b)
        PROVE  \E d \in Clients : Uploading(d)' /\ Env[d] = e
    BY <2>3, BuilderEventCompiles DEF PendingHasUploader, Uploading
  <2> QED
    BY <2>1, <2>2, <2>3 DEF Next, BuilderEvent, ClientStep
<1> QED
  BY <1>1, <1>2, TypeCorrect, PTL DEF Spec

-----------------------------------------------------------------------------
(* A product with a factor that is not negative has the sign of the other. *)
LEMMA ScoreHasSign ==
  ASSUME NEW m \in Int, NEW k \in Nat
  PROVE  /\ m > 0 /\ k > 0 => m * k > 0
         /\ m * k > 0 => m > 0
<1>1. m > 0 /\ k > 0 => m * k > 0
  BY SMT
<1>2. m <= 0 => m * k <= 0
  BY SMT
<1>3. m * k \in Int
  OBVIOUS
<1> QED
  BY <1>1, <1>2, <1>3

(* A builder's score is positive just if it has a free slot and is not     *)
(* fully loaded.                                                           *)
LEMMA ScoreMeans ==
  ASSUME TypeOK, NEW b \in Conns
  PROVE  /\ Score(b) \in Int /\ Available(b) \in Int
         /\ Available(b) > 0 /\ builder[b].load < 100 => Score(b) > 0
         /\ Score(b) > 0 => Available(b) > 0
<1>1. Available(b) \in Int
  BY SchedulerAssumption DEF TypeOK, Builder, Available
<1>2. builder[b].load \in 0..100
  BY SchedulerAssumption DEF TypeOK, Builder
<1> DEFINE m == LesserOf(4, Available(b))
           k == 100 - builder[b].load
<1>3. /\ m \in Int /\ k \in Nat
      /\ m > 0 <=> Available(b) > 0
      /\ builder[b].load < 100 => k > 0
  BY <1>1, <1>2 DEF LesserOf
<1>4. Score(b) = m * k
  BY DEF Score
<1> HIDE DEF m, k
<1>5. m * k \in Int
  BY <1>3
<1> QED
  BY <1>1, <1>3, <1>4, <1>5, ScoreHasSign

(* The choice of a builder in one step. *)
FreeIfAny(c) ==
  /\ compile[c].state = "new" /\ compile'[c].state = "assigned"
  /\ \E b \in Candidates(c) : Available(b) > 0 /\ builder[b].load < 100
  => Available(compile'[c].builder) > 0

(* Of the candidates with the best score none is without a free slot, if   *)
(* any candidate has a positive score.                                     *)
LEMMA AssignTakesFree ==
  ASSUME TypeOK, NEW c \in Clients, ClientStep(c)
  PROVE  FreeIfAny(c)
<1> SUFFICES ASSUME compile[c].state = "new",
                    compile'[c].state = "assigned",
                    NEW d \in Candidates(c),
                    Available(d) > 0, builder[d].load < 100
             PROVE  Available(compile'[c].builder) > 0
  BY DEF FreeIfAny
<1>1. CompileConnects(c)
  BY DEF ClientStep, CompileFails, CompileCloses, UploadFails, UploadArrives,
         EnvironmentCompleted
<1>2. PICK b \in Best(Candidates(c)) : Assign(c, b)
  BY <1>1 DEF CompileConnects, NoBuilder, RequestEnvironment, TypeOK, Compile
<1>3. compile'[c].builder = b
  BY <1>2 DEF Assign, TypeOK
<1>4. Candidates(c) \subseteq Conns
  BY SchedulerAssumption DEF Candidates, Registered, TypeOK
<1>5. b \in Conns /\ d \in Conns /\ Score(d) <= Score(b)
  BY <1>2, <1>4 DEF Best
<1>6. Score(d) \in Int /\ Score(b) \in Int /\ Score(d) > 0
  BY <1>5, ScoreMeans
<1>7. Score(b) > 0
  BY <1>5, <1>6
<1> QED
  BY <1>3, <1>5, <1>7, ScoreMeans

(***************************************************************************)
(* A compile goes to a builder with a free slot if one that would do has   *)
(* one and is not fully loaded.                                            *)
(***************************************************************************)
THEOREM FreeSlotsAreUsed == Spec => FreeSlotFirst
<1>1. TypeOK /\ [Next]_vars => \A c \in Clients : FreeIfAny(c)
  <2> SUFFICES ASSUME TypeOK, [Next]_vars, NEW c \in Clients
               PROVE  FreeIfAny(c)
    OBVIOUS
  <2>1. CASE compile'[c] = compile[c]
    BY <2>1 DEF FreeIfAny
  <2>2. ASSUME NEW d \in Clients, ClientStep(d)
        PROVE  FreeIfAny(c)
    BY <2>1, <2>2, AssignTakesFree, ClientEventCompiles
  <2>3. ASSUME NEW b \in Conns, BuilderEvent(b)
        PROVE  FreeIfAny(c)
    BY <2>1, <2>3, BuilderEventCompiles
  <2>4. CASE UNCHANGED vars
    BY <2>1, <2>4 DEF vars
  <2> QED
    BY <2>2, <2>3, <2>4 DEF Next, BuilderEvent, ClientStep
<1>2. TypeOK /\ [Next]_vars =>
        [\A c \in Clients :
           /\ compile[c].state = "new" /\ compile'[c].state = "assigned"
           /\ \E b \in Candidates(c) :
                Available(b) > 0 /\ builder[b].load < 100
           => Available(compile'[c].builder) > 0]_vars
  BY <1>1 DEF FreeIfAny
<1> QED
  BY <1>2, TypeCorrect, PTL DEF Spec, FreeSlotFirst

-----------------------------------------------------------------------------
(***************************************************************************)
(* The supervisor: what its functions keep.  Chains counts the runs of     *)
(* checkForUpdate() that go on or will; with n crashes there is one at     *)
(* least and 1 + n at most.                                                *)
(***************************************************************************)
Alone(s) == s.procs = IF s.fisk = "child" THEN 1 ELSE 0
Paced(s) == s.active <=> ~s.timer
Sound(s, n) ==
  /\ s \in State /\ Alone(s) /\ Paced(s)
  /\ Chains(s) \in 1..(1 + n)
WaitingIn(s) == {c \in Checks : s.check[c] \in Killing}

(* The runs can be counted. *)
LEMMA RunsCounted ==
  ASSUME NEW s \in State
  PROVE  /\ IsFiniteSet(Running(s)) /\ Cardinality(Running(s)) \in Nat
         /\ Chains(s) \in Nat /\ Cardinality(Running(s)) <= Chains(s)
         /\ Chains(s) = Cardinality(Running(s)) + (IF s.timer THEN 1 ELSE 0)
                          + s.leaked + s.removing + s.recheck
<1>1. Running(s) \subseteq Checks
  BY DEF Running
<1>2. IsFiniteSet(Running(s)) /\ Cardinality(Running(s)) \in Nat
  BY <1>1, SupervisorAssumption, FS_Subset, FS_CardinalityType
<1>3. s.leaked \in Nat /\ s.removing \in Nat /\ s.recheck \in Nat
  BY DEF State
<1>4. Chains(s) = Cardinality(Running(s)) + (IF s.timer THEN 1 ELSE 0)
                    + s.leaked + s.removing + s.recheck
  BY DEF Chains
<1> QED
  BY <1>2, <1>3, <1>4

(* One more runs, ... *)
LEMMA OneMoreRuns ==
  ASSUME NEW s \in State, NEW t \in State, NEW c \in Checks, c \notin Running(s),
         t.check[c] # "idle", \A d \in Checks : d # c => t.check[d] = s.check[d]
  PROVE  Cardinality(Running(t)) = Cardinality(Running(s)) + 1
<1>1. Running(t) = Running(s) \cup {c}
  BY DEF Running
<1> QED
  BY <1>1, RunsCounted, FS_AddElement

(* ... one less, ... *)
LEMMA OneLessRuns ==
  ASSUME NEW s \in State, NEW t \in State, NEW c \in Running(s),
         t.check[c] = "idle", \A d \in Checks : d # c => t.check[d] = s.check[d]
  PROVE  Cardinality(Running(t)) = Cardinality(Running(s)) - 1
<1>1. Running(t) = Running(s) \ {c}
  BY DEF Running
<1> QED
  BY <1>1, RunsCounted, FS_RemoveElement

(* ... or as many: a run that goes from one wait to the next. *)
LEMMA AsManyRun ==
  ASSUME NEW s \in State, NEW t \in State, NEW c \in Running(s),
         t.check[c] # "idle", \A d \in Checks : d # c => t.check[d] = s.check[d]
  PROVE  Running(t) = Running(s)
BY DEF Running

(* With one chain and a check that goes on, nothing else goes on or will. *)
LEMMA OnlyOneRuns ==
  ASSUME NEW s \in State, Chains(s) = 1, NEW c \in Running(s)
  PROVE  /\ Running(s) = {c} /\ ~s.timer
         /\ s.leaked = 0 /\ s.removing = 0 /\ s.recheck = 0
<1>1. Cardinality(Running(s)) # 0
  BY RunsCounted, FS_EmptySet
<1>2. s.leaked \in Nat /\ s.removing \in Nat /\ s.recheck \in Nat
  BY DEF State
<1>3. /\ Cardinality(Running(s)) = 1 /\ ~s.timer
      /\ s.leaked = 0 /\ s.removing = 0 /\ s.recheck = 0
  BY <1>1, <1>2, RunsCounted
<1>4. Running(s) = {c}
  BY <1>3, RunsCounted, FS_Singleton
<1> QED
  BY <1>3, <1>4

-----------------------------------------------------------------------------
(* checkForUpdate() finds a run to be: one more runs, and no timer is set. *)
LEMMA CheckBegins ==
  ASSUME NEW s \in State, Cardinality(Running(s)) <= MaxCrashes + 1,
         NEW t, t = CheckForUpdate(s)
  PROVE  /\ t \in State /\ t.active /\ ~t.timer
         /\ Chains(t) = Chains(s) + 1 - (IF s.timer THEN 1 ELSE 0)
         /\ t.fisk = s.fisk /\ t.procs = s.procs /\ t.killed = s.killed
         /\ t.restart = s.restart /\ t.leaked = s.leaked
         /\ t.removing = s.removing /\ t.recheck = s.recheck
         /\ t.prod = Mkdirp(s.prod) /\ t.stage = Mkdirp(s.stage)
         /\ \E c \in Checks :
              /\ c \notin Running(s)
              /\ t.check[c] \in {"askOld", "askNew", "install"}
              /\ t.check[c] = "askNew" => s.prod \in {"new", "half"}
              /\ \A d \in Checks : d # c => t.check[d] = s.check[d]
<1> DEFINE Idle == {c \in Checks : s.check[c] = "idle"}
           c == CHOOSE c \in Checks : s.check[c] = "idle"
           first == CASE s.prod = "old" -> "askOld"
                      [] s.prod \in {"new", "half"} -> "askNew"
                      [] OTHER -> "install"
<1>1. Running(s) # Checks
  BY RunsCounted, SupervisorAssumption
<1>2. \E d \in Checks : s.check[d] = "idle"
  BY <1>1 DEF Running
<1>3. c \in Checks /\ s.check[c] = "idle"
  BY <1>2
<1>4. t = [s EXCEPT !.active = TRUE, !.timer = FALSE, !.check[c] = first,
                    !.prod = Mkdirp(@), !.stage = Mkdirp(@)]
  BY DEF CheckForUpdate
<1>5. /\ first \in {"askOld", "askNew", "install"}
      /\ first = "askNew" => s.prod \in {"new", "half"}
  OBVIOUS
<1> HIDE DEF first, c, Idle
<1>6. Mkdirp(s.prod) \in Trees /\ Mkdirp(s.stage) \in Trees
  BY DEF Mkdirp, State, Trees
<1>7. t \in State
  <2>1. s \in State
    OBVIOUS
  <2>2. [s.check EXCEPT ![c] = first] \in [Checks -> Waits]
    BY <1>3, <1>5 DEF State, Waits, Asking
  <2> QED
    BY <2>1, <2>2, <1>4, <1>6 DEF State
<1>8. /\ t.active /\ ~t.timer
      /\ t.fisk = s.fisk /\ t.procs = s.procs /\ t.killed = s.killed
      /\ t.restart = s.restart /\ t.leaked = s.leaked
      /\ t.removing = s.removing /\ t.recheck = s.recheck
      /\ t.prod = Mkdirp(s.prod) /\ t.stage = Mkdirp(s.stage)
      /\ t.check = [s.check EXCEPT ![c] = first]
  BY <1>4 DEF State
<1>9. t.check[c] = first /\ \A d \in Checks : d # c => t.check[d] = s.check[d]
  BY <1>3, <1>8 DEF State
<1>10. c \notin Running(s)
  BY <1>3 DEF Running
<1>11. Cardinality(Running(t)) = Cardinality(Running(s)) + 1
  BY <1>3, <1>5, <1>7, <1>9, <1>10, OneMoreRuns
<1>12. Chains(t) = Chains(s) + 1 - (IF s.timer THEN 1 ELSE 0)
  <2>1. s.leaked \in Nat /\ s.removing \in Nat /\ s.recheck \in Nat
    BY DEF State
  <2> QED
    BY <1>7, <1>8, <1>11, <2>1, RunsCounted
<1> QED
  BY <1>3, <1>5, <1>7, <1>8, <1>9, <1>10, <1>12

(* Forking, where there was no child, ends with one or with none. *)
LEMMA ForkStarts ==
  ASSUME NEW n \in 0..MaxCrashes, NEW s, Sound(s, n), s.fisk = "none",
         NEW t, t = Fork(s)
  PROVE  /\ Sound(t, n) /\ t.check = s.check /\ t.killed = s.killed
         /\ t.active = s.active /\ t.timer = s.timer /\ t.leaked = s.leaked
         /\ t.restart = s.restart
         /\ t.removing = s.removing /\ t.recheck = s.recheck
         /\ t.prod = s.prod /\ t.stage = s.stage
         /\ t.fisk = IF s.prod \in Whole THEN "child" ELSE "failed"
<1>1. s \in State /\ s.procs = 0
  BY DEF Sound, Alone
<1>2. t = IF s.prod \in Whole
          THEN [s EXCEPT !.fisk = "child", !.procs = 1,
                         !.young = TRUE, !.wedged = FALSE]
          ELSE [s EXCEPT !.fisk = "failed"]
  BY <1>1 DEF Fork, State
<1>3. /\ t.check = s.check /\ t.killed = s.killed /\ t.restart = s.restart
      /\ t.active = s.active /\ t.timer = s.timer /\ t.leaked = s.leaked
      /\ t.removing = s.removing /\ t.recheck = s.recheck
      /\ t.prod = s.prod /\ t.stage = s.stage
      /\ t.fisk = IF s.prod \in Whole THEN "child" ELSE "failed"
      /\ t.procs = IF s.prod \in Whole THEN 1 ELSE 0
  BY <1>1, <1>2 DEF State
<1>4. t \in State
  <2>1. 1 \in 0..2
    OBVIOUS
  <2>2. CASE s.prod \in Whole
    <3>1. t = [s EXCEPT !.fisk = "child", !.procs = 1,
                        !.young = TRUE, !.wedged = FALSE]
      BY <1>2, <2>2
    <3> QED
      BY <1>1, <2>1, <3>1 DEF State
  <2>3. CASE s.prod \notin Whole
    <3>1. t = [s EXCEPT !.fisk = "failed"]
      BY <1>2, <2>3
    <3> QED
      BY <1>1, <3>1 DEF State
  <2> QED
    BY <2>2, <2>3
<1>5. Chains(t) = Chains(s)
  BY <1>3 DEF Chains, Running
<1>6. Alone(t) /\ Paced(t)
  BY <1>3 DEF Sound, Alone, Paced
<1> QED
  BY <1>3, <1>4, <1>5, <1>6 DEF Sound

(* startFisk(): no check that goes on is touched, and none is lost. *)
LEMMA StartFiskStarts ==
  ASSUME NEW n \in 0..MaxCrashes, NEW s, Sound(s, n), NEW t, t = StartFisk(s)
  PROVE  /\ Sound(t, n) /\ t.killed = s.killed /\ t.restart = s.restart
         /\ \A d \in Running(s) : t.check[d] = s.check[d]
         /\ WaitingIn(t) = WaitingIn(s)
         /\ s.fisk # "none" => t = s
         /\ s.fisk = "none" /\ s.active => t = Fork(s)
<1>1. CASE s.fisk # "none"
  BY <1>1 DEF StartFisk, Sound
<1>2. CASE s.fisk = "none" /\ s.active
  <2>1. t = Fork(s)
    BY <1>2 DEF StartFisk
  <2>2. Sound(t, n) /\ t.check = s.check /\ t.killed = s.killed /\ t.restart = s.restart
    BY <1>2, <2>1, ForkStarts
  <2> QED
    BY <1>2, <2>1, <2>2 DEF WaitingIn
<1>3. CASE s.fisk = "none" /\ ~s.active
  <2>1. PICK u : u = CheckForUpdate(s)
    OBVIOUS
  <2>2. t = Fork(u)
    BY <1>3, <2>1 DEF StartFisk
  <2>3. /\ s \in State /\ s.timer /\ Chains(s) \in 1..(1 + n)
        /\ Cardinality(Running(s)) <= MaxCrashes + 1
    <3>1. s \in State /\ s.timer /\ Chains(s) \in 1..(1 + n)
      BY <1>3 DEF Sound, Paced
    <3>2. Cardinality(Running(s)) <= Chains(s) /\ Cardinality(Running(s)) \in Nat
      BY <3>1, RunsCounted
    <3> QED
      BY <3>1, <3>2, SupervisorAssumption
  <2>4. /\ u \in State /\ u.active /\ ~u.timer
        /\ Chains(u) = Chains(s) + 1 - (IF s.timer THEN 1 ELSE 0)
        /\ u.fisk = s.fisk /\ u.procs = s.procs /\ u.killed = s.killed
        /\ u.restart = s.restart
    BY <2>1, <2>3, CheckBegins
  <2>5. PICK c \in Checks :
          /\ c \notin Running(s)
          /\ u.check[c] \in {"askOld", "askNew", "install"}
          /\ \A d \in Checks : d # c => u.check[d] = s.check[d]
    <3>1. \E c \in Checks :
              /\ c \notin Running(s)
              /\ u.check[c] \in {"askOld", "askNew", "install"}
              /\ u.check[c] = "askNew" => s.prod \in {"new", "half"}
              /\ \A d \in Checks : d # c => u.check[d] = s.check[d]
      BY <2>1, <2>3, CheckBegins
    <3> QED
      BY <3>1
  <2>6. Sound(u, n)
    BY <2>3, <2>4 DEF Sound, Alone, Paced
  <2>7. Sound(t, n) /\ t.check = u.check /\ t.killed = u.killed /\ t.restart = u.restart
    BY <1>3, <2>2, <2>4, <2>6, ForkStarts
  <2>8. WaitingIn(t) = WaitingIn(s) /\ \A d \in Running(s) : t.check[d] = s.check[d]
    BY <2>5, <2>7 DEF WaitingIn, Running, Killing
  <2> QED
    BY <1>3, <2>4, <2>7, <2>8
<1> QED
  BY <1>1, <1>2, <1>3, <1>1, <1>2, <1>3 DEF Sound, State

(* final(): the check is over and has become a timer. *)
LEMMA FinalEnds ==
  ASSUME NEW n \in 0..MaxCrashes, NEW s, Sound(s, n), NEW c \in Running(s),
         NEW t, t = Final(s, c)
  PROVE  /\ Sound(t, n) /\ t.killed = s.killed /\ t.restart = s.restart
         /\ \A d \in Running(s) : d # c => t.check[d] = s.check[d]
         /\ t.check[c] = "idle"
         /\ WaitingIn(t) = WaitingIn(s) \ {c}
<1>1. PICK u : u = StartFisk(s)
  OBVIOUS
<1>2. /\ Sound(u, n) /\ u.killed = s.killed /\ u.restart = s.restart
      /\ \A d \in Running(s) : u.check[d] = s.check[d]
      /\ WaitingIn(u) = WaitingIn(s)
  BY <1>1, StartFiskStarts
<1>3. t = [u EXCEPT !.check[c] = "idle", !.active = FALSE, !.timer = TRUE,
                    !.leaked = @ + (IF u.timer THEN 1 ELSE 0)]
  BY <1>1 DEF Final
<1>4. u \in State /\ c \in Checks /\ c \in Running(u)
  BY <1>2 DEF Sound, Running
<1>5. u.leaked \in Nat /\ u.removing \in Nat /\ u.recheck \in Nat
  BY <1>4 DEF State
<1>6. t \in State
  <2>1. [u.check EXCEPT ![c] = "idle"] \in [Checks -> Waits]
    BY <1>4 DEF State, Waits
  <2>2. u.leaked + (IF u.timer THEN 1 ELSE 0) \in Nat
    BY <1>5
  <2> QED
    BY <1>3, <1>4, <2>1, <2>2 DEF State
<1>7. /\ t.fisk = u.fisk /\ t.procs = u.procs /\ t.killed = u.killed
      /\ t.restart = u.restart
      /\ ~t.active /\ t.timer /\ t.removing = u.removing /\ t.recheck = u.recheck
      /\ t.leaked = u.leaked + (IF u.timer THEN 1 ELSE 0)
      /\ t.check = [u.check EXCEPT ![c] = "idle"]
  BY <1>3, <1>4 DEF State
<1>8. t.check[c] = "idle" /\ \A d \in Checks : d # c => t.check[d] = u.check[d]
  BY <1>4, <1>7 DEF State
<1>9. Cardinality(Running(t)) = Cardinality(Running(u)) - 1
  BY <1>4, <1>6, <1>8, OneLessRuns
<1>10. Chains(t) = Chains(u)
  BY <1>4, <1>5, <1>6, <1>7, <1>9, RunsCounted
<1>11. Sound(t, n)
  BY <1>2, <1>6, <1>7, <1>10 DEF Sound, Alone, Paced
<1>12. WaitingIn(t) = WaitingIn(s) \ {c}
  BY <1>2, <1>8 DEF WaitingIn, Killing
<1>13. \A d \in Running(s) : d # c => t.check[d] = s.check[d]
  BY <1>2, <1>8 DEF Running
<1> QED
  BY <1>2, <1>7, <1>8, <1>11, <1>12, <1>13

(* What follows killFisk(). *)
LEMMA KilledGoesOn ==
  ASSUME NEW n \in 0..MaxCrashes, NEW s, Sound(s, n), NEW c \in Running(s),
         NEW why, NEW t, t = Killed(s, c, why)
  PROVE  /\ Sound(t, n) /\ t.killed = s.killed /\ t.restart = s.restart
         /\ \A d \in Running(s) : d # c => t.check[d] = s.check[d]
         /\ WaitingIn(t) = WaitingIn(s) \ {c}
<1>1. CASE why = "killToUpdate"
  <2>1. t = [s EXCEPT !.check[c] = "remove"] /\ s \in State /\ c \in Checks
    BY <1>1 DEF Killed, Sound, Running
  <2>2. t \in State
    <3>1. [s.check EXCEPT ![c] = "remove"] \in [Checks -> Waits]
      BY <2>1 DEF State, Waits
    <3> QED
      BY <2>1, <3>1 DEF State
  <2>3. /\ t.fisk = s.fisk /\ t.procs = s.procs /\ t.killed = s.killed
        /\ t.restart = s.restart
        /\ t.active = s.active /\ t.timer = s.timer /\ t.leaked = s.leaked
        /\ t.removing = s.removing /\ t.recheck = s.recheck
        /\ t.check = [s.check EXCEPT ![c] = "remove"]
    BY <2>1 DEF State
  <2>4. t.check[c] = "remove" /\ \A d \in Checks : d # c => t.check[d] = s.check[d]
    BY <2>1, <2>3 DEF State
  <2>5. Chains(t) = Chains(s)
    <3>1. s \in State /\ t \in State /\ c \in Running(s) /\ t.check[c] # "idle"
      BY <2>1, <2>2, <2>4
    <3>2. \A d \in Checks : d # c => t.check[d] = s.check[d]
      BY <2>4
    <3>3. Running(t) = Running(s)
      BY <3>1, <3>2, AsManyRun
    <3> QED
      BY <2>3, <3>3 DEF Chains
  <2>6. Sound(t, n)
    BY <2>2, <2>3, <2>5 DEF Sound, Alone, Paced
  <2>7. WaitingIn(t) = WaitingIn(s) \ {c}
    BY <2>4 DEF WaitingIn, Killing
  <2> QED
    BY <2>3, <2>4, <2>6, <2>7 DEF Running
<1>2. CASE why # "killToUpdate"
  <2>1. t = Final(s, c)
    BY <1>2 DEF Killed
  <2> QED
    BY <2>1, FinalEnds
<1> QED
  BY <1>1, <1>2

(* killFisk(): killed is set with the run that waits. *)
LEMMA KillFiskWaits ==
  ASSUME NEW n \in 0..MaxCrashes, NEW s, Sound(s, n), NEW c \in Running(s),
         c \notin WaitingIn(s), s.killed <=> WaitingIn(s) # {},
         NEW why \in Killing, NEW t, t = KillFisk(s, c, why)
  PROVE  Sound(t, n) /\ (t.killed <=> WaitingIn(t) # {})
<1>1. CASE s.fisk = "none"
  <2>1. t = Killed(s, c, why)
    BY <1>1 DEF KillFisk
  <2>2. Sound(t, n) /\ t.killed = s.killed /\ WaitingIn(t) = WaitingIn(s) \ {c}
    BY <2>1, KilledGoesOn
  <2>3. WaitingIn(t) = WaitingIn(s)
    BY <2>2
  <2> QED
    BY <2>2, <2>3
<1>2. CASE s.fisk # "none"
  <2>1. t = [s EXCEPT !.killed = TRUE, !.check[c] = why] /\ s \in State /\ c \in Checks
    BY <1>2 DEF KillFisk, Sound, Running
  <2>2. t \in State
    <3>1. [s.check EXCEPT ![c] = why] \in [Checks -> Waits]
      BY <2>1 DEF State, Waits
    <3> QED
      BY <2>1, <3>1 DEF State
  <2>3. /\ t.fisk = s.fisk /\ t.procs = s.procs /\ t.killed
        /\ t.active = s.active /\ t.timer = s.timer /\ t.leaked = s.leaked
        /\ t.removing = s.removing /\ t.recheck = s.recheck
        /\ t.check = [s.check EXCEPT ![c] = why]
    BY <2>1 DEF State
  <2>4. t.check[c] = why /\ \A d \in Checks : d # c => t.check[d] = s.check[d]
    BY <2>1, <2>3 DEF State
  <2>5. Chains(t) = Chains(s)
    <3>1. t.check[c] # "idle"
      BY <2>4 DEF Killing
    <3>2. s \in State /\ t \in State
      BY <2>1, <2>2
    <3>3. Running(t) = Running(s)
      BY <2>4, <3>1, <3>2, AsManyRun
    <3> QED
      BY <2>3, <3>3 DEF Chains
  <2>6. Sound(t, n)
    BY <2>2, <2>3, <2>5 DEF Sound, Alone, Paced
  <2>7. c \in WaitingIn(t)
    BY <2>1, <2>4 DEF WaitingIn
  <2> QED
    BY <2>3, <2>6, <2>7
<1> QED
  BY <1>1, <1>2

-----------------------------------------------------------------------------
(***************************************************************************)
(* The fold of Resumed is over a set that the functions of the script stay *)
(* within, whatever their arguments; it counts any number of processes.    *)
(***************************************************************************)
Loose ==
  [fisk : {"none", "child", "failed"}, procs : Nat,
   young : BOOLEAN, wedged : BOOLEAN, killed : BOOLEAN, active : BOOLEAN,
   timer : BOOLEAN, leaked : Nat, restart : BOOLEAN, removing : Nat,
   recheck : Nat, check : [Checks -> Waits], prod : Trees, stage : Trees]

(* What follows killFisk() stays there, on any arguments. *)
LEMMA KilledStaysLoose ==
  ASSUME NEW s \in Loose, NEW c, NEW why PROVE Killed(s, c, why) \in Loose
<1>1. ASSUME NEW u \in Loose PROVE CheckForUpdate(u) \in Loose
  <2> DEFINE d == CHOOSE d \in Checks : u.check[d] = "idle"
             first == CASE u.prod = "old" -> "askOld"
                        [] u.prod \in {"new", "half"} -> "askNew"
                        [] OTHER -> "install"
  <2>1. first \in Waits
    BY DEF Waits, Asking
  <2>2. CheckForUpdate(u) =
          [u EXCEPT !.active = TRUE, !.timer = FALSE, !.check[d] = first,
                    !.prod = Mkdirp(@), !.stage = Mkdirp(@)]
    BY DEF CheckForUpdate
  <2> HIDE DEF d, first
  <2>3. [u.check EXCEPT ![d] = first] \in [Checks -> Waits]
    BY <2>1 DEF Loose
  <2>4. Mkdirp(u.prod) \in Trees /\ Mkdirp(u.stage) \in Trees
    BY DEF Mkdirp, Loose, Trees
  <2> QED
    BY <2>2, <2>3, <2>4 DEF Loose
<1>2. ASSUME NEW u \in Loose PROVE Fork(u) \in Loose
  <2>1. u.procs + 1 \in Nat
    BY DEF Loose
  <2> QED
    BY <2>1 DEF Fork, Loose
<1>3. StartFisk(s) \in Loose
  BY <1>1, <1>2 DEF StartFisk
<1>4. Final(s, c) \in Loose
  <2>1. PICK t \in Loose : t = StartFisk(s)
    BY <1>3
  <2>2. Final(s, c) =
          [t EXCEPT !.check[c] = "idle", !.active = FALSE, !.timer = TRUE,
                    !.leaked = @ + (IF t.timer THEN 1 ELSE 0)]
    BY <2>1 DEF Final
  <2>3. [t.check EXCEPT ![c] = "idle"] \in [Checks -> Waits]
    BY DEF Loose, Waits
  <2>4. t.leaked + (IF t.timer THEN 1 ELSE 0) \in Nat
    BY DEF Loose
  <2> QED
    BY <2>2, <2>3, <2>4 DEF Loose
<1>5. [s EXCEPT !.check[c] = "remove"] \in Loose
  <2>1. [s.check EXCEPT ![c] = "remove"] \in [Checks -> Waits]
    BY DEF Loose, Waits
  <2> QED
    BY <2>1 DEF Loose
<1> QED
  BY <1>4, <1>5 DEF Killed

(* The exit lets every run go on that waited for it. *)
LEMMA ResumedGoOn ==
  ASSUME SupTypeOK, NEW n \in 0..MaxCrashes,
         NEW s, Sound(s, n), s.check = sup.check, ~s.killed,
         NEW t, t = Resumed(s)
  PROVE  /\ Sound(t, n) /\ ~t.killed /\ WaitingIn(t) = {}
         /\ \A c \in Checks : Waiting = {c} => t = Killed(s, c, sup.check[c])
<1> DEFINE g == [p \in Loose \X Waiting |-> Killed(p[1], p[2], sup.check[p[2]])]
           pick == [w \in SUBSET Waiting |-> CHOOSE c \in w : TRUE]
           Is(f) == f = [w \in SUBSET Waiting |->
                           IF w = {} THEN s
                           ELSE LET c == CHOOSE c \in w : TRUE
                                IN Killed(f[w \ {c}], c, sup.check[c])]
           f == CHOOSE f : Is(f)
<1>1. t = f[Waiting]
  BY DEF Resumed
<1>2. IsFiniteSet(Waiting) /\ Waiting \subseteq Checks
  BY SupervisorAssumption, FS_Subset DEF Waiting
<1>3. s \in Loose
  <2>1. s \in State
    BY DEF Sound
  <2>2. s \in [fisk : {"none", "child", "failed"}, procs : 0..2,
               young : BOOLEAN, wedged : BOOLEAN, killed : BOOLEAN,
               active : BOOLEAN, timer : BOOLEAN, leaked : Nat,
               restart : BOOLEAN, removing : Nat, recheck : Nat,
               check : [Checks -> Waits], prod : Trees, stage : Trees]
    BY <2>1 DEF State
  <2> QED
    BY <2>2 DEF Loose
<1>4. g \in [Loose \X Waiting -> Loose]
  BY KilledStaysLoose
<1>5. \A w \in SUBSET Waiting : w # {} =>
        pick[w] \in w /\ pick[w] = CHOOSE c \in w : TRUE
  OBVIOUS
<1> HIDE DEF g, pick
<1>6. PICK E \in [SUBSET Waiting -> Loose] : IsFold(E, Waiting, s, g, pick)
  BY <1>2, <1>3, <1>4, <1>5, FoldExists
<1>7. ASSUME NEW w \in SUBSET Waiting
      PROVE  E[w] = IF w = {} THEN s
                    ELSE LET c == CHOOSE c \in w : TRUE
                         IN Killed(E[w \ {c}], c, sup.check[c])
  <2>1. CASE w = {}
    BY <1>6, <2>1 DEF IsFold
  <2>2. CASE w # {}
    <3>1. pick[w] \in Waiting /\ w \ {pick[w]} \in SUBSET Waiting
      BY <1>5, <2>2
    <3>2. E[w \ {pick[w]}] \in Loose
      BY <1>6, <3>1
    <3>3. g[<<E[w \ {pick[w]}], pick[w]>>]
            = Killed(E[w \ {pick[w]}], pick[w], sup.check[pick[w]])
      BY <3>1, <3>2 DEF g
    <3>4. E[w] = Killed(E[w \ {pick[w]}], pick[w], sup.check[pick[w]])
      BY <1>6, <2>2, <3>3 DEF IsFold
    <3> QED
      BY <1>5, <2>2, <3>4
  <2> QED
    BY <2>1, <2>2
<1>8. Is(f)
  <2>1. Is(E)
    BY <1>6, <1>7
  <2> HIDE DEF Is
  <2> QED
    BY <2>1
<1> HIDE DEF f
<1>9. f[{}] = s
  <2>1. {} \in SUBSET Waiting
    OBVIOUS
  <2> QED
    BY <1>8, <2>1
<1>10. \A w \in SUBSET Waiting : w # {} =>
         f[w] = Killed(f[w \ {pick[w]}], pick[w], sup.check[pick[w]])
  BY <1>5, <1>8
<1> HIDE DEF Is
<1> DEFINE Good(w, u) ==
             /\ Sound(u, n) /\ ~u.killed
             /\ WaitingIn(u) = Waiting \ w
           T == {w \in SUBSET Waiting : Good(w, f[w])}
<1>11. {} \in T
  <2>1. WaitingIn(s) = Waiting
    BY DEF WaitingIn, Waiting
  <2> QED
    BY <1>9, <2>1
<1>12. ASSUME NEW w \in SUBSET Waiting, w # {}
       PROVE  pick[w] \in w /\ (w \ {pick[w]} \in T => w \in T)
  <2>1. pick[w] \in w
    BY <1>5, <1>12
  <2>2. ASSUME w \ {pick[w]} \in T PROVE w \in T
    <3>1. PICK c \in w : c = pick[w]
      BY <2>1
    <3>2. PICK u : u = f[w \ {c}]
      OBVIOUS
    <3>3. Good(w \ {c}, u)
      BY <2>2, <3>1, <3>2
    <3>4. c \in WaitingIn(u)
      BY <3>3
    <3>5. c \in Running(u)
      BY <3>4 DEF WaitingIn, Running, Killing
    <3>6. PICK v : v = Killed(u, c, sup.check[c])
      OBVIOUS
    <3>7. Sound(v, n) /\ v.killed = u.killed /\ WaitingIn(v) = WaitingIn(u) \ {c}
      BY <3>3, <3>5, <3>6, KilledGoesOn
    <3>8. f[w] = v
      BY <1>10, <1>12, <3>1, <3>2, <3>6
    <3>9. Good(w, v)
      BY <3>3, <3>7
    <3> HIDE DEF Good
    <3> QED
      BY <3>8, <3>9
  <2> QED
    BY <2>1, <2>2
<1>13. Good(Waiting, t)
  <2>1. \A w \in SUBSET Waiting : w \in T
    <3> HIDE DEF T
    <3> QED
      <4>1. Climbs(T, Waiting, pick)
        BY <1>12 DEF Climbs
      <4> QED
        BY <1>2, <1>11, <4>1, SetSteps
  <2> QED
    BY <1>1, <2>1
<1>14. ASSUME NEW c \in Checks, Waiting = {c}
       PROVE  t = Killed(s, c, sup.check[c])
  <2>1. pick[Waiting] = c /\ Waiting \ {c} = {}
    BY <1>5, <1>14
  <2> QED
    BY <1>1, <1>9, <1>10, <1>14, <2>1
<1> QED
  BY <1>13, <1>14

(* A step that lets every check run or wait as before changes no chain. *)
LEMMA SoundStays ==
  ASSUME NEW n, NEW s, Sound(s, n), NEW t \in State,
         t.fisk = s.fisk, t.procs = s.procs, t.active = s.active,
         t.timer = s.timer, t.leaked = s.leaked, t.removing = s.removing,
         t.recheck = s.recheck,
         \A c \in Checks : t.check[c] = "idle" <=> s.check[c] = "idle"
  PROVE  Sound(t, n) /\ Running(t) = Running(s)
<1>1. Running(t) = Running(s)
  BY DEF Running
<1>2. Chains(t) = Chains(s)
  BY <1>1 DEF Chains
<1> QED
  BY <1>1, <1>2 DEF Sound, Alone, Paced

WithTrees(s, p, q) == [s EXCEPT !.prod = p, !.stage = q]
GoesOn(s, c, w, p) == [s EXCEPT !.check[c] = w, !.prod = p]

(* The directories may change, ... *)
LEMMA TreesChange ==
  ASSUME NEW n, NEW s, Sound(s, n), NEW p \in Trees, NEW q \in Trees,
         NEW t, t = WithTrees(s, p, q)
  PROVE  /\ Sound(t, n) /\ Running(t) = Running(s)
         /\ t.check = s.check /\ t.killed = s.killed /\ t.fisk = s.fisk
         /\ t.prod = p /\ t.stage = q /\ t.restart = s.restart
<1>1. s \in State
  BY DEF Sound
<1>2. t \in State
  BY <1>1 DEF State, WithTrees
<1>3. /\ t.fisk = s.fisk /\ t.procs = s.procs /\ t.active = s.active
      /\ t.timer = s.timer /\ t.leaked = s.leaked /\ t.removing = s.removing
      /\ t.recheck = s.recheck /\ t.check = s.check /\ t.killed = s.killed
      /\ t.prod = p /\ t.stage = q /\ t.restart = s.restart
  BY <1>1 DEF State, WithTrees
<1>4. Sound(t, n) /\ Running(t) = Running(s)
  BY <1>2, <1>3, SoundStays
<1> QED
  BY <1>3, <1>4

(* ... and a check that waits for something else than the exit go on. *)
LEMMA CheckGoesOn ==
  ASSUME NEW n, NEW s, Sound(s, n), NEW c \in Running(s), c \notin WaitingIn(s),
         NEW w \in Waits \ (Killing \cup {"idle"}), NEW p \in Trees,
         NEW t, t = GoesOn(s, c, w, p)
  PROVE  /\ Sound(t, n) /\ WaitingIn(t) = WaitingIn(s) /\ t.killed = s.killed
         /\ t.check[c] = w /\ \A d \in Checks : d # c => t.check[d] = s.check[d]
         /\ t.prod = p /\ t.stage = s.stage /\ t.fisk = s.fisk
         /\ t.leaked = s.leaked /\ t.removing = s.removing
         /\ t.recheck = s.recheck /\ t.restart = s.restart
<1>1. s \in State /\ c \in Checks /\ s.check[c] # "idle"
  BY DEF Sound, Running
<1>2. t \in State
  <2>1. [s.check EXCEPT ![c] = w] \in [Checks -> Waits]
    BY <1>1 DEF State
  <2> QED
    BY <1>1, <2>1 DEF State, GoesOn
<1>3. /\ t.fisk = s.fisk /\ t.procs = s.procs /\ t.active = s.active
      /\ t.timer = s.timer /\ t.leaked = s.leaked /\ t.removing = s.removing
      /\ t.recheck = s.recheck /\ t.killed = s.killed /\ t.restart = s.restart
      /\ t.check = [s.check EXCEPT ![c] = w] /\ t.prod = p /\ t.stage = s.stage
  BY <1>1 DEF State, GoesOn
<1>4. t.check[c] = w /\ \A d \in Checks : d # c => t.check[d] = s.check[d]
  BY <1>1, <1>3 DEF State
<1>5. Sound(t, n)
  <2>1. Running(t) = Running(s)
    BY <1>1, <1>4 DEF Running
  <2>2. Chains(t) = Chains(s)
    BY <1>3, <2>1 DEF Chains
  <2> QED
    BY <1>2, <1>3, <2>2 DEF Sound, Alone, Paced
<1>6. WaitingIn(t) = WaitingIn(s)
  BY <1>4 DEF WaitingIn
<1> QED
  BY <1>3, <1>4, <1>5, <1>6

-----------------------------------------------------------------------------
(***************************************************************************)
(* The invariant: one scheduler, the chains counted, no timer while a      *)
(* check is active, and killed set while a check waits for the exit.       *)
(***************************************************************************)
SupInv ==
  /\ SupTypeOK /\ Sound(sup, crashes)
  /\ sup.killed <=> WaitingIn(sup) # {}
SupKept(t, n) == Sound(t, n) /\ (t.killed <=> WaitingIn(t) # {})

(* It holds of the first check. *)
LEMMA SupInitially == SupInit => SupInv
<1> SUFFICES ASSUME SupInit PROVE SupInv
  OBVIOUS
<1>1. PICK prod \in {"none", "old", "new"}, stage \in {"none", "half", "old"} :
        sup = CheckForUpdate([Blank EXCEPT !.prod = prod, !.stage = stage])
  BY DEF SupInit
<1>2. PICK s : s = [Blank EXCEPT !.prod = prod, !.stage = stage]
  OBVIOUS
<1>3. s = [fisk |-> "none", procs |-> 0, young |-> FALSE, wedged |-> FALSE,
           killed |-> FALSE, active |-> FALSE, timer |-> FALSE, leaked |-> 0,
           restart |-> FALSE, removing |-> 0, recheck |-> 0,
           check |-> [c \in Checks |-> "idle"], prod |-> prod, stage |-> stage]
  BY <1>2 DEF Blank
<1>4. s \in State
  <2>1. [c \in Checks |-> "idle"] \in [Checks -> Waits]
    BY DEF Waits
  <2>2. 0 \in 0..2 /\ 0 \in Nat
    OBVIOUS
  <2> QED
    BY <1>3, <2>1, <2>2 DEF State, Trees
<1>5. Running(s) = {} /\ Cardinality(Running(s)) = 0 /\ Chains(s) = 0
  <2>1. Running(s) = {}
    BY <1>3 DEF Running
  <2>2. Cardinality(Running(s)) = 0
    BY <2>1, FS_EmptySet
  <2>3. ~s.timer /\ s.leaked = 0 /\ s.removing = 0 /\ s.recheck = 0
    BY <1>3
  <2>4. Chains(s) = Cardinality(Running(s)) + (IF s.timer THEN 1 ELSE 0)
                      + s.leaked + s.removing + s.recheck
    BY <1>4, RunsCounted
  <2>5. (IF s.timer THEN 1 ELSE 0) = 0
    BY <2>3
  <2>6. Chains(s) = 0
    BY <2>2, <2>3, <2>4, <2>5
  <2> QED
    BY <2>1, <2>2, <2>6
<1>6. Cardinality(Running(s)) <= MaxCrashes + 1
  BY <1>5, SupervisorAssumption
<1>7. sup = CheckForUpdate(s)
  BY <1>1, <1>2
<1>8. /\ sup \in State /\ sup.active /\ ~sup.timer
      /\ Chains(sup) = Chains(s) + 1 - (IF s.timer THEN 1 ELSE 0)
      /\ sup.fisk = s.fisk /\ sup.procs = s.procs /\ sup.killed = s.killed
      /\ \E c \in Checks :
           /\ sup.check[c] \in {"askOld", "askNew", "install"}
           /\ \A d \in Checks : d # c => sup.check[d] = s.check[d]
  <2>1. /\ sup \in State /\ sup.active /\ ~sup.timer
        /\ Chains(sup) = Chains(s) + 1 - (IF s.timer THEN 1 ELSE 0)
        /\ sup.fisk = s.fisk /\ sup.procs = s.procs /\ sup.killed = s.killed
        /\ \E c \in Checks :
             /\ c \notin Running(s)
             /\ sup.check[c] \in {"askOld", "askNew", "install"}
             /\ sup.check[c] = "askNew" => s.prod \in {"new", "half"}
             /\ \A d \in Checks : d # c => sup.check[d] = s.check[d]
    BY <1>4, <1>6, <1>7, CheckBegins
  <2> QED
    BY <2>1
<1>9. Chains(sup) = 1 /\ sup.fisk = "none" /\ sup.procs = 0 /\ ~sup.killed
  BY <1>3, <1>5, <1>8
<1>10. WaitingIn(sup) = {}
  BY <1>3, <1>8 DEF WaitingIn, Killing
<1>11. crashes = 0 /\ failures = 0 /\ publishes = 0
  BY DEF SupInit
<1>12. Sound(sup, crashes)
  BY <1>8, <1>9, <1>11 DEF Sound, Alone, Paced
<1>13. SupTypeOK
  <2>1. crashes \in 0..MaxCrashes /\ failures \in 0..MaxFailures
        /\ publishes \in 0..MaxPublishes
    BY <1>11, SupervisorAssumption
  <2> QED
    BY <1>8, <2>1 DEF SupTypeOK
<1> QED
  BY <1>9, <1>10, <1>12, <1>13 DEF SupInv

(* A check that does not wait for the exit, and its state. *)
LEMMA RunsNotWaiting ==
  ASSUME NEW c \in Checks, sup.check[c] \notin Killing \cup {"idle"}
  PROVE  c \in Running(sup) /\ c \notin WaitingIn(sup)
BY DEF Running, WaitingIn

(* The end of a check keeps killed and those who wait. *)
LEMMA FinalKeeps ==
  ASSUME NEW n \in 0..MaxCrashes, NEW s, SupKept(s, n), NEW c \in Running(s),
         c \notin WaitingIn(s), NEW t, t = Final(s, c)
  PROVE  SupKept(t, n)
<1>1. Sound(t, n) /\ t.killed = s.killed /\ WaitingIn(t) = WaitingIn(s) \ {c}
  BY FinalEnds DEF SupKept
<1>2. WaitingIn(t) = WaitingIn(s)
  BY <1>1
<1> QED
  BY <1>1, <1>2 DEF SupKept

(* So does another content of the directories. *)
LEMMA TreesKeep ==
  ASSUME NEW n, NEW s, SupKept(s, n), NEW p \in Trees, NEW q \in Trees,
         NEW t, t = WithTrees(s, p, q)
  PROVE  /\ SupKept(t, n) /\ Running(t) = Running(s)
         /\ WaitingIn(t) = WaitingIn(s)
<1>1. Sound(t, n) /\ Running(t) = Running(s) /\ t.check = s.check /\ t.killed = s.killed
  BY TreesChange DEF SupKept
<1> QED
  BY <1>1 DEF SupKept, WaitingIn

(* Every step of a check keeps it, *)
LEMMA CheckStepKeeps ==
  ASSUME SupInv, NEW c \in Checks, CheckStep(c)
  PROVE  SupKept(sup', crashes') /\ crashes' = crashes
<1>1. /\ sup \in State /\ crashes \in 0..MaxCrashes /\ SupKept(sup, crashes)
      /\ sup.prod \in Trees /\ sup.stage \in Trees
  BY DEF SupInv, SupTypeOK, SupKept, State
<1>2. PICK t : t = sup'
  OBVIOUS
<1>3. crashes' = crashes
  BY DEF CheckStep, NpmAnswers, Installed, InstallFails, Connects, Removes, Moves,
         Quiet
<1>4. Sound(sup, crashes) /\ (sup.killed <=> WaitingIn(sup) # {})
  BY <1>1 DEF SupKept
<1>5. CASE NpmAnswers(c)
  <2>1. c \in Running(sup) /\ c \notin WaitingIn(sup)
    BY <1>5, RunsNotWaiting DEF NpmAnswers, Asking, Killing
  <2>2. \/ t = [sup EXCEPT !.check[c] = "install"]
        \/ t = KillFisk(sup, c, "killToUpdate")
        \/ t = [sup EXCEPT !.check[c] = "connect"]
        \/ t = Final(sup, c)
    BY <1>2, <1>5 DEF NpmAnswers
  <2>3. CASE t = KillFisk(sup, c, "killToUpdate")
    BY <1>1, <1>2, <1>3, <1>4, <2>1, <2>3, KillFiskWaits DEF SupKept, Killing
  <2>4. CASE t = Final(sup, c)
    BY <1>1, <1>2, <1>3, <2>1, <2>4, FinalKeeps
  <2>5. ASSUME NEW w \in {"install", "connect"}, t = [sup EXCEPT !.check[c] = w]
        PROVE  SupKept(t, crashes)
    <3>1. t = GoesOn(sup, c, w, sup.prod)
      BY <1>1, <2>5 DEF State, GoesOn
    <3>2. w \in Waits \ (Killing \cup {"idle"})
      BY DEF Waits, Killing
    <3>3. Sound(t, crashes) /\ WaitingIn(t) = WaitingIn(sup) /\ t.killed = sup.killed
      BY <1>1, <1>4, <2>1, <3>1, <3>2, CheckGoesOn
    <3> QED
      BY <1>4, <3>3 DEF SupKept
  <2> QED
    BY <1>2, <1>3, <2>2, <2>3, <2>4, <2>5
<1>6. CASE Installed(c)
  <2>1. c \in Running(sup) /\ c \notin WaitingIn(sup)
    BY <1>6, RunsNotWaiting DEF Installed, Killing
  <2>2. PICK s : s = [sup EXCEPT !.stage = "new"]
    OBVIOUS
  <2>3. s = WithTrees(sup, sup.prod, "new") /\ "new" \in Trees
    BY <1>1, <2>2 DEF State, Trees, WithTrees
  <2>4. SupKept(s, crashes) /\ Running(s) = Running(sup) /\ WaitingIn(s) = WaitingIn(sup)
    BY <1>1, <2>3, TreesKeep
  <2>5. t = KillFisk(s, c, "killToUpdate")
    BY <1>2, <1>6, <2>2 DEF Installed
  <2>6. SupKept(t, crashes)
    BY <1>1, <2>1, <2>4, <2>5, KillFiskWaits DEF SupKept, Killing
  <2> QED
    BY <1>2, <1>3, <2>6
<1>7. CASE InstallFails(c)
  <2>1. c \in Running(sup) /\ c \notin WaitingIn(sup)
    BY <1>7, RunsNotWaiting DEF InstallFails, Killing
  <2>2. PICK q \in Trees : t = Final([sup EXCEPT !.stage = q], c)
    <3>1. CASE sup' = Final(sup, c)
      <4>1. sup = [sup EXCEPT !.stage = sup.stage]
        BY <1>1 DEF State
      <4> QED
        BY <1>1, <1>2, <3>1, <4>1
    <3>2. ASSUME NEW left \in {sup.stage, "half"},
                 sup' = Final([sup EXCEPT !.stage = left], c)
          PROVE  \E q \in Trees : t = Final([sup EXCEPT !.stage = q], c)
      <4>1. left \in Trees
        BY <1>1 DEF Trees
      <4> QED
        BY <1>2, <3>2, <4>1
    <3> QED
      BY <1>7, <3>1, <3>2 DEF InstallFails
  <2>3. PICK s : s = [sup EXCEPT !.stage = q]
    OBVIOUS
  <2>4. s = WithTrees(sup, sup.prod, q)
    BY <1>1, <2>3 DEF State, WithTrees
  <2>5. SupKept(s, crashes) /\ Running(s) = Running(sup) /\ WaitingIn(s) = WaitingIn(sup)
    BY <1>1, <2>4, TreesKeep
  <2>6. SupKept(t, crashes)
    BY <1>1, <2>1, <2>2, <2>3, <2>5, FinalKeeps
  <2> QED
    BY <1>2, <1>3, <2>6
<1>8. CASE Connects(c)
  <2>1. c \in Running(sup) /\ c \notin WaitingIn(sup)
    BY <1>8, RunsNotWaiting DEF Connects, Killing
  <2>2. t = Final(sup, c) \/ t = KillFisk(sup, c, "killToRestart")
    BY <1>2, <1>8 DEF Connects
  <2>3. CASE t = Final(sup, c)
    BY <1>1, <1>2, <1>3, <2>1, <2>3, FinalKeeps
  <2>4. CASE t = KillFisk(sup, c, "killToRestart")
    BY <1>1, <1>2, <1>3, <1>4, <2>1, <2>4, KillFiskWaits DEF SupKept, Killing
  <2> QED
    BY <2>2, <2>3, <2>4
<1>9. CASE Removes(c)
  <2>1. c \in Running(sup) /\ c \notin WaitingIn(sup)
    BY <1>9, RunsNotWaiting DEF Removes, Killing
  <2>2. t = GoesOn(sup, c, "move", "none")
    BY <1>2, <1>9 DEF Removes, GoesOn
  <2>3. "move" \in Waits \ (Killing \cup {"idle"}) /\ "none" \in Trees
    BY DEF Waits, Killing, Trees
  <2>4. Sound(t, crashes) /\ WaitingIn(t) = WaitingIn(sup) /\ t.killed = sup.killed
    BY <1>1, <1>4, <2>1, <2>2, <2>3, CheckGoesOn
  <2> QED
    BY <1>2, <1>3, <1>4, <2>4 DEF SupKept
<1>10. CASE Moves(c)
  <2>1. c \in Running(sup) /\ c \notin WaitingIn(sup)
    BY <1>10, RunsNotWaiting DEF Moves, Killing
  <2>2. PICK p \in Trees : p = IF sup.prod = "none" THEN sup.stage ELSE sup.prod
    BY <1>1
  <2>3. PICK s : s = WithTrees(sup, p, "none")
    OBVIOUS
  <2>4. t = Final(s, c)
    <3>1. s = [sup EXCEPT !.stage = "none",
                          !.prod = IF @ = "none" THEN sup.stage ELSE @]
      BY <1>1, <2>2, <2>3 DEF State, WithTrees
    <3> QED
      BY <1>2, <1>10, <3>1 DEF Moves
  <2>5. SupKept(s, crashes) /\ Running(s) = Running(sup) /\ WaitingIn(s) = WaitingIn(sup)
    <3>1. "none" \in Trees
      BY DEF Trees
    <3> QED
      BY <1>1, <2>3, <3>1, TreesKeep
  <2>6. SupKept(t, crashes)
    BY <1>1, <2>1, <2>4, <2>5, FinalKeeps
  <2> QED
    BY <1>2, <1>3, <2>6
<1> QED
  BY <1>5, <1>6, <1>7, <1>8, <1>9, <1>10 DEF CheckStep

(* A check that begins, by a timer or a signal, keeps it, *)
LEMMA CheckForUpdateKeeps ==
  ASSUME NEW n \in 0..MaxCrashes, NEW s \in State, Alone(s),
         s.killed <=> WaitingIn(s) # {},
         Cardinality(Running(s)) <= n + 1,
         Chains(s) + 1 - (IF s.timer THEN 1 ELSE 0) \in 1..(1 + n),
         NEW t, t = CheckForUpdate(s)
  PROVE  SupKept(t, n)
<1>1. Cardinality(Running(s)) <= MaxCrashes + 1
  BY RunsCounted, SupervisorAssumption
<1>2. /\ t \in State /\ t.active /\ ~t.timer
      /\ Chains(t) = Chains(s) + 1 - (IF s.timer THEN 1 ELSE 0)
      /\ t.fisk = s.fisk /\ t.procs = s.procs /\ t.killed = s.killed
      /\ \E c \in Checks :
           /\ c \notin Running(s)
           /\ t.check[c] \in {"askOld", "askNew", "install"}
           /\ t.check[c] = "askNew" => s.prod \in {"new", "half"}
           /\ \A d \in Checks : d # c => t.check[d] = s.check[d]
  BY <1>1, CheckBegins
<1>3. WaitingIn(t) = WaitingIn(s)
  BY <1>2 DEF WaitingIn, Running, Killing
<1>4. Sound(t, n)
  BY <1>2 DEF Sound, Alone, Paced
<1> QED
  BY <1>2, <1>3, <1>4 DEF SupKept

(* and so does every event. *)
LEMMA EventKeeps ==
  ASSUME SupInv,
         \/ ExitsAsked \/ Crashes \/ TenSecondsPass \/ Wedges
         \/ RestartTimer \/ InstallRemoved \/ RecheckTimer \/ CheckTimer
         \/ SigHup \/ Publish
  PROVE  SupKept(sup', crashes')
<1>1. /\ sup \in State /\ crashes \in 0..MaxCrashes /\ Sound(sup, crashes)
      /\ (sup.killed <=> WaitingIn(sup) # {}) /\ SupKept(sup, crashes)
      /\ Alone(sup) /\ Paced(sup) /\ Chains(sup) \in 1..(1 + crashes)
      /\ WaitingIn(sup) = Waiting
  BY DEF SupInv, SupTypeOK, SupKept, Sound, WaitingIn, Waiting
<1>2. PICK t : t = sup'
  OBVIOUS
<1>3. /\ sup.leaked \in Nat /\ sup.removing \in Nat /\ sup.recheck \in Nat
      /\ Cardinality(Running(sup)) \in Nat
      /\ Chains(sup) = Cardinality(Running(sup)) + (IF sup.timer THEN 1 ELSE 0)
                         + sup.leaked + sup.removing + sup.recheck
  BY <1>1, RunsCounted DEF State
<1>4. CASE ExitsAsked
  <2>1. PICK s : s = [sup EXCEPT !.fisk = "none", !.procs = 0,
                                 !.killed = FALSE, !.wedged = FALSE]
    OBVIOUS
  <2>2. t = Resumed(s) /\ crashes' = crashes
    <3>1. sup.procs - 1 = 0
      BY <1>1, <1>4 DEF ExitsAsked, Alone
    <3> QED
      BY <1>1, <1>2, <1>4, <2>1, <3>1 DEF ExitsAsked, Quiet, State
  <2>3. s \in State
    <3>1. 0 \in 0..2
      OBVIOUS
    <3> QED
      BY <1>1, <2>1, <3>1 DEF State
  <2>4. /\ s.fisk = "none" /\ s.procs = 0 /\ s.active = sup.active
        /\ s.timer = sup.timer /\ s.leaked = sup.leaked
        /\ s.removing = sup.removing /\ s.recheck = sup.recheck
        /\ s.check = sup.check /\ ~s.killed
    BY <1>1, <2>1 DEF State
  <2>5. Chains(s) = Chains(sup)
    BY <2>4 DEF Chains, Running
  <2>6. Sound(s, crashes)
    BY <1>1, <2>3, <2>4, <2>5 DEF Sound, Alone, Paced
  <2>7. SupTypeOK
    BY DEF SupInv
  <2>8. Sound(t, crashes) /\ ~t.killed /\ WaitingIn(t) = {}
    BY <1>1, <2>2, <2>4, <2>6, <2>7, ResumedGoOn
  <2> QED
    BY <1>2, <2>2, <2>8 DEF SupKept
<1>5. CASE Crashes
  <2>1. /\ crashes' = crashes + 1 /\ sup.procs - 1 = 0 /\ ~sup.killed
    BY <1>1, <1>5 DEF Crashes, Alone
  <2>2. \/ t = [sup EXCEPT !.fisk = "none", !.procs = 0, !.wedged = FALSE,
                           !.removing = @ + 1]
        \/ t = [sup EXCEPT !.fisk = "none", !.procs = 0, !.wedged = FALSE,
                           !.restart = TRUE]
    <3>1. PICK gone : gone = [sup EXCEPT !.fisk = "none", !.procs = @ - 1,
                                         !.wedged = FALSE]
      OBVIOUS
    <3>2. gone = [sup EXCEPT !.fisk = "none", !.procs = 0, !.wedged = FALSE]
      BY <2>1, <3>1
    <3>3. \/ t = [gone EXCEPT !.removing = @ + 1]
          \/ t = [gone EXCEPT !.restart = TRUE]
      BY <1>2, <1>5, <3>1 DEF Crashes
    <3>4. gone.removing = sup.removing
      BY <1>1, <3>2 DEF State
    <3>5. CASE t = [gone EXCEPT !.removing = @ + 1]
      <4>1. t = [gone EXCEPT !.removing = sup.removing + 1]
        BY <3>4, <3>5
      <4> QED
        BY <1>1, <3>2, <4>1 DEF State
    <3>6. CASE t = [gone EXCEPT !.restart = TRUE]
      BY <1>1, <3>2, <3>6 DEF State
    <3> QED
      BY <3>3, <3>5, <3>6
  <2>3. t \in State
    <3>1. sup.removing + 1 \in Nat /\ 0 \in 0..2 /\ "none" \in {"none", "child", "failed"}
      BY <1>3
    <3>2. CASE t = [sup EXCEPT !.fisk = "none", !.procs = 0, !.wedged = FALSE,
                               !.removing = @ + 1]
      BY <1>1, <3>1, <3>2 DEF State
    <3>3. CASE t = [sup EXCEPT !.fisk = "none", !.procs = 0, !.wedged = FALSE,
                               !.restart = TRUE]
      BY <1>1, <3>1, <3>3 DEF State
    <3> QED
      BY <2>2, <3>2, <3>3
  <2>4. /\ t.fisk = "none" /\ t.procs = 0 /\ t.active = sup.active
        /\ t.timer = sup.timer /\ t.leaked = sup.leaked
        /\ t.removing \in {sup.removing, sup.removing + 1}
        /\ t.recheck = sup.recheck /\ t.check = sup.check /\ t.killed = sup.killed
    <3>1. CASE t = [sup EXCEPT !.fisk = "none", !.procs = 0, !.wedged = FALSE,
                               !.removing = @ + 1]
      BY <1>1, <3>1 DEF State
    <3>2. CASE t = [sup EXCEPT !.fisk = "none", !.procs = 0, !.wedged = FALSE,
                               !.restart = TRUE]
      BY <1>1, <3>2 DEF State
    <3> QED
      BY <2>2, <3>1, <3>2
  <2>5. Running(t) = Running(sup) /\ WaitingIn(t) = WaitingIn(sup)
    BY <2>4 DEF Running, WaitingIn
  <2>6. Chains(t) \in {Chains(sup), Chains(sup) + 1}
    BY <1>3, <2>3, <2>4, <2>5, RunsCounted
  <2>7. Chains(t) \in 1..(1 + (crashes + 1))
    BY <1>1, <2>6
  <2>8. Sound(t, crashes + 1)
    BY <1>1, <2>3, <2>4, <2>7 DEF Sound, Alone, Paced
  <2> QED
    BY <1>1, <1>2, <2>1, <2>4, <2>5, <2>8 DEF SupKept
<1>6. CASE TenSecondsPass \/ Wedges
  <2>1. /\ crashes' = crashes
        /\ \/ t = [sup EXCEPT !.young = FALSE]
           \/ t = [sup EXCEPT !.wedged = TRUE]
    <3>1. CASE TenSecondsPass
      BY <1>2, <3>1 DEF TenSecondsPass, Quiet
    <3>2. CASE Wedges
      BY <1>2, <3>2 DEF Wedges, Quiet
    <3> QED
      BY <1>6, <3>1, <3>2
  <2>2. t \in State
    BY <1>1, <2>1 DEF State
  <2>3. /\ t.fisk = sup.fisk /\ t.procs = sup.procs /\ t.active = sup.active
        /\ t.timer = sup.timer /\ t.leaked = sup.leaked
        /\ t.removing = sup.removing /\ t.recheck = sup.recheck
        /\ t.check = sup.check /\ t.killed = sup.killed
    BY <1>1, <2>1 DEF State
  <2>4. Sound(t, crashes)
    BY <1>1, <2>2, <2>3, SoundStays
  <2> QED
    BY <1>1, <1>2, <2>1, <2>3, <2>4 DEF SupKept, WaitingIn
<1>7. CASE RestartTimer
  <2>1. PICK s : s = [sup EXCEPT !.restart = FALSE]
    OBVIOUS
  <2>2. t = StartFisk(s) /\ crashes' = crashes
    BY <1>2, <1>7, <2>1 DEF RestartTimer, Quiet
  <2>3. s \in State
    BY <1>1, <2>1 DEF State
  <2>4. /\ s.fisk = sup.fisk /\ s.procs = sup.procs /\ s.active = sup.active
        /\ s.timer = sup.timer /\ s.leaked = sup.leaked
        /\ s.removing = sup.removing /\ s.recheck = sup.recheck
        /\ s.check = sup.check /\ s.killed = sup.killed
    BY <1>1, <2>1 DEF State
  <2>5. Sound(s, crashes) /\ WaitingIn(s) = WaitingIn(sup)
    BY <1>1, <2>3, <2>4, SoundStays DEF WaitingIn
  <2>6. Sound(t, crashes) /\ t.killed = s.killed /\ WaitingIn(t) = WaitingIn(s)
    BY <1>1, <2>2, <2>5, StartFiskStarts
  <2> QED
    BY <1>1, <1>2, <2>2, <2>4, <2>5, <2>6 DEF SupKept
<1>8. CASE InstallRemoved
  <2>1. /\ t = [sup EXCEPT !.removing = @ - 1, !.recheck = @ + 1, !.prod = "none"]
        /\ sup.removing > 0 /\ crashes' = crashes
    BY <1>2, <1>8 DEF InstallRemoved, Quiet
  <2>2. t \in State
    <3>1. sup.removing - 1 \in Nat /\ sup.recheck + 1 \in Nat
      BY <1>3, <2>1
    <3> QED
      BY <1>1, <2>1, <3>1 DEF State, Trees
  <2>3. /\ t.fisk = sup.fisk /\ t.procs = sup.procs /\ t.active = sup.active
        /\ t.timer = sup.timer /\ t.leaked = sup.leaked
        /\ t.removing = sup.removing - 1 /\ t.recheck = sup.recheck + 1
        /\ t.check = sup.check /\ t.killed = sup.killed
    BY <1>1, <2>1 DEF State
  <2>4. Running(t) = Running(sup) /\ WaitingIn(t) = WaitingIn(sup)
    BY <2>3 DEF Running, WaitingIn
  <2>5. Chains(t) = Chains(sup)
    BY <1>3, <2>2, <2>3, <2>4, RunsCounted
  <2>6. Sound(t, crashes)
    BY <1>1, <2>2, <2>3, <2>5 DEF Sound, Alone, Paced
  <2> QED
    BY <1>1, <1>2, <2>1, <2>3, <2>4, <2>6 DEF SupKept
<1>9. CASE RecheckTimer
  <2>1. PICK s : s = [sup EXCEPT !.recheck = @ - 1]
    OBVIOUS
  <2>2. t = CheckForUpdate(s) /\ sup.recheck > 0 /\ crashes' = crashes
    BY <1>2, <1>9, <2>1 DEF RecheckTimer, Quiet
  <2>3. s \in State
    <3>1. sup.recheck - 1 \in Nat
      BY <1>3, <2>2
    <3> QED
      BY <1>1, <2>1, <3>1 DEF State
  <2>4. /\ s.fisk = sup.fisk /\ s.procs = sup.procs /\ s.timer = sup.timer
        /\ s.leaked = sup.leaked /\ s.removing = sup.removing
        /\ s.recheck = sup.recheck - 1
        /\ s.check = sup.check /\ s.killed = sup.killed
    BY <1>1, <2>1 DEF State
  <2>5. Running(s) = Running(sup) /\ WaitingIn(s) = WaitingIn(sup)
    BY <2>4 DEF Running, WaitingIn
  <2>6. Chains(s) = Chains(sup) - 1
    BY <1>3, <2>3, <2>4, <2>5, RunsCounted
  <2>7. /\ Chains(s) + 1 - (IF s.timer THEN 1 ELSE 0) \in 1..(1 + crashes)
        /\ Cardinality(Running(s)) <= crashes + 1
    BY <1>1, <1>3, <2>2, <2>4, <2>5, <2>6
  <2>8. Alone(s) /\ (s.killed <=> WaitingIn(s) # {})
    BY <1>1, <2>4, <2>5 DEF Alone
  <2>9. SupKept(t, crashes)
    BY <1>1, <2>2, <2>3, <2>7, <2>8, CheckForUpdateKeeps
  <2> QED
    BY <1>2, <2>2, <2>9
<1>10. CASE CheckTimer \/ SigHup
  <2>1. crashes' = crashes
    BY <1>10 DEF CheckTimer, SigHup, Quiet
  <2>2. CASE sup.timer /\ t = CheckForUpdate(sup)
    <3>1. /\ Chains(sup) + 1 - (IF sup.timer THEN 1 ELSE 0) \in 1..(1 + crashes)
          /\ Cardinality(Running(sup)) <= crashes + 1
      BY <1>1, <1>3, <2>2
    <3>2. SupKept(t, crashes)
      BY <1>1, <2>2, <3>1, CheckForUpdateKeeps
    <3> QED
      BY <1>2, <2>1, <3>2
  <2>3. CASE sup.leaked > 0 /\ t = CheckForUpdate([sup EXCEPT !.leaked = @ - 1])
    <3>1. PICK s : s = [sup EXCEPT !.leaked = @ - 1]
      OBVIOUS
    <3>2. s \in State
      <4>1. sup.leaked - 1 \in Nat
        BY <1>3, <2>3
      <4> QED
        BY <1>1, <3>1, <4>1 DEF State
    <3>3. /\ s.fisk = sup.fisk /\ s.procs = sup.procs /\ s.timer = sup.timer
          /\ s.leaked = sup.leaked - 1 /\ s.removing = sup.removing
          /\ s.recheck = sup.recheck
          /\ s.check = sup.check /\ s.killed = sup.killed
      BY <1>1, <3>1 DEF State
    <3>4. Running(s) = Running(sup) /\ WaitingIn(s) = WaitingIn(sup)
      BY <3>3 DEF Running, WaitingIn
    <3>5. Chains(s) = Chains(sup) - 1
      BY <1>3, <3>2, <3>3, <3>4, RunsCounted
    <3>6. /\ Chains(s) + 1 - (IF s.timer THEN 1 ELSE 0) \in 1..(1 + crashes)
          /\ Cardinality(Running(s)) <= crashes + 1
      BY <1>1, <1>3, <2>3, <3>3, <3>4, <3>5
    <3>7. Alone(s) /\ (s.killed <=> WaitingIn(s) # {})
      BY <1>1, <3>3, <3>4 DEF Alone
    <3>8. SupKept(t, crashes)
      BY <1>1, <2>3, <3>1, <3>2, <3>6, <3>7, CheckForUpdateKeeps
    <3> QED
      BY <1>2, <2>1, <3>8
  <2> QED
    BY <1>1, <1>2, <1>10, <2>2, <2>3 DEF CheckTimer, SigHup, Paced
<1>11. CASE Publish
  <2> DEFINE aged(x) == IF x = "new" THEN "old" ELSE x
             moved == [c \in Checks |->
                         IF sup.check[c] = "askNew" /\ sup.prod # "half"
                         THEN "askOld" ELSE sup.check[c]]
  <2>1. /\ t = [sup EXCEPT !.prod = aged(sup.prod), !.stage = aged(sup.stage),
                           !.check = moved]
        /\ crashes' = crashes
    BY <1>1, <1>2, <1>11 DEF Publish, State
  <2>2. t \in State
    <3>1. aged(sup.prod) \in Trees /\ aged(sup.stage) \in Trees
      BY <1>1 DEF State, Trees
    <3>2. moved \in [Checks -> Waits]
      BY <1>1 DEF State, Waits, Asking
    <3> HIDE DEF moved, aged
    <3> QED
      BY <1>1, <2>1, <3>1, <3>2 DEF State
  <2>3. /\ t.fisk = sup.fisk /\ t.procs = sup.procs /\ t.active = sup.active
        /\ t.timer = sup.timer /\ t.leaked = sup.leaked
        /\ t.removing = sup.removing /\ t.recheck = sup.recheck
        /\ t.check = moved /\ t.killed = sup.killed
    <3> HIDE DEF moved, aged
    <3> QED
      BY <1>1, <2>1 DEF State
  <2>4. Running(t) = Running(sup) /\ WaitingIn(t) = WaitingIn(sup)
    BY <2>3 DEF Running, WaitingIn, Killing
  <2>5. Chains(t) = Chains(sup)
    BY <2>3, <2>4 DEF Chains
  <2>6. Sound(t, crashes)
    BY <1>1, <2>2, <2>3, <2>5 DEF Sound, Alone, Paced
  <2> QED
    BY <1>1, <1>2, <2>1, <2>3, <2>4, <2>6 DEF SupKept
<1> QED
  BY <1>4, <1>5, <1>6, <1>7, <1>8, <1>9, <1>10, <1>11

(* The invariant is inductive. *)
LEMMA SupStep == SupInv /\ [SupNext]_supVars => SupInv'
<1> SUFFICES ASSUME SupInv, [SupNext]_supVars PROVE SupInv'
  OBVIOUS
<1>1. /\ crashes \in 0..MaxCrashes /\ failures \in 0..MaxFailures
      /\ publishes \in 0..MaxPublishes
      /\ MaxCrashes \in Nat /\ MaxFailures \in Nat /\ MaxPublishes \in Nat
  BY SupervisorAssumption DEF SupInv, SupTypeOK
<1>2. CASE UNCHANGED supVars
  BY <1>2 DEF supVars, SupInv, SupTypeOK, Sound, Alone, Paced, Chains, Running,
              WaitingIn
<1>3. CASE SupNext
  <2>1. SupKept(sup', crashes')
    <3>1. \A c \in Checks : CheckStep(c) => SupKept(sup', crashes')
      BY CheckStepKeeps
    <3> QED
      BY <1>3, <3>1, EventKeeps DEF SupNext
  <2>2. /\ crashes' \in 0..MaxCrashes /\ failures' \in 0..MaxFailures
        /\ publishes' \in 0..MaxPublishes
    <3>1. /\ crashes' = crashes \/ (crashes < MaxCrashes /\ crashes' = crashes + 1)
          /\ failures' = failures \/ (failures < MaxFailures /\ failures' = failures + 1)
          /\ publishes' = publishes
               \/ (publishes < MaxPublishes /\ publishes' = publishes + 1)
      BY <1>3 DEF SupNext, CheckStep, NpmAnswers, Installed, InstallFails, Connects,
           Removes, Moves, ExitsAsked, Crashes, TenSecondsPass, Wedges, RestartTimer,
           InstallRemoved, RecheckTimer, CheckTimer, SigHup, Publish, Quiet
    <3> QED
      BY <1>1, <3>1
  <2>3. SupTypeOK'
    BY <2>1, <2>2 DEF SupTypeOK, SupKept, Sound
  <2> QED
    BY <2>1, <2>3 DEF SupInv, SupKept, WaitingIn
<1> QED
  BY <1>2, <1>3

(* The script never leaves its invariant, whatever overlaps. *)
THEOREM SupervisorInvariant == SupSpec => []SupInv
BY SupInitially, SupStep, PTL DEF SupSpec

(***************************************************************************)
(* Two schedulers never run, nor is the one that runs forgotten; each      *)
(* crash adds one chain of checks at most, and the last chain never ends;  *)
(* killed is set while a check waits for the exit, and only then.          *)
(***************************************************************************)
THEOREM OneSchedulerRuns == SupSpec => []OneScheduler
<1>1. SupInv => OneScheduler
  BY DEF SupInv, OneScheduler, Sound, Alone, WaitingIn, Waiting
<1> QED
  BY <1>1, SupervisorInvariant, PTL

(***************************************************************************)
(* Before the first crash there is one chain, and no timer but the one of  *)
(* checkForUpdate().  A child runs from a whole install then, and nothing  *)
(* is removed or moved while there is one.  Before the first install that  *)
(* failed, too, what is about to be moved or forked from is whole.         *)
(***************************************************************************)
Calm(s) ==
  /\ s.leaked = 0 /\ s.removing = 0 /\ s.recheck = 0 /\ ~s.restart
  /\ s.fisk = "child" => s.prod \in Whole
  /\ \A c \in Checks :
       /\ s.check[c] \in {"remove", "move"} => s.fisk = "none"
       /\ s.check[c] \in Killing => s.fisk # "none"
Fresh(s) ==
  /\ s.fisk # "failed" /\ s.prod # "half"
  /\ \A c \in Checks :
       /\ s.check[c] # "idle" => s.stage # "none"
       /\ s.check[c] \in {"killToUpdate", "remove", "move"} => s.stage \in Whole
       /\ s.check[c] \in {"askNew", "connect", "killToRestart"}
            => s.prod \in Whole
       /\ s.check[c] = "move" => s.prod = "none"
CalmInv ==
  /\ SupInv
  /\ crashes = 0 => Calm(sup) /\ (failures = 0 => Fresh(sup))

(* The end of the only check. *)
LEMMA CalmFinal ==
  ASSUME NEW s, Sound(s, 0), NEW c \in Running(s), ~s.restart,
         s.fisk = "child" => s.prod \in Whole,
         NEW t, t = Final(s, c)
  PROVE  /\ Calm(t)
         /\ s.fisk # "failed" /\ s.prod # "half"
              /\ (s.fisk = "none" => s.prod \in Whole) => Fresh(t)
<1>1. s \in State /\ Chains(s) = 1 /\ Paced(s) /\ c \in Checks
  BY DEF Sound, Running
<1>2. /\ Running(s) = {c} /\ ~s.timer
      /\ s.leaked = 0 /\ s.removing = 0 /\ s.recheck = 0
  BY <1>1, OnlyOneRuns
<1>3. s.active
  BY <1>1, <1>2 DEF Paced
<1>4. PICK u : u = StartFisk(s)
  OBVIOUS
<1>5. /\ u \in State /\ u.check = s.check /\ u.leaked = 0 /\ u.removing = 0
      /\ u.recheck = 0 /\ ~u.restart /\ ~u.timer /\ u.prod = s.prod
      /\ u.fisk = "child" => u.prod \in Whole
      /\ s.fisk # "failed" /\ (s.fisk = "none" => s.prod \in Whole)
           => u.fisk # "failed"
  <2>1. CASE s.fisk # "none"
    BY <1>1, <1>2, <1>4, <2>1 DEF StartFisk
  <2>2. CASE s.fisk = "none"
    <3>1. u = Fork(s)
      BY <1>3, <1>4, <2>2 DEF StartFisk
    <3>2. 0 \in 0..MaxCrashes
      BY SupervisorAssumption
    <3>3. /\ Sound(u, 0) /\ u.check = s.check
          /\ u.active = s.active /\ u.timer = s.timer /\ u.leaked = s.leaked
          /\ u.restart = s.restart
          /\ u.removing = s.removing /\ u.recheck = s.recheck
          /\ u.prod = s.prod
          /\ u.fisk = IF s.prod \in Whole THEN "child" ELSE "failed"
      BY <2>2, <3>1, <3>2, ForkStarts
    <3> QED
      BY <1>2, <2>2, <3>3 DEF Sound
  <2> QED
    BY <2>1, <2>2
<1>6. t = [u EXCEPT !.check[c] = "idle", !.active = FALSE, !.timer = TRUE,
                    !.leaked = @ + (IF u.timer THEN 1 ELSE 0)]
  BY <1>4 DEF Final
<1>7. /\ t.check = [s.check EXCEPT ![c] = "idle"] /\ t.leaked = 0
      /\ t.removing = 0 /\ t.recheck = 0 /\ ~t.restart
      /\ t.prod = s.prod /\ t.fisk = u.fisk
  BY <1>5, <1>6 DEF State
<1>8. \A d \in Checks : t.check[d] = "idle"
  BY <1>1, <1>2, <1>7 DEF State, Running
<1>9. Calm(t)
  BY <1>5, <1>7, <1>8 DEF Calm, Killing
<1>10. s.fisk # "failed" /\ s.prod # "half"
         /\ (s.fisk = "none" => s.prod \in Whole) => Fresh(t)
  BY <1>5, <1>7, <1>8 DEF Fresh
<1> QED
  BY <1>9, <1>10

(* killFisk() by the only check. *)
LEMMA CalmKill ==
  ASSUME NEW s, Sound(s, 0), NEW c \in Running(s), ~s.restart,
         s.fisk = "child" => s.prod \in Whole,
         NEW why \in Killing, NEW t, t = KillFisk(s, c, why)
  PROVE  /\ Calm(t)
         /\ s.fisk # "failed" /\ s.prod # "half" /\ s.stage # "none"
              /\ (why = "killToUpdate" => s.stage \in Whole)
              /\ (why = "killToRestart" => s.prod \in Whole) => Fresh(t)
<1>1. s \in State /\ Chains(s) = 1 /\ c \in Checks
  BY DEF Sound, Running
<1>2. /\ Running(s) = {c}
      /\ s.leaked = 0 /\ s.removing = 0 /\ s.recheck = 0
  BY <1>1, OnlyOneRuns
<1>3. ASSUME NEW w \in Waits,
             t.check = [s.check EXCEPT ![c] = w]
      PROVE  t.check[c] = w /\ \A d \in Checks : d # c => t.check[d] = "idle"
  BY <1>1, <1>2, <1>3 DEF State, Running
<1>4. CASE s.fisk = "none" /\ why = "killToUpdate"
  <2>1. t = [s EXCEPT !.check[c] = "remove"]
    BY <1>4 DEF KillFisk, Killed
  <2>2. /\ t.check = [s.check EXCEPT ![c] = "remove"] /\ t.leaked = 0
        /\ t.removing = 0 /\ t.recheck = 0 /\ ~t.restart
        /\ t.prod = s.prod /\ t.stage = s.stage /\ t.fisk = s.fisk
    BY <1>1, <1>2, <2>1 DEF State
  <2>3. t.check[c] = "remove" /\ \A d \in Checks : d # c => t.check[d] = "idle"
    BY <1>3, <2>2 DEF Waits
  <2>4. Calm(t)
    BY <1>4, <2>2, <2>3 DEF Calm, Killing
  <2>5. s.fisk # "failed" /\ s.prod # "half" /\ s.stage # "none"
          /\ s.stage \in Whole => Fresh(t)
    BY <1>4, <2>2, <2>3 DEF Fresh
  <2> QED
    BY <1>4, <2>4, <2>5
<1>5. CASE s.fisk = "none" /\ why = "killToRestart"
  <2>1. t = Final(s, c)
    BY <1>5 DEF KillFisk, Killed
  <2> QED
    BY <1>5, <2>1, CalmFinal
<1>6. CASE s.fisk # "none"
  <2>1. t = [s EXCEPT !.killed = TRUE, !.check[c] = why]
    BY <1>6 DEF KillFisk
  <2>2. /\ t.check = [s.check EXCEPT ![c] = why] /\ t.leaked = 0
        /\ t.removing = 0 /\ t.recheck = 0 /\ ~t.restart
        /\ t.prod = s.prod /\ t.stage = s.stage /\ t.fisk = s.fisk
    BY <1>1, <1>2, <2>1 DEF State
  <2>3. t.check[c] = why /\ \A d \in Checks : d # c => t.check[d] = "idle"
    BY <1>3, <2>2 DEF Waits
  <2>4. Calm(t)
    BY <1>6, <2>2, <2>3 DEF Calm, Killing
  <2>5. s.fisk # "failed" /\ s.prod # "half" /\ s.stage # "none"
              /\ (why = "killToUpdate" => s.stage \in Whole)
              /\ (why = "killToRestart" => s.prod \in Whole) => Fresh(t)
    BY <1>6, <2>2, <2>3 DEF Fresh, Killing
  <2> QED
    BY <2>4, <2>5
<1> QED
  BY <1>4, <1>5, <1>6 DEF Killing

(* A check begins when none goes on. *)
LEMMA CalmBegins ==
  ASSUME NEW s \in State, Running(s) = {}, s.leaked = 0, s.removing = 0,
         s.recheck = 0, ~s.restart, s.fisk = "child" => s.prod \in Whole,
         NEW t, t = CheckForUpdate(s)
  PROVE  Calm(t) /\ (s.fisk # "failed" /\ s.prod # "half" => Fresh(t))
<1>1. Cardinality(Running(s)) <= MaxCrashes + 1
  BY FS_EmptySet, SupervisorAssumption
<1>2. /\ t.fisk = s.fisk /\ t.restart = s.restart /\ t.leaked = s.leaked
      /\ t.removing = s.removing /\ t.recheck = s.recheck
      /\ t.prod = Mkdirp(s.prod) /\ t.stage = Mkdirp(s.stage)
      /\ \E c \in Checks :
           /\ c \notin Running(s)
           /\ t.check[c] \in {"askOld", "askNew", "install"}
           /\ t.check[c] = "askNew" => s.prod \in {"new", "half"}
           /\ \A d \in Checks : d # c => t.check[d] = s.check[d]
  BY <1>1, CheckBegins
<1>3. \A c \in Checks : /\ t.check[c] \in {"askOld", "askNew", "install", "idle"}
                        /\ t.check[c] = "askNew" => s.prod \in {"new", "half"}
  BY <1>2 DEF Running
<1>4. Calm(t)
  BY <1>2, <1>3 DEF Calm, Killing, Mkdirp, Whole
<1>5. ASSUME s.fisk # "failed", s.prod # "half" PROVE Fresh(t)
  <2>1. t.stage # "none"
    BY <1>2 DEF Mkdirp
  <2>2. t.prod # "half"
    BY <1>2, <1>5 DEF Mkdirp
  <2>3. \A c \in Checks : t.check[c] = "askNew" => t.prod \in Whole
    BY <1>2, <1>3, <1>5 DEF Mkdirp, Whole
  <2> QED
    BY <1>2, <1>3, <1>5, <2>1, <2>2, <2>3 DEF Fresh
<1> QED
  BY <1>4, <1>5

(* The first check is calm, whatever the last run left, ... *)
LEMMA CalmInitially == SupInit => CalmInv
<1> SUFFICES ASSUME SupInit PROVE CalmInv
  OBVIOUS
<1>1. SupInv
  BY SupInitially
<1>2. PICK prod \in {"none", "old", "new"}, stage \in {"none", "half", "old"} :
        sup = CheckForUpdate([Blank EXCEPT !.prod = prod, !.stage = stage])
  BY DEF SupInit
<1>3. PICK s : s = [Blank EXCEPT !.prod = prod, !.stage = stage]
  OBVIOUS
<1>4. s = [fisk |-> "none", procs |-> 0, young |-> FALSE, wedged |-> FALSE,
           killed |-> FALSE, active |-> FALSE, timer |-> FALSE, leaked |-> 0,
           restart |-> FALSE, removing |-> 0, recheck |-> 0,
           check |-> [c \in Checks |-> "idle"], prod |-> prod, stage |-> stage]
  BY <1>3 DEF Blank
<1>5. s \in State
  <2>1. [c \in Checks |-> "idle"] \in [Checks -> Waits]
    BY DEF Waits
  <2>2. 0 \in 0..2 /\ 0 \in Nat
    OBVIOUS
  <2> QED
    BY <1>4, <2>1, <2>2 DEF State, Trees
<1>6. /\ Running(s) = {} /\ s.leaked = 0 /\ s.removing = 0 /\ s.recheck = 0
      /\ ~s.restart /\ s.fisk = "none" /\ s.prod # "half"
  BY <1>4 DEF Running
<1>7. sup = CheckForUpdate(s)
  BY <1>2, <1>3
<1>8. Calm(sup) /\ Fresh(sup)
  BY <1>5, <1>6, <1>7, CalmBegins
<1> QED
  BY <1>1, <1>8 DEF CalmInv

(* ... the steps of a check are, ... *)
LEMMA CalmCheckStep ==
  ASSUME CalmInv, crashes = 0, NEW c \in Checks, CheckStep(c)
  PROVE  Calm(sup') /\ (failures' = 0 => Fresh(sup'))
<1>1. /\ sup \in State /\ Sound(sup, 0) /\ Chains(sup) = 1 /\ Calm(sup)
      /\ failures = 0 => Fresh(sup)
      /\ sup.prod \in Trees /\ sup.stage \in Trees
  BY DEF CalmInv, SupInv, Sound, State
<1>2. PICK t, f : t = sup' /\ f = failures'
  OBVIOUS
<1>3. sup.check[c] \notin Killing /\ sup.check[c] # "idle"
  BY DEF CheckStep, NpmAnswers, Installed, InstallFails, Connects, Removes, Moves,
         Asking, Killing
<1>4. c \in Running(sup) /\ c \notin WaitingIn(sup)
  BY <1>3, RunsNotWaiting
<1>t. ASSUME NEW p \in Trees, NEW q \in Trees, NEW s, s = WithTrees(sup, p, q)
      PROVE  /\ Sound(s, 0) /\ Running(s) = Running(sup) /\ s.fisk = sup.fisk
             /\ s.prod = p /\ s.stage = q /\ s.restart = sup.restart
  <2>1. Sound(sup, 0)
    BY <1>1
  <2> QED
    BY <1>t, <2>1, TreesChange
<1>5. \A d \in Checks : d # c => sup.check[d] = "idle"
  <2>1. Running(sup) = {c}
    BY <1>1, <1>4, OnlyOneRuns
  <2> QED
    BY <2>1 DEF Running
<1>6. /\ sup.leaked = 0 /\ sup.removing = 0 /\ sup.recheck = 0 /\ ~sup.restart
      /\ sup.fisk = "child" => sup.prod \in Whole
  BY <1>1 DEF Calm
<1>7. CASE NpmAnswers(c)
  <2>1. f = failures
    BY <1>2, <1>7 DEF NpmAnswers, Quiet
  <2>2. CASE t = [sup EXCEPT !.check[c] = "install"]
    <3>1. t = GoesOn(sup, c, "install", sup.prod)
      BY <1>1, <2>2 DEF State, GoesOn
    <3>2. "install" \in Waits \ (Killing \cup {"idle"})
      BY DEF Waits, Killing
    <3>3. /\ t.check[c] = "install"
          /\ \A d \in Checks : d # c => t.check[d] = sup.check[d]
          /\ t.prod = sup.prod /\ t.stage = sup.stage /\ t.fisk = sup.fisk
          /\ t.leaked = sup.leaked /\ t.removing = sup.removing
          /\ t.recheck = sup.recheck /\ t.restart = sup.restart
      BY <1>1, <1>4, <3>1, <3>2, CheckGoesOn
    <3>4. Calm(t)
      BY <1>5, <1>6, <3>3 DEF Calm, Killing
    <3>5. Fresh(sup) => Fresh(t)
      BY <1>3, <1>5, <3>3 DEF Fresh
    <3> QED
      BY <1>1, <1>2, <2>1, <3>4, <3>5
  <2>3. CASE /\ sup.check[c] = "askNew" /\ sup.prod \notin Whole
             /\ t = KillFisk(sup, c, "killToUpdate")
    <3>1. Calm(t)
      BY <1>1, <1>4, <1>6, <2>3, CalmKill DEF Killing
    <3>2. ~Fresh(sup)
      BY <2>3 DEF Fresh
    <3> QED
      BY <1>1, <1>2, <2>1, <3>1, <3>2
  <2>4. CASE /\ sup.check[c] = "askNew" /\ sup.prod \in Whole /\ sup.fisk # "none"
             /\ t = [sup EXCEPT !.check[c] = "connect"]
    <3>1. t = GoesOn(sup, c, "connect", sup.prod)
      BY <1>1, <2>4 DEF State, GoesOn
    <3>2. "connect" \in Waits \ (Killing \cup {"idle"})
      BY DEF Waits, Killing
    <3>3. /\ t.check[c] = "connect"
          /\ \A d \in Checks : d # c => t.check[d] = sup.check[d]
          /\ t.prod = sup.prod /\ t.stage = sup.stage /\ t.fisk = sup.fisk
          /\ t.leaked = sup.leaked /\ t.removing = sup.removing
          /\ t.recheck = sup.recheck /\ t.restart = sup.restart
      BY <1>1, <1>4, <3>1, <3>2, CheckGoesOn
    <3>4. Calm(t)
      BY <1>5, <1>6, <3>3 DEF Calm, Killing
    <3>5. Fresh(sup) => Fresh(t)
      BY <1>3, <1>5, <2>4, <3>3 DEF Fresh
    <3> QED
      BY <1>1, <1>2, <2>1, <3>4, <3>5
  <2>5. CASE /\ sup.check[c] = "askNew" /\ sup.prod \in Whole
             /\ t = Final(sup, c)
    <3>1. Calm(t) /\ (sup.fisk # "failed" /\ sup.prod # "half" => Fresh(t))
      BY <1>1, <1>4, <1>6, <2>5, CalmFinal
    <3>2. Fresh(sup) => Fresh(t)
      BY <3>1 DEF Fresh
    <3> QED
      BY <1>1, <1>2, <2>1, <3>1, <3>2
  <2> QED
    BY <1>2, <1>7, <2>2, <2>3, <2>4, <2>5 DEF NpmAnswers
<1>8. CASE Installed(c)
  <2>1. PICK s : s = [sup EXCEPT !.stage = "new"]
    OBVIOUS
  <2>2. s = WithTrees(sup, sup.prod, "new") /\ "new" \in Trees
    BY <1>1, <2>1 DEF State, Trees, WithTrees
  <2>3. /\ Sound(s, 0) /\ Running(s) = Running(sup) /\ s.fisk = sup.fisk
        /\ s.prod = sup.prod /\ s.stage = "new" /\ s.restart = sup.restart
    BY <1>1, <1>t, <2>2
  <2>4. t = KillFisk(s, c, "killToUpdate") /\ f = failures
    BY <1>2, <1>8, <2>1 DEF Installed, Quiet
  <2>5. /\ Calm(t)
        /\ s.fisk # "failed" /\ s.prod # "half" /\ s.stage # "none"
             /\ s.stage \in Whole => Fresh(t)
    BY <1>4, <1>6, <2>3, <2>4, CalmKill DEF Killing
  <2>6. Fresh(sup) => Fresh(t)
    BY <2>3, <2>5 DEF Fresh, Whole
  <2> QED
    BY <1>1, <1>2, <2>4, <2>5, <2>6
<1>9. CASE InstallFails(c)
  <2>1. CASE sup.stage = "none" /\ t = Final(sup, c) /\ f = failures
    <3>1. Calm(t)
      BY <1>1, <1>4, <1>6, <2>1, CalmFinal
    <3>2. ~Fresh(sup)
      BY <1>3, <2>1 DEF Fresh
    <3> QED
      BY <1>1, <1>2, <2>1, <3>1, <3>2
  <2>2. ASSUME f = failures + 1, NEW left \in {sup.stage, "half"},
               t = Final([sup EXCEPT !.stage = left], c)
        PROVE  Calm(sup') /\ (failures' = 0 => Fresh(sup'))
    <3>1. PICK s : s = [sup EXCEPT !.stage = left]
      OBVIOUS
    <3>2. s = WithTrees(sup, sup.prod, left) /\ left \in Trees
      BY <1>1, <3>1 DEF State, Trees, WithTrees
    <3>3. /\ Sound(s, 0) /\ Running(s) = Running(sup) /\ s.fisk = sup.fisk
          /\ s.prod = sup.prod /\ s.restart = sup.restart
      BY <1>1, <1>t, <3>2
    <3>4. t = Final(s, c)
      BY <2>2, <3>1
    <3>5. Calm(t)
      BY <1>4, <1>6, <3>3, <3>4, CalmFinal
    <3>6. f # 0
      <4>1. failures \in Nat
        BY DEF CalmInv, SupInv, SupTypeOK
      <4> QED
        BY <2>2, <4>1
    <3> QED
      BY <1>2, <3>5, <3>6
  <2> QED
    BY <1>2, <1>9, <2>1, <2>2 DEF InstallFails
<1>10. CASE Connects(c)
  <2>1. f = failures /\ sup.check[c] = "connect"
    BY <1>2, <1>10 DEF Connects, Quiet
  <2>2. CASE t = Final(sup, c)
    <3>1. Calm(t) /\ (sup.fisk # "failed" /\ sup.prod # "half"
                        /\ (sup.fisk = "none" => sup.prod \in Whole) => Fresh(t))
      BY <1>1, <1>4, <1>6, <2>2, CalmFinal
    <3>2. Fresh(sup) => Fresh(t)
      BY <2>1, <3>1 DEF Fresh
    <3> QED
      BY <1>1, <1>2, <2>1, <3>1, <3>2
  <2>3. CASE t = KillFisk(sup, c, "killToRestart")
    <3>1. /\ Calm(t)
          /\ sup.fisk # "failed" /\ sup.prod # "half" /\ sup.stage # "none"
               /\ sup.prod \in Whole => Fresh(t)
      BY <1>1, <1>4, <1>6, <2>3, CalmKill DEF Killing
    <3>2. Fresh(sup) => Fresh(t)
      BY <2>1, <3>1 DEF Fresh
    <3> QED
      BY <1>1, <1>2, <2>1, <3>1, <3>2
  <2> QED
    BY <1>2, <1>10, <2>2, <2>3 DEF Connects
<1>11. CASE Removes(c)
  <2>1. t = GoesOn(sup, c, "move", "none") /\ f = failures /\ sup.check[c] = "remove"
    BY <1>2, <1>11 DEF Removes, GoesOn, Quiet
  <2>2. "move" \in Waits \ (Killing \cup {"idle"}) /\ "none" \in Trees
    BY DEF Waits, Killing, Trees
  <2>3. /\ t.check[c] = "move"
        /\ \A d \in Checks : d # c => t.check[d] = sup.check[d]
        /\ t.prod = "none" /\ t.stage = sup.stage /\ t.fisk = sup.fisk
        /\ t.leaked = sup.leaked /\ t.removing = sup.removing
        /\ t.recheck = sup.recheck /\ t.restart = sup.restart
    BY <1>1, <1>4, <2>1, <2>2, CheckGoesOn
  <2>4. sup.fisk = "none"
    BY <1>1, <2>1 DEF Calm
  <2>5. Calm(t)
    BY <1>5, <1>6, <2>3, <2>4 DEF Calm, Killing
  <2>6. Fresh(sup) => Fresh(t)
    BY <1>5, <2>1, <2>3 DEF Fresh
  <2> QED
    BY <1>1, <1>2, <2>1, <2>5, <2>6
<1>12. CASE Moves(c)
  <2>1. PICK p \in Trees : p = IF sup.prod = "none" THEN sup.stage ELSE sup.prod
    BY <1>1
  <2>2. PICK s : s = WithTrees(sup, p, "none")
    OBVIOUS
  <2>3. t = Final(s, c) /\ f = failures /\ sup.check[c] = "move"
    <3>1. s = [sup EXCEPT !.stage = "none",
                          !.prod = IF @ = "none" THEN sup.stage ELSE @]
      BY <1>1, <2>1, <2>2 DEF State, WithTrees
    <3> QED
      BY <1>2, <1>12, <3>1 DEF Moves, Quiet
  <2>4. /\ Sound(s, 0) /\ Running(s) = Running(sup) /\ s.fisk = sup.fisk
        /\ s.prod = p /\ s.restart = sup.restart
    <3>1. "none" \in Trees
      BY DEF Trees
    <3> QED
      BY <1>t, <2>2, <3>1
  <2>5. sup.fisk = "none"
    BY <1>1, <2>3 DEF Calm
  <2>6. Calm(t) /\ (s.fisk # "failed" /\ s.prod # "half"
                      /\ (s.fisk = "none" => s.prod \in Whole) => Fresh(t))
    BY <1>4, <1>6, <2>3, <2>4, <2>5, CalmFinal
  <2>7. Fresh(sup) => Fresh(t)
    <3> SUFFICES ASSUME Fresh(sup) PROVE Fresh(t)
      OBVIOUS
    <3>1. p = sup.stage /\ sup.stage \in Whole
      BY <2>1, <2>3 DEF Fresh
    <3>2. p # "half"
      BY <3>1 DEF Whole
    <3> QED
      BY <2>4, <2>5, <2>6, <3>1, <3>2
  <2> QED
    BY <1>1, <1>2, <2>3, <2>6, <2>7
<1> QED
  BY <1>7, <1>8, <1>9, <1>10, <1>11, <1>12 DEF CheckStep

(* ... and the events that are not crashes. *)
LEMMA CalmEvent ==
  ASSUME CalmInv, crashes = 0, crashes' = 0,
         \/ ExitsAsked \/ Crashes \/ TenSecondsPass \/ Wedges
         \/ RestartTimer \/ InstallRemoved \/ RecheckTimer \/ CheckTimer
         \/ SigHup \/ Publish
  PROVE  Calm(sup') /\ (failures' = 0 => Fresh(sup'))
<1>1. /\ sup \in State /\ Sound(sup, 0) /\ Chains(sup) = 1 /\ Calm(sup)
      /\ failures = 0 => Fresh(sup)
      /\ sup.prod \in Trees /\ sup.stage \in Trees
      /\ SupTypeOK /\ (sup.killed <=> WaitingIn(sup) # {}) /\ Paced(sup)
      /\ WaitingIn(sup) = Waiting
  BY DEF CalmInv, SupInv, Sound, State, WaitingIn, Waiting
<1>2. PICK t : t = sup'
  OBVIOUS
<1>3. /\ sup.leaked = 0 /\ sup.removing = 0 /\ sup.recheck = 0 /\ ~sup.restart
      /\ sup.fisk = "child" => sup.prod \in Whole
  BY <1>1 DEF Calm
<1>4. ~Crashes /\ ~RestartTimer /\ ~InstallRemoved /\ ~RecheckTimer
  BY <1>3 DEF Crashes, RestartTimer, InstallRemoved, RecheckTimer
<1>5. failures' = failures
  BY <1>4 DEF ExitsAsked, TenSecondsPass, Wedges, CheckTimer, SigHup, Publish, Quiet
<1>6. CASE ExitsAsked
  <2>1. PICK c \in Waiting : TRUE
    BY <1>1, <1>6 DEF ExitsAsked
  <2>2. c \in Running(sup) /\ c \in Checks /\ sup.check[c] \in Killing
    BY DEF Waiting, Running, Killing
  <2>3. Running(sup) = {c} /\ ~sup.timer
    BY <1>1, <2>2, OnlyOneRuns
  <2>4. Waiting = {c}
    BY <2>3 DEF Waiting, Running, Killing
  <2>5. PICK s : s = [sup EXCEPT !.fisk = "none", !.procs = 0,
                                 !.killed = FALSE, !.wedged = FALSE]
    OBVIOUS
  <2>6. t = Resumed(s) /\ sup.fisk = "child"
    <3>1. sup.procs - 1 = 0 /\ sup.fisk = "child"
      BY <1>1, <1>6 DEF ExitsAsked, Alone, Sound
    <3> QED
      BY <1>1, <1>2, <1>6, <2>5, <3>1 DEF ExitsAsked, State
  <2>7. s \in State
    <3>1. 0 \in 0..2
      OBVIOUS
    <3> QED
      BY <1>1, <2>5, <3>1 DEF State
  <2>8. /\ s.fisk = "none" /\ s.procs = 0 /\ s.active = sup.active
        /\ s.timer = sup.timer /\ s.leaked = sup.leaked
        /\ s.removing = sup.removing /\ s.recheck = sup.recheck
        /\ s.check = sup.check /\ ~s.killed /\ s.restart = sup.restart
        /\ s.prod = sup.prod /\ s.stage = sup.stage
    BY <1>1, <2>5 DEF State
  <2>9. Chains(s) = Chains(sup) /\ Running(s) = Running(sup)
    BY <2>8 DEF Chains, Running
  <2>10. Sound(s, 0)
    BY <1>1, <2>7, <2>8, <2>9 DEF Sound, Alone, Paced
  <2>11. t = Killed(s, c, sup.check[c])
    <3>1. 0 \in 0..MaxCrashes
      BY SupervisorAssumption
    <3> QED
      BY <1>1, <2>2, <2>4, <2>6, <2>8, <2>10, <3>1, ResumedGoOn
  <2>12. t = KillFisk(s, c, sup.check[c])
    BY <2>8, <2>11 DEF KillFisk
  <2>13. /\ Calm(t)
         /\ s.fisk # "failed" /\ s.prod # "half" /\ s.stage # "none"
              /\ (sup.check[c] = "killToUpdate" => s.stage \in Whole)
              /\ (sup.check[c] = "killToRestart" => s.prod \in Whole) => Fresh(t)
    BY <1>3, <2>2, <2>8, <2>9, <2>10, <2>12, CalmKill
  <2>14. Fresh(sup) => Fresh(t)
    BY <2>2, <2>8, <2>13 DEF Fresh, Killing
  <2> QED
    BY <1>1, <1>2, <1>5, <2>13, <2>14
<1>7. CASE TenSecondsPass \/ Wedges
  <2>1. \/ t = [sup EXCEPT !.young = FALSE]
        \/ t = [sup EXCEPT !.wedged = TRUE]
    BY <1>2, <1>7 DEF TenSecondsPass, Wedges
  <2>2. /\ t.fisk = sup.fisk /\ t.restart = sup.restart /\ t.leaked = sup.leaked
        /\ t.removing = sup.removing /\ t.recheck = sup.recheck
        /\ t.check = sup.check /\ t.prod = sup.prod /\ t.stage = sup.stage
    BY <1>1, <2>1 DEF State
  <2>3. Calm(t) /\ (Fresh(sup) => Fresh(t))
    BY <1>1, <2>2 DEF Calm, Fresh
  <2> QED
    BY <1>1, <1>2, <1>5, <2>3
<1>8. CASE CheckTimer \/ SigHup
  <2>1. t = CheckForUpdate(sup) /\ sup.timer
    BY <1>1, <1>2, <1>3, <1>8 DEF CheckTimer, SigHup, Paced
  <2>2. Running(sup) = {}
    <3>1. \A c \in Running(sup) : ~sup.timer
      BY <1>1, OnlyOneRuns
    <3> QED
      BY <2>1, <3>1
  <2>3. Calm(t) /\ (sup.fisk # "failed" /\ sup.prod # "half" => Fresh(t))
    BY <1>1, <1>3, <2>1, <2>2, CalmBegins
  <2> QED
    BY <1>1, <1>2, <1>5, <2>3 DEF Fresh
<1>9. CASE Publish
  <2> DEFINE aged(x) == IF x = "new" THEN "old" ELSE x
             moved == [c \in Checks |->
                         IF sup.check[c] = "askNew" /\ sup.prod # "half"
                         THEN "askOld" ELSE sup.check[c]]
  <2>1. t = [sup EXCEPT !.prod = aged(sup.prod), !.stage = aged(sup.stage),
                        !.check = moved]
    BY <1>1, <1>2, <1>9 DEF Publish, State
  <2>2. /\ t.fisk = sup.fisk /\ t.restart = sup.restart /\ t.leaked = sup.leaked
        /\ t.removing = sup.removing /\ t.recheck = sup.recheck
        /\ t.check = moved
        /\ t.prod = aged(sup.prod) /\ t.stage = aged(sup.stage)
    <3> HIDE DEF moved, aged
    <3> QED
      BY <1>1, <2>1 DEF State
  <2>3. /\ \A x \in Trees : /\ aged(x) \in Whole <=> x \in Whole
                            /\ aged(x) = "none" <=> x = "none"
                            /\ aged(x) = "half" <=> x = "half"
        /\ \A c \in Checks : \/ moved[c] = sup.check[c]
                             \/ moved[c] = "askOld" /\ sup.check[c] = "askNew"
    BY DEF Trees, Whole
  <2> HIDE DEF moved, aged
  <2>4. Calm(t)
    BY <1>1, <2>2, <2>3 DEF Calm, Killing
  <2>5. Fresh(sup) => Fresh(t)
    BY <1>1, <2>2, <2>3 DEF Fresh
  <2> QED
    BY <1>1, <1>2, <1>5, <2>4, <2>5
<1> QED
  BY <1>4, <1>6, <1>7, <1>8, <1>9

(* So calm is inductive. *)
LEMMA CalmStep == CalmInv /\ [SupNext]_supVars => CalmInv'
<1> SUFFICES ASSUME CalmInv, [SupNext]_supVars PROVE CalmInv'
  OBVIOUS
<1>1. SupInv'
  BY SupStep DEF CalmInv
<1>2. CASE UNCHANGED supVars
  BY <1>1, <1>2 DEF supVars, CalmInv, Calm, Fresh
<1>3. ASSUME SupNext, crashes' = 0
      PROVE  Calm(sup') /\ (failures' = 0 => Fresh(sup'))
  <2>1. crashes = 0
    <3>1. crashes' = crashes \/ crashes' = crashes + 1
      BY <1>3 DEF SupNext, CheckStep, NpmAnswers, Installed, InstallFails, Connects,
           Removes, Moves, ExitsAsked, Crashes, TenSecondsPass, Wedges, RestartTimer,
           InstallRemoved, RecheckTimer, CheckTimer, SigHup, Publish, Quiet
    <3>2. crashes \in Nat
      BY DEF CalmInv, SupInv, SupTypeOK
    <3> QED
      BY <1>3, <3>1, <3>2
  <2>2. \A c \in Checks : CheckStep(c) =>
          Calm(sup') /\ (failures' = 0 => Fresh(sup'))
    BY <2>1, CalmCheckStep
  <2> QED
    BY <1>3, <2>1, <2>2, CalmEvent DEF SupNext
<1>4. CASE SupNext
  BY <1>1, <1>3, <1>4 DEF CalmInv, Calm, Fresh
<1> QED
  BY <1>2, <1>4

(***************************************************************************)
(* A child runs from a whole prod/ until the first crash, and fork() does  *)
(* not fail before the first crash or the first install that failed.       *)
(***************************************************************************)
THEOREM RunsFromWholeInstalls == SupSpec => []RunsFromWhole
<1>1. CalmInv => RunsFromWhole
  <2> SUFFICES ASSUME CalmInv PROVE RunsFromWhole
    OBVIOUS
  <2>1. crashes \in Nat /\ failures \in Nat
    BY DEF CalmInv, SupInv, SupTypeOK
  <2>2. crashes = 0 => /\ sup.fisk = "child" => sup.prod \in Whole
                       /\ failures = 0 => sup.fisk # "failed"
    BY DEF CalmInv, Calm, Fresh
  <2> QED
    BY <2>1, <2>2 DEF RunsFromWhole
<1> QED
  BY <1>1, CalmInitially, CalmStep, PTL DEF SupSpec

-----------------------------------------------------------------------------
(***************************************************************************)
(* The object cache.  Its size is a sum over a set and what the scheduler  *)
(* knows is a fold over a sequence, so both are shown first to be what     *)
(* they are meant to be: the sum does not depend on the order of its terms *)
(* (WeightWith, WeightMinus), and messages can be learned from one at a    *)
(* time (CourseTaken, ToldFirst, ToldMore).  Then what a purge takes, then *)
(* the invariant, of which the runs check a part: as long as no write has  *)
(* met a reconnect or another write, nobody writes to the file of a cached *)
(* object, and no file has two writers.                                    *)
(***************************************************************************)

(* The sum of the sizes is a fold, on all sets of objects the same.        *)
LEMMA SumsExist ==
  \E E, pick :
    /\ E \in [SUBSET Md5s -> Nat] /\ E[{}] = 0
    /\ \A s \in SUBSET Md5s :
         /\ Weight(s) = E[s]
         /\ s # {} => /\ pick[s] \in s
                      /\ E[s] = FileSize[pick[s]] + E[s \ {pick[s]}]
<1> DEFINE g == [p \in Nat \X Md5s |-> FileSize[p[2]] + p[1]]
           pick == [s \in SUBSET Md5s |-> CHOOSE m \in s : TRUE]
<1>1. IsFiniteSet(Md5s) /\ \A m \in Md5s : FileSize[m] \in Nat
  BY ObjectCacheAssumption
<1>2. g \in [Nat \X Md5s -> Nat]
  BY <1>1
<1>3. \A s \in SUBSET Md5s : s # {} =>
        pick[s] \in s /\ pick[s] = CHOOSE m \in s : TRUE
  OBVIOUS
<1>g. \A n \in Nat, m \in Md5s : g[<<n, m>>] = FileSize[m] + n
  OBVIOUS
<1> HIDE DEF g, pick
<1>4. PICK E : E \in [SUBSET Md5s -> Nat] /\ IsFold(E, Md5s, 0, g, pick)
  BY <1>1, <1>2, <1>3, FoldExists
<1>5. {} \in SUBSET Md5s /\ E[{}] = 0
  BY <1>4 DEF IsFold
<1>6. ASSUME NEW s \in SUBSET Md5s, s # {}
      PROVE  /\ pick[s] \in s /\ s \ {pick[s]} \in SUBSET Md5s
             /\ E[s] = FileSize[pick[s]] + E[s \ {pick[s]}]
  <2>1. pick[s] \in Md5s /\ s \ {pick[s]} \in SUBSET Md5s
    BY <1>3, <1>6
  <2>2. E[s \ {pick[s]}] \in Nat
    BY <1>4, <2>1
  <2> QED
    BY <1>3, <1>4, <1>6, <1>g, <2>1, <2>2 DEF IsFold
<1>7. ASSUME NEW S \in SUBSET Md5s PROVE Weight(S) = E[S]
  <2> DEFINE Is(f) == f = [s \in SUBSET S |->
                             IF s = {} THEN 0
                             ELSE LET m == CHOOSE m \in s : TRUE
                                  IN FileSize[m] + f[s \ {m}]]
             f == CHOOSE f : Is(f)
  <2>1. Weight(S) = f[S]
    BY DEF Weight, MapThenSumSet, MapThenFoldSet
  <2>2. Is(f)
    <3> DEFINE h == [s \in SUBSET S |-> E[s]]
    <3>1. ASSUME NEW s \in SUBSET S
          PROVE  h[s] = IF s = {} THEN 0
                        ELSE LET m == CHOOSE m \in s : TRUE
                             IN FileSize[m] + h[s \ {m}]
      <4>1. CASE s = {}
        BY <1>5, <4>1
      <4>2. CASE s # {}
        <5>1. s \in SUBSET Md5s /\ pick[s] = CHOOSE m \in s : TRUE
          BY <1>3, <4>2
        <5>2. h[s \ {pick[s]}] = E[s \ {pick[s]}] /\ h[s] = E[s]
          OBVIOUS
        <5> QED
          BY <1>6, <4>2, <5>1, <5>2
      <4> QED
        BY <4>1, <4>2
    <3>2. h = [s \in SUBSET S |-> h[s]]
      OBVIOUS
    <3> HIDE DEF h
    <3>3. Is(h)
      BY <3>1, <3>2
    <3> HIDE DEF Is
    <3> QED
      BY <3>3
  <2> HIDE DEF Is, f
  <2>3. \A s \in SUBSET S : f[s] = IF s = {} THEN 0
                                   ELSE LET m == CHOOSE m \in s : TRUE
                                        IN FileSize[m] + f[s \ {m}]
    BY <2>2 DEF Is
  <2>4. f[{}] = E[{}]
    <3>1. {} \in SUBSET S
      OBVIOUS
    <3> QED
      BY <1>5, <2>3, <3>1
  <2>5. IsFiniteSet(S)
    BY <1>1, FS_Subset
  <2>6. GrowAlike(f, E, S, pick)
    <3>1. ASSUME NEW s \in SUBSET S, s # {}
          PROVE  /\ pick[s] \in s
                 /\ f[s \ {pick[s]}] = E[s \ {pick[s]}] => f[s] = E[s]
      <4>1. s \in SUBSET Md5s /\ f[s] = FileSize[pick[s]] + f[s \ {pick[s]}]
        BY <1>3, <2>3, <3>1
      <4> QED
        BY <1>6, <3>1, <4>1
    <3> QED
      BY <2>4, <3>1 DEF GrowAlike
  <2>7. \A s \in SUBSET S : f[s] = E[s]
    <3>1. PICK h, p : h = f /\ p = pick
      OBVIOUS
    <3>2. GrowAlike(h, E, S, p)
      BY <2>6, <3>1
    <3>3. \A s \in SUBSET S : h[s] = E[s]
      BY <2>5, <3>2, AgreeOnSets
    <3> QED
      BY <3>1, <3>3
  <2>8. f[S] = E[S]
    BY <2>7
  <2> QED
    BY <2>1, <2>8
<1>8. /\ E \in [SUBSET Md5s -> Nat] /\ E[{}] = 0
      /\ \A s \in SUBSET Md5s :
           /\ Weight(s) = E[s]
           /\ s # {} => /\ pick[s] \in s
                        /\ E[s] = FileSize[pick[s]] + E[s \ {pick[s]}]
  BY <1>4, <1>5, <1>6, <1>7
<1> QED
  BY <1>8

(* It does not matter which object is weighed first. *)
LEMMA WeightWith ==
  /\ Weight({}) = 0
  /\ \A S \in SUBSET Md5s : /\ Weight(S) \in Nat
                            /\ \A m \in S :
                                 Weight(S) = FileSize[m] + Weight(S \ {m})
<1> DEFINE n == Cardinality(Md5s)
<1>1. PICK E, pick :
        /\ E \in [SUBSET Md5s -> Nat] /\ E[{}] = 0
        /\ \A s \in SUBSET Md5s :
             /\ Weight(s) = E[s]
             /\ s # {} => /\ pick[s] \in s
                          /\ E[s] = FileSize[pick[s]] + E[s \ {pick[s]}]
  BY SumsExist
<1>2. /\ n \in Nat
      /\ \A s \in SUBSET Md5s : /\ IsFiniteSet(s) /\ Cardinality(s) \in Nat
                                /\ Cardinality(s) <= n
                                /\ Cardinality(s) = 0 <=> s = {}
  BY ObjectCacheAssumption, FS_CardinalityType, FS_Subset, FS_EmptySet
<1>3. \A s \in SUBSET Md5s : \A m \in s :
        /\ s \ {m} \in SUBSET Md5s
        /\ Cardinality(s \ {m}) = Cardinality(s) - 1
  BY <1>2, FS_RemoveElement
<1>4. \A m \in Md5s : FileSize[m] \in Nat
  BY ObjectCacheAssumption
<1>e. \A s \in SUBSET Md5s : E[s] \in Nat
  BY <1>1
<1> HIDE DEF n
<1> DEFINE Same(s) == \A m \in s : E[s] = FileSize[m] + E[s \ {m}]
           K == {k \in 0..n : \A s \in SUBSET Md5s : Cardinality(s) = k => Same(s)}
<1>5. 0 \in K
  <2>1. 0 \in 0..n
    BY <1>2
  <2> QED
    BY <1>2, <2>1
<1>6. ASSUME NEW k \in 0..n-1, k \in K PROVE k+1 \in K
  <2>1. ASSUME NEW s \in SUBSET Md5s, Cardinality(s) = k+1, NEW m \in s
        PROVE  E[s] = FileSize[m] + E[s \ {m}]
    <3> DEFINE p == pick[s]
    <3>1. p \in s /\ E[s] = FileSize[p] + E[s \ {p}]
      BY <1>1
    <3> HIDE DEF p
    <3>2. CASE p = m
      BY <3>1, <3>2
    <3>3. CASE p # m
      <4>1. /\ s \ {p} \in SUBSET Md5s /\ Cardinality(s \ {p}) = k
            /\ s \ {m} \in SUBSET Md5s /\ Cardinality(s \ {m}) = k
        BY <1>3, <2>1, <3>1
      <4>2. Same(s \ {p}) /\ Same(s \ {m})
        <5> HIDE DEF Same
        <5> QED
          BY <1>6, <4>1
      <4>3. /\ E[s \ {p}] = FileSize[m] + E[(s \ {p}) \ {m}]
            /\ E[s \ {m}] = FileSize[p] + E[(s \ {m}) \ {p}]
        BY <2>1, <3>1, <3>3, <4>2
      <4>4. (s \ {p}) \ {m} = (s \ {m}) \ {p} /\ (s \ {m}) \ {p} \in SUBSET Md5s
        OBVIOUS
      <4>5. /\ E[(s \ {m}) \ {p}] \in Nat /\ m \in Md5s /\ p \in Md5s
            /\ FileSize[m] \in Nat /\ FileSize[p] \in Nat
        BY <1>4, <1>e, <3>1, <4>4
      <4>6. E[s \ {p}] = FileSize[m] + E[(s \ {m}) \ {p}]
        BY <4>3, <4>4
      <4>7. \A x, a, b \in Nat : a + (b + x) = b + (a + x)
        OBVIOUS
      <4> QED
        BY <3>1, <4>3, <4>5, <4>6, <4>7
    <3> QED
      BY <3>2, <3>3
  <2>2. k+1 \in 0..n
    BY <1>2
  <2> QED
    BY <2>1, <2>2
<1>7. \A k \in 0..n : k \in K
  <2> HIDE DEF K
  <2> QED
    BY <1>2, <1>5, <1>6, Steps
<1>8. ASSUME NEW s \in SUBSET Md5s PROVE Same(s)
  <2>1. Cardinality(s) \in 0..n
    BY <1>2
  <2> HIDE DEF Same
  <2> QED
    BY <1>7, <2>1
<1>9. ASSUME NEW s \in SUBSET Md5s, NEW m \in s
      PROVE  Weight(s) = FileSize[m] + Weight(s \ {m})
  <2>1. s \ {m} \in SUBSET Md5s
    OBVIOUS
  <2>2. Weight(s \ {m}) = E[s \ {m}] /\ Weight(s) = E[s]
    BY <1>1, <2>1
  <2> QED
    BY <1>8, <2>2
<1>10. Weight({}) = 0
  <2>1. {} \in SUBSET Md5s
    OBVIOUS
  <2> QED
    BY <1>1, <2>1
<1> QED
  BY <1>1, <1>9, <1>10, <1>e

(* What is taken away weighs what is missing afterwards. *)
LEMMA WeightMinus ==
  ASSUME NEW S \in SUBSET Md5s, NEW R \in SUBSET S
  PROVE  /\ Weight(S) \in Nat /\ Weight(R) \in Nat
         /\ Weight(R) <= Weight(S)
         /\ Weight(S \ R) = Weight(S) - Weight(R)
<1> DEFINE T == {r \in SUBSET S : Weight(S \ r) = Weight(S) - Weight(r)}
           pick == [r \in SUBSET S |-> CHOOSE m \in r : TRUE]
<1>1. \A r \in SUBSET S : r \in SUBSET Md5s /\ S \ r \in SUBSET Md5s
  OBVIOUS
<1>2. \A r \in SUBSET S : Weight(r) \in Nat /\ Weight(S \ r) \in Nat
  BY <1>1, WeightWith
<1>3. Weight(S) \in Nat
  BY WeightWith
<1>4. {} \in T
  <2>1. S \ {} = S /\ {} \in SUBSET S
    OBVIOUS
  <2>2. Weight({}) = 0
    BY WeightWith
  <2> QED
    BY <1>3, <2>1, <2>2
<1>5. \A r \in SUBSET S : r # {} => pick[r] \in r
  OBVIOUS
<1> HIDE DEF pick
<1>6. ASSUME NEW r \in SUBSET S, r # {}
      PROVE  pick[r] \in r /\ (r \ {pick[r]} \in T => r \in T)
  <2> DEFINE m == pick[r]
             q == r \ {m}
  <2>1. m \in r /\ m \in S \ q /\ (S \ q) \ {m} = S \ r
    BY <1>5, <1>6
  <2>2. Weight(r) = FileSize[m] + Weight(q)
    BY <1>1, <2>1, WeightWith
  <2>3. Weight(S \ q) = FileSize[m] + Weight(S \ r)
    <3>1. S \ q \in SUBSET Md5s
      OBVIOUS
    <3> QED
      BY <2>1, <3>1, WeightWith
  <2>4. FileSize[m] \in Nat
    BY <2>1, ObjectCacheAssumption
  <2>5. q \in SUBSET S
    OBVIOUS
  <2> HIDE DEF m, q
  <2>6. q \in T => Weight(S \ r) = Weight(S) - Weight(r)
    BY <1>2, <1>3, <2>2, <2>3, <2>4, <2>5
  <2> QED
    BY <2>1, <2>6 DEF m, q
<1>7. IsFiniteSet(S)
  BY ObjectCacheAssumption, FS_Subset
<1>8. \A r \in SUBSET S : r \in T
  <2> HIDE DEF T
  <2>1. Climbs(T, S, pick)
    BY <1>6 DEF Climbs
  <2> QED
    BY <1>4, <1>7, <2>1, SetSteps
<1>9. Weight(S \ R) = Weight(S) - Weight(R)
  BY <1>8
<1>10. Weight(R) \in Nat /\ Weight(S \ R) \in Nat
  BY <1>2
<1> QED
  BY <1>3, <1>9, <1>10

Views == [Md5s -> Nat]
Listed(C) == [m \in Md5s |-> IF m \in C THEN 1 ELSE 0]

(* What the scheduler believes after each of the messages w. *)
Course(H, v, w) ==
  H[0] = v /\ \A i \in 1..Len(w) : H[i] = Learn(H[i-1], w[i])

(* A message leaves a count for each object. *)
LEMMA LearnTyped ==
  ASSUME NEW v \in Views, NEW g \in Message
  PROVE  Learn(v, g) \in Views
<1>1. CASE g \in [type : {"sync"}, md5s : SUBSET Md5s]
  BY <1>1 DEF Views, Learn
<1>2. CASE g \in [type : {"added", "removed"}, md5 : Md5s]
  <2>1. \A n \in Nat : n + 1 \in Nat /\ (n > 0 => n - 1 \in Nat)
    OBVIOUS
  <2>2. v[g.md5] \in Nat /\ g.type \in {"added", "removed"}
    BY <1>2 DEF Views
  <2>3. CASE g.type = "added"
    <3>1. Learn(v, g) = [v EXCEPT ![g.md5] = v[g.md5] + 1]
      BY <2>3 DEF Learn
    <3> QED
      BY <2>1, <2>2, <3>1 DEF Views
  <2>4. CASE g.type = "removed"
    <3>1. Learn(v, g) = [v EXCEPT ![g.md5] = IF v[g.md5] > 0 THEN v[g.md5] - 1 ELSE 0]
      BY <2>4 DEF Learn
    <3>2. (IF v[g.md5] > 0 THEN v[g.md5] - 1 ELSE 0) \in Nat
      BY <2>1, <2>2
    <3> QED
      BY <3>1, <3>2 DEF Views
  <2> QED
    BY <2>2, <2>3, <2>4
<1> QED
  BY <1>1, <1>2 DEF Message

(* There is such a course, and the fold is where it ends. *)
LEMMA CourseTaken ==
  ASSUME NEW v \in Views, NEW w \in Seq(Message)
  PROVE  /\ FoldLeft(Learn, v, w) \in Views
         /\ \E H \in [0..Len(w) -> Views] :
              Course(H, v, w) /\ FoldLeft(Learn, v, w) = H[Len(w)]
<1> DEFINE N == Len(w)
           g == [p \in Views \X (1..N) |-> Learn(p[1], w[p[2]])]
           Is(f) == f = [t \in SUBSET (DOMAIN w) |->
                           IF t = {} THEN v
                           ELSE Learn(f[t \ {Max(t)}], w[Max(t)])]
           f == CHOOSE f : Is(f)
<1>1. /\ N \in Nat /\ DOMAIN w = 1..N
      /\ \A i \in 1..N : w[i] \in Message
  BY LenProperties, ElementOfSeq
<1>2. FoldLeft(Learn, v, w) = f[DOMAIN w]
  BY DEF FoldLeft, MapThenFoldSet
<1>4. g \in [Views \X (1..N) -> Views]
  <2> HIDE DEF N, Views
  <2> QED
    BY <1>1, LearnTyped
<1>5. PICK E \in [SUBSET (1..N) -> Views] : Along(E, N, v, g)
  <2> HIDE DEF N, Views, g
  <2> QED
    BY <1>1, <1>4, AlongExists
<1>6. ASSUME NEW t \in SUBSET (1..N)
      PROVE  E[t] = IF t = {} THEN v ELSE Learn(E[t \ {Max(t)}], w[Max(t)])
  <2>1. CASE t = {}
    BY <1>5, <2>1 DEF Along
  <2>2. CASE t # {}
    <3>1. Max(t) \in 1..N /\ t \ {Max(t)} \in SUBSET (1..N)
      BY <1>1, <2>2, MaxIs
    <3> HIDE DEF N, Views
    <3>2. E[t \ {Max(t)}] \in Views
      BY <1>5, <3>1
    <3>3. g[<<E[t \ {Max(t)}], Max(t)>>] = Learn(E[t \ {Max(t)}], w[Max(t)])
      BY <3>1, <3>2
    <3> QED
      BY <1>5, <2>2, <3>3 DEF Along
  <2> QED
    BY <2>1, <2>2
<1>7. Is(f)
  <2>1. Is(E)
    <3> HIDE DEF N, Views
    <3> QED
      BY <1>1, <1>5, <1>6
  <2> HIDE DEF Is
  <2> QED
    BY <2>1
<1> HIDE DEF f
<1> DEFINE T == {t \in SUBSET (1..N) : f[t] = E[t]}
<1>8. \A i \in 0..N : f[1..i] = E[1..i] /\ 1..i \in SUBSET (1..N)
  <2> DEFINE K == {i \in 0..N : f[1..i] = E[1..i]}
  <2> HIDE DEF N, Views
  <2>1. 1..0 = {} /\ {} \in SUBSET (1..N)
    OBVIOUS
  <2>2. 0 \in K
    BY <1>1, <1>6, <1>7, <2>1
  <2>3. ASSUME NEW i \in 0..N-1, i \in K PROVE i+1 \in K
    <3>1. i+1 \in 1..N /\ i+1 \in 0..N /\ (i+1)-1 = i
      BY <1>1
    <3>2. /\ 1..i+1 \in SUBSET (1..N) /\ 1..i+1 # {}
          /\ Max(1..i+1) = i+1 /\ (1..i+1) \ {i+1} = 1..(i+1)-1
      BY <1>1, <3>1, MaxOfPrefix
    <3>3. /\ f[1..i+1] = Learn(f[1..i], w[i+1])
          /\ E[1..i+1] = Learn(E[1..i], w[i+1])
      BY <1>1, <1>6, <1>7, <3>1, <3>2
    <3> QED
      BY <2>3, <3>1, <3>3
  <2>4. \A i \in 0..N : i \in K
    <3> HIDE DEF K
    <3> QED
      BY <1>1, <2>2, <2>3, Steps
  <2>5. \A i \in 0..N : 1..i \in SUBSET (1..N)
    BY <1>1
  <2> QED
    BY <2>4, <2>5
<1> DEFINE H == [i \in 0..N |-> E[1..i]]
<1>9. H \in [0..N -> Views]
  <2> HIDE DEF N, Views
  <2> QED
    BY <1>5, <1>8
<1>10. Course(H, v, w)
  <2>1. H[0] = v
    <3>1. 1..0 = {} /\ {} \in SUBSET (1..N) /\ 0 \in 0..N
      BY <1>1
    <3> HIDE DEF N
    <3> QED
      BY <1>6, <3>1
  <2>2. ASSUME NEW i \in 1..N PROVE H[i] = Learn(H[i-1], w[i])
    <3>1. /\ 1..i \in SUBSET (1..N) /\ 1..i # {}
          /\ Max(1..i) = i /\ (1..i) \ {i} = 1..i-1
      BY <1>1, MaxOfPrefix
    <3>2. i \in 0..N /\ i-1 \in 0..N
      BY <1>1
    <3> HIDE DEF N
    <3> QED
      BY <1>6, <3>1, <3>2
  <2> HIDE DEF H
  <2> QED
    BY <2>1, <2>2 DEF Course
<1>11. FoldLeft(Learn, v, w) = H[N] /\ N \in 0..N
  <2>1. N \in 0..N
    BY <1>1
  <2> HIDE DEF N
  <2> QED
    BY <1>1, <1>2, <1>8, <2>1
<1> HIDE DEF H, Views
<1>12. H[N] \in Views
  BY <1>9, <1>11
<1> QED
  BY <1>9, <1>10, <1>11, <1>12

(* Any course ends there. *)
LEMMA CourseEnds ==
  ASSUME NEW v \in Views, NEW w \in Seq(Message), NEW H, Course(H, v, w)
  PROVE  FoldLeft(Learn, v, w) = H[Len(w)]
<1> DEFINE N == Len(w)
<1>1. N \in Nat
  BY LenProperties
<1>2. PICK G : Course(G, v, w) /\ FoldLeft(Learn, v, w) = G[N]
  BY CourseTaken
<1> HIDE DEF N
<1> DEFINE T == {i \in 0..N : G[i] = H[i]}
<1>3. 0 \in T
  BY <1>1, <1>2 DEF Course
<1>4. ASSUME NEW i \in 0..N-1, i \in T PROVE i+1 \in T
  <2>1. i+1 \in 1..N /\ i+1 \in 0..N /\ (i+1)-1 = i
    BY <1>1
  <2>2. G[i+1] = Learn(G[i], w[i+1]) /\ H[i+1] = Learn(H[i], w[i+1])
    BY <1>2, <2>1 DEF Course, N
  <2> QED
    BY <1>4, <2>1, <2>2
<1>5. \A i \in 0..N : i \in T
  <2> HIDE DEF T
  <2> QED
    BY <1>1, <1>3, <1>4, Steps
<1>6. N \in 0..N
  BY <1>1
<1> QED
  BY <1>2, <1>5, <1>6 DEF N

-----------------------------------------------------------------------------
(* No message changes nothing, and one does what it says. *)
LEMMA ToldLittle ==
  ASSUME NEW v \in Views, NEW g \in Message
  PROVE  FoldLeft(Learn, v, <<>>) = v /\ FoldLeft(Learn, v, <<g>>) = Learn(v, g)
<1> DEFINE H == [i \in 0..1 |-> IF i = 0 THEN v ELSE Learn(v, g)]
           e == <<>>
           o == <<g>>
<1>1. /\ e \in Seq(Message) /\ Len(e) = 0
      /\ o \in Seq(Message) /\ Len(o) = 1 /\ o[1] = g
  OBVIOUS
<1>2. H[0] = v /\ H[1] = Learn(v, g)
  OBVIOUS
<1> HIDE DEF H, e, o
<1>3. \A i \in 1..Len(e) : FALSE
  BY <1>1
<1>4. \A i \in 1..Len(o) : i = 1 /\ i - 1 = 0
  BY <1>1
<1>5. Course(H, v, e)
  BY <1>2, <1>3 DEF Course
<1>6. Course(H, v, o)
  BY <1>1, <1>2, <1>4 DEF Course
<1>7. FoldLeft(Learn, v, e) = H[Len(e)] /\ FoldLeft(Learn, v, o) = H[Len(o)]
  BY <1>1, <1>5, <1>6, CourseEnds
<1> QED
  BY <1>1, <1>2, <1>7 DEF e, o

(* In particular, no message. *)
LEMMA ToldNothing ==
  ASSUME NEW v \in Views PROVE FoldLeft(Learn, v, <<>>) = v
<1>1. [type |-> "sync", md5s |-> {}] \in Message
  BY DEF Message
<1> QED
  BY <1>1, ToldLittle

(* The first message is the first to be learned from. *)
LEMMA ToldFirst ==
  ASSUME NEW v \in Views, NEW w \in Seq(Message), w # <<>>
  PROVE  FoldLeft(Learn, v, w) = FoldLeft(Learn, Learn(v, Head(w)), Tail(w))
<1>1. /\ Len(w) \in Nat /\ Len(w) >= 1 /\ Head(w) = w[1] /\ Head(w) \in Message
      /\ Tail(w) \in Seq(Message) /\ Len(Tail(w)) = Len(w) - 1
      /\ \A i \in 1..Len(w)-1 : Tail(w)[i] = w[i+1]
  BY LenProperties, EmptySeq, HeadTailProperties, ElementOfSeq
<1>2. PICK H : Course(H, v, w) /\ FoldLeft(Learn, v, w) = H[Len(w)]
  BY CourseTaken
<1> DEFINE K == [i \in 0..Len(w)-1 |-> H[i+1]]
<1>3. K[0] = Learn(v, Head(w))
  <2>1. 1 \in 1..Len(w) /\ 1 - 1 = 0 /\ 0 \in 0..Len(w)-1 /\ 0 + 1 = 1
    BY <1>1
  <2>2. H[1] = Learn(H[0], w[1]) /\ H[0] = v
    BY <1>2, <2>1 DEF Course
  <2> QED
    BY <1>1, <2>1, <2>2
<1>4. ASSUME NEW i \in 1..Len(w)-1 PROVE K[i] = Learn(K[i-1], Tail(w)[i])
  <2>1. /\ i+1 \in 1..Len(w) /\ (i+1)-1 = i /\ (i-1)+1 = i
        /\ i \in 0..Len(w)-1 /\ i-1 \in 0..Len(w)-1
    BY <1>1
  <2>2. H[i+1] = Learn(H[i], w[i+1])
    BY <1>2, <2>1 DEF Course
  <2> QED
    BY <1>1, <2>1, <2>2
<1>5. K[Len(w)-1] = H[Len(w)]
  BY <1>1
<1> HIDE DEF K
<1>6. Course(K, Learn(v, Head(w)), Tail(w))
  BY <1>1, <1>3, <1>4 DEF Course
<1>7. Learn(v, Head(w)) \in Views
  BY <1>1, LearnTyped
<1>8. FoldLeft(Learn, Learn(v, Head(w)), Tail(w)) = K[Len(Tail(w))]
  BY <1>1, <1>6, <1>7, CourseEnds
<1> QED
  BY <1>1, <1>2, <1>5, <1>8

(* Messages that follow are learned from where the others led. *)
LEMMA ToldMore ==
  ASSUME NEW v \in Views, NEW w \in Seq(Message), NEW u \in Seq(Message)
  PROVE  FoldLeft(Learn, v, w \o u) = FoldLeft(Learn, FoldLeft(Learn, v, w), u)
<1> DEFINE a == Len(w)
           b == Len(u)
           x == FoldLeft(Learn, v, w)
<1>1. /\ a \in Nat /\ b \in Nat /\ w \o u \in Seq(Message)
      /\ Len(w \o u) = a + b
      /\ \A i \in 1..a+b : (w \o u)[i] = IF i <= a THEN w[i] ELSE u[i-a]
  BY LenProperties, ConcatProperties
<1>2. PICK H : Course(H, v, w) /\ x = H[a]
  BY CourseTaken
<1>3. x \in Views
  BY CourseTaken
<1>4. PICK K : Course(K, x, u) /\ FoldLeft(Learn, x, u) = K[b]
  <2> HIDE DEF x
  <2> QED
    BY <1>3, CourseTaken
<1>h. H[0] = v /\ \A i \in 1..a : H[i] = Learn(H[i-1], w[i])
  BY <1>2 DEF Course
<1>k. K[0] = H[a] /\ \A i \in 1..b : K[i] = Learn(K[i-1], u[i])
  BY <1>2, <1>4 DEF Course
<1> HIDE DEF a, b
<1> DEFINE J == [i \in 0..a+b |-> IF i <= a THEN H[i] ELSE K[i-a]]
<1>5. J[0] = v
  BY <1>1, <1>h
<1>6. ASSUME NEW i \in 1..a+b PROVE J[i] = Learn(J[i-1], (w \o u)[i])
  <2>1. CASE i <= a
    <3>1. i \in 1..a /\ i \in 0..a+b /\ i-1 \in 0..a+b /\ i-1 <= a
      BY <1>1, <2>1
    <3>2. J[i] = H[i] /\ J[i-1] = H[i-1] /\ (w \o u)[i] = w[i]
      BY <1>1, <2>1, <3>1
    <3> QED
      BY <1>h, <3>1, <3>2
  <2>2. CASE ~(i <= a)
    <3>1. /\ i-a \in 1..b /\ i \in 0..a+b /\ i-1 \in 0..a+b
          /\ (i-1)-a = (i-a)-1 /\ (i-1 <= a => i-1 = a /\ (i-a)-1 = 0)
      BY <1>1, <2>2
    <3>2. J[i] = K[i-a] /\ (w \o u)[i] = u[i-a]
      BY <1>1, <2>2, <3>1
    <3>3. J[i-1] = K[(i-a)-1]
      <4>1. CASE i-1 <= a
        <5>1. J[i-1] = H[i-1]
          BY <3>1, <4>1
        <5> QED
          BY <1>k, <3>1, <4>1, <5>1
      <4>2. CASE ~(i-1 <= a)
        <5>1. J[i-1] = K[(i-1)-a]
          BY <3>1, <4>2
        <5> QED
          BY <3>1, <5>1
      <4> QED
        BY <4>1, <4>2
    <3> QED
      BY <1>k, <3>1, <3>2, <3>3
  <2> QED
    BY <2>1, <2>2
<1>7. J[a+b] = K[b]
  <2>1. a+b \in 0..a+b /\ (a+b)-a = b /\ (a+b <= a => b = 0 /\ a+b = a)
    BY <1>1
  <2>2. CASE a+b <= a
    BY <1>k, <2>1, <2>2
  <2>3. CASE ~(a+b <= a)
    BY <2>1, <2>3
  <2> QED
    BY <2>2, <2>3
<1> HIDE DEF J
<1>8. Course(J, v, w \o u)
  BY <1>1, <1>5, <1>6 DEF Course
<1>9. FoldLeft(Learn, v, w \o u) = J[Len(w \o u)]
  BY <1>1, <1>8, CourseEnds
<1> QED
  BY <1>1, <1>4, <1>7, <1>9

(* Told of removals, a right list stays right. *)
LEMMA ToldRemoved ==
  ASSUME NEW C \in SUBSET Md5s, NEW gone \in Seq(Md5s), Distinct(gone),
         ToSet(gone) \subseteq C
  PROVE  /\ Removed(gone) \in Seq(Message)
         /\ FoldLeft(Learn, Listed(C), Removed(gone)) = Listed(C \ ToSet(gone))
<1> DEFINE n == Len(gone)
           r == Removed(gone)
           Left(i) == C \ {gone[j] : j \in 1..i}
           H == [i \in 0..n |-> Listed(Left(i))]
<1>1. /\ n \in Nat /\ DOMAIN gone = 1..n
      /\ \A i \in 1..n : gone[i] \in Md5s /\ gone[i] \in C
  <2>1. n \in Nat /\ DOMAIN gone = 1..n /\ \A i \in 1..n : gone[i] \in Md5s
    BY LenProperties, ElementOfSeq
  <2> QED
    BY <2>1 DEF ToSet
<1> HIDE DEF n
<1>2. r = [i \in 1..n |-> [type |-> "removed", md5 |-> gone[i]]]
  BY <1>1 DEF Removed
<1> HIDE DEF r
<1>3. \A i \in 1..n : r[i] = [type |-> "removed", md5 |-> gone[i]] /\ r[i] \in Message
  BY <1>1, <1>2 DEF Message
<1>4. r \in Seq(Message) /\ Len(r) = n
  <2>1. r \in [1..n -> Message]
    BY <1>2, <1>3
  <2> QED
    BY <1>1, <2>1
<1>5. H[0] = Listed(C)
  <2>1. Left(0) = C /\ 0 \in 0..n
    BY <1>1
  <2> QED
    BY <2>1
<1>6. ASSUME NEW i \in 1..n PROVE H[i] = Learn(H[i-1], r[i])
  <2>1. i \in 0..n /\ i-1 \in 0..n
    BY <1>1
  <2>2. gone[i] \in Left(i-1)
    <3>1. \A j \in 1..i-1 : j \in 1..n /\ i \in 1..n /\ j # i
      BY <1>1
    <3>2. \A j \in 1..i-1 : gone[j] # gone[i]
      BY <3>1 DEF Distinct, n
    <3> QED
      BY <1>1, <3>2
  <2>3. Left(i) = Left(i-1) \ {gone[i]}
    <3>1. 1..i = (1..i-1) \cup {i}
      BY <1>1
    <3> QED
      BY <3>1
  <2> HIDE DEF Left
  <2>4. Listed(Left(i-1))[gone[i]] = 1
    BY <1>1, <2>2 DEF Listed
  <2>5. Learn(Listed(Left(i-1)), r[i]) = [Listed(Left(i-1)) EXCEPT ![gone[i]] = 0]
    <3>1. r[i].type = "removed" /\ r[i].md5 = gone[i]
      <4>1. r[i] = [type |-> "removed", md5 |-> gone[i]]
        BY <1>3
      <4> QED
        BY <4>1
    <3>2. 1 > 0 /\ 1 - 1 = 0
      OBVIOUS
    <3>3. Learn(Listed(Left(i-1)), r[i])
            = [Listed(Left(i-1)) EXCEPT ![gone[i]] =
                 IF Listed(Left(i-1))[gone[i]] > 0
                 THEN Listed(Left(i-1))[gone[i]] - 1 ELSE 0]
      BY <3>1 DEF Learn
    <3> QED
      BY <2>4, <3>2, <3>3
  <2>6. [Listed(Left(i-1)) EXCEPT ![gone[i]] = 0] = Listed(Left(i))
    BY <2>3 DEF Listed
  <2>7. H[i] = Listed(Left(i)) /\ H[i-1] = Listed(Left(i-1))
    BY <2>1
  <2> QED
    BY <2>5, <2>6, <2>7
<1>7. H[n] = Listed(C \ ToSet(gone))
  <2>1. n \in 0..n
    BY <1>1
  <2>2. Left(n) = C \ ToSet(gone)
    BY <1>1 DEF ToSet
  <2> QED
    BY <2>1, <2>2
<1> HIDE DEF H
<1>8. Course(H, Listed(C), r)
  BY <1>4, <1>5, <1>6 DEF Course
<1>9. Listed(C) \in Views
  BY DEF Listed, Views
<1>10. FoldLeft(Learn, Listed(C), r) = H[Len(r)]
  BY <1>4, <1>8, <1>9, CourseEnds
<1> QED
  BY <1>4, <1>7, <1>10 DEF r

(* Told of a new object, too, and of a whole cache. *)
LEMMA ToldAdded ==
  ASSUME NEW C \in SUBSET Md5s, NEW m \in Md5s \ C
  PROVE  /\ Added(m) \in Seq(Message)
         /\ FoldLeft(Learn, Listed(C), Added(m)) = Listed(C \cup {m})
<1> DEFINE g == [type |-> "added", md5 |-> m]
<1>1. g \in Message /\ g.type = "added" /\ g.md5 = m
  BY DEF Message
<1>2. Listed(C) \in Views /\ Listed(C)[m] = 0
  BY DEF Listed, Views
<1>3. Added(m) = <<g>>
  BY DEF Added
<1> HIDE DEF g
<1>4. Learn(Listed(C), g) = [Listed(C) EXCEPT ![m] = 1]
  <2>1. Learn(Listed(C), g) = [Listed(C) EXCEPT ![m] = Listed(C)[m] + 1]
    BY <1>1 DEF Learn
  <2> QED
    BY <1>2, <2>1
<1>5. [Listed(C) EXCEPT ![m] = 1] = Listed(C \cup {m})
  BY DEF Listed
<1>6. FoldLeft(Learn, Listed(C), <<g>>) = Learn(Listed(C), g)
  BY <1>1, <1>2, ToldLittle
<1>7. <<g>> \in Seq(Message)
  BY <1>1
<1> QED
  BY <1>3, <1>4, <1>5, <1>6, <1>7

(* The news of an object is a message. *)
LEMMA AddedTyped == ASSUME NEW m \in Md5s PROVE Added(m) \in Seq(Message)
<1>1. [type |-> "added", md5 |-> m] \in Message
  BY DEF Message
<1> QED
  BY <1>1 DEF Added

(* A whole cache replaces whatever was believed. *)
LEMMA ToldWhole ==
  ASSUME NEW C \in SUBSET Md5s, NEW v \in Views
  PROVE  /\ <<[type |-> "sync", md5s |-> C]>> \in Seq(Message)
         /\ FoldLeft(Learn, v, <<[type |-> "sync", md5s |-> C]>>) = Listed(C)
<1> DEFINE g == [type |-> "sync", md5s |-> C]
<1>1. g \in Message /\ g.type = "sync" /\ g.md5s = C
  BY DEF Message
<1> HIDE DEF g
<1>2. Learn(v, g) = Listed(C)
  BY <1>1 DEF Learn, Listed
<1>3. FoldLeft(Learn, v, <<g>>) = Learn(v, g)
  BY <1>1, ToldLittle
<1>4. <<g>> \in Seq(Message)
  BY <1>1
<1> QED
  BY <1>2, <1>3, <1>4 DEF g

(* Keys c with the size n: each key once, and n counts them all. *)
Holding(c, n) ==
  /\ c \in Seq(Md5s) /\ Distinct(c)
  /\ n \in Nat /\ Weight(ToSet(c)) <= n

(* No more keys than objects. *)
LEMMA KeysBounded ==
  ASSUME NEW c \in Seq(Md5s), Distinct(c)
  PROVE  ToSet(c) \in SUBSET Md5s /\ c \in SeqOf(Md5s, Cardinality(Md5s))
<1>1. /\ Len(c) \in Nat /\ DOMAIN c = 1..Len(c)
      /\ \A i \in 1..Len(c) : c[i] \in Md5s
      /\ c \in [1..Len(c) -> Md5s]
  BY LenProperties, ElementOfSeq
<1>2. ToSet(c) \in SUBSET Md5s
  BY <1>1 DEF ToSet
<1>3. IsFiniteSet(ToSet(c)) /\ Cardinality(ToSet(c)) = Len(c)
  BY MembersCounted
<1>4. Cardinality(ToSet(c)) <= Cardinality(Md5s) /\ Cardinality(Md5s) \in Nat
  BY <1>2, ObjectCacheAssumption, FS_Subset, FS_CardinalityType
<1>5. Len(c) \in 0..Cardinality(Md5s)
  BY <1>1, <1>3, <1>4
<1> QED
  BY <1>1, <1>2, <1>5 DEF SeqOf

(* Every order of a directory has each of its files once. *)
LEMMA OrderOfFiles ==
  ASSUME NEW S \in SUBSET Md5s, NEW c \in SetToSeqs(S)
  PROVE  c \in Seq(Md5s) /\ Distinct(c) /\ ToSet(c) = S
<1> DEFINE n == Cardinality(S)
<1>1. IsFiniteSet(S) /\ n \in Nat
  BY ObjectCacheAssumption, FS_Subset, FS_CardinalityType
<1>2. c \in [1..n -> S] /\ \A i, j \in 1..n : i # j => c[i] # c[j]
  BY DEF SetToSeqs
<1> HIDE DEF n
<1>3. c \in Seq(S) /\ Len(c) = n /\ DOMAIN c = 1..n /\ c \in Seq(Md5s)
  <2>1. c \in [1..n -> Md5s]
    BY <1>2
  <2> QED
    BY <1>1, <1>2, <2>1
<1>4. Distinct(c)
  BY <1>2, <1>3 DEF Distinct
<1>5. ToSet(c) \subseteq S
  BY <1>2, <1>3 DEF ToSet
<1>6. Cardinality(ToSet(c)) = Cardinality(S)
  BY <1>3, <1>4, MembersCounted DEF n
<1>7. ToSet(c) = S
  BY <1>1, <1>5, <1>6, FS_Subset
<1> QED
  BY <1>3, <1>4, <1>7

(* A key more. *)
LEMMA WithKeyIs ==
  ASSUME NEW c \in Seq(Md5s), Distinct(c), NEW m \in Md5s
  PROVE  /\ WithKey(c, m) \in Seq(Md5s) /\ Distinct(WithKey(c, m))
         /\ ToSet(WithKey(c, m)) = ToSet(c) \cup {m}
<1>1. CASE m \in ToSet(c)
  BY <1>1 DEF WithKey
<1>2. CASE m \notin ToSet(c)
  <2>1. \A i \in 1..Len(c) : c[i] # m
    BY <1>2, LenProperties DEF ToSet
  <2>2. WithKey(c, m) = Append(c, m)
    BY <1>2 DEF WithKey
  <2>3. Append(c, m) \in Seq(Md5s)
    BY AppendProperties
  <2>4. Distinct(Append(c, m)) /\ ToSet(Append(c, m)) = ToSet(c) \cup {m}
    BY <2>1, AppendDistinct, AppendMembers
  <2> QED
    BY <2>2, <2>3, <2>4
<1> QED
  BY <1>1, <1>2

(* The size still counts them all, and nothing else if it did so before. *)
LEMMA HoldingMore ==
  ASSUME NEW c, NEW n, Holding(c, n), NEW m \in Md5s
  PROVE  /\ Holding(WithKey(c, m), n + FileSize[m])
         /\ m \notin ToSet(c) /\ n = Weight(ToSet(c)) =>
              n + FileSize[m] = Weight(ToSet(WithKey(c, m)))
<1>1. /\ WithKey(c, m) \in Seq(Md5s) /\ Distinct(WithKey(c, m))
      /\ ToSet(WithKey(c, m)) = ToSet(c) \cup {m}
  BY WithKeyIs DEF Holding
<1>2. ToSet(c) \in SUBSET Md5s /\ FileSize[m] \in Nat /\ n \in Nat
  BY KeysBounded, ObjectCacheAssumption DEF Holding
<1> DEFINE C == ToSet(c)
           D == C \cup {m}
<1>3. Weight(C) \in Nat /\ Weight(C) <= n
  BY <1>2, WeightWith DEF Holding
<1>4. m \notin C => Weight(D) = Weight(C) + FileSize[m]
  <2>1. D \in SUBSET Md5s /\ m \in D
    BY <1>2
  <2>2. Weight(D) = FileSize[m] + Weight(D \ {m})
    BY <2>1, WeightWith
  <2>3. m \notin C => D \ {m} = C
    OBVIOUS
  <2> HIDE DEF C, D
  <2> QED
    BY <1>2, <1>3, <2>2, <2>3
<1>5. m \in C => D = C
  OBVIOUS
<1> HIDE DEF C, D
<1>6. Weight(D) <= n + FileSize[m] /\ n + FileSize[m] \in Nat
  BY <1>2, <1>3, <1>4, <1>5
<1>7. m \notin C /\ n = Weight(C) => n + FileSize[m] = Weight(D)
  BY <1>4
<1> QED
  BY <1>1, <1>6, <1>7 DEF Holding, C, D

(* Keys less. *)
LEMMA HoldingLess ==
  ASSUME NEW c, NEW n, Holding(c, n), NEW S, S \subseteq ToSet(c)
  PROVE  /\ Holding(Without(c, S), n - Weight(S))
         /\ ToSet(Without(c, S)) = ToSet(c) \ S
         /\ Weight(ToSet(Without(c, S))) = Weight(ToSet(c)) - Weight(S)
         /\ Weight(S) \in Nat
<1>1. /\ Without(c, S) \in Seq(Md5s) /\ Distinct(Without(c, S))
      /\ ToSet(Without(c, S)) = ToSet(c) \ S
  BY WithoutIs DEF Holding
<1>2. ToSet(c) \in SUBSET Md5s /\ n \in Nat /\ Weight(ToSet(c)) <= n
  BY KeysBounded DEF Holding
<1> DEFINE C == ToSet(c)
<1>3. /\ Weight(C) \in Nat /\ Weight(S) \in Nat /\ Weight(S) <= Weight(C)
      /\ Weight(C \ S) = Weight(C) - Weight(S)
  BY <1>2, WeightMinus
<1> HIDE DEF C
<1>4. n - Weight(S) \in Nat /\ Weight(C \ S) <= n - Weight(S)
  BY <1>2, <1>3 DEF C
<1> QED
  BY <1>1, <1>3, <1>4 DEF Holding, C

(* What a purge takes are the first keys, as few as will do. *)
LEMMA PurgedIs ==
  ASSUME NEW c \in Seq(Md5s), Distinct(c), NEW n \in Nat, NEW target \in Nat
  PROVE  /\ Purged(c, n, target) \in Seq(Md5s)
         /\ Distinct(Purged(c, n, target))
         /\ ToSet(Purged(c, n, target)) \subseteq ToSet(c)
         /\ \E k \in 0..Len(c) :
              /\ ToSet(Purged(c, n, target)) = {c[i] : i \in 1..k}
              /\ n - Weight({c[i] : i \in 1..k}) <= target \/ k = Len(c)
              /\ \A j \in 0..k-1 : ~(n - Weight({c[i] : i \in 1..j}) <= target)
<1> DEFINE N == Len(c)
           First(k) == {c[i] : i \in 1..k}
           Enough(k) == n - Weight(First(k)) <= target
           Good(k) == Enough(k) \/ k = N
           T == {k \in 0..N : Good(k)}
<1>1. N \in Nat /\ DOMAIN c = 1..N /\ \A i \in 1..N : c[i] \in Md5s
  BY LenProperties, ElementOfSeq
<1>2. ASSUME NEW k \in 0..N
      PROVE  /\ SubSeq(c, 1, k) \in Seq(Md5s) /\ Len(SubSeq(c, 1, k)) = k
             /\ \A i \in 1..k : SubSeq(c, 1, k)[i] = c[i]
             /\ ToSet(SubSeq(c, 1, k)) = First(k)
             /\ Distinct(SubSeq(c, 1, k)) /\ First(k) \subseteq ToSet(c)
  <2>1. \A i \in 1..k : i \in 1..N /\ c[i] \in Md5s
    BY <1>1
  <2>2. /\ SubSeq(c, 1, k) \in Seq(Md5s) /\ Len(SubSeq(c, 1, k)) = k
        /\ \A i \in 1..k : SubSeq(c, 1, k)[i] = c[i]
    <3>1. /\ SubSeq(c, 1, k) \in Seq(Md5s)
          /\ Len(SubSeq(c, 1, k)) = IF 1 <= k THEN k-1+1 ELSE 0
          /\ \A i \in 1..k-1+1 : SubSeq(c, 1, k)[i] = c[1+i-1]
      BY <2>1, SubSeqProperties
    <3>2. /\ k = IF 1 <= k THEN k-1+1 ELSE 0
          /\ \A i \in 1..k : i \in 1..k-1+1 /\ 1+i-1 = i
      BY <1>1
    <3> QED
      BY <3>1, <3>2
  <2>3. DOMAIN SubSeq(c, 1, k) = 1..k
    BY <2>2, LenProperties
  <2>4. ToSet(SubSeq(c, 1, k)) = First(k)
    BY <2>2, <2>3 DEF ToSet
  <2>5. Distinct(SubSeq(c, 1, k))
    BY <2>1, <2>2 DEF Distinct
  <2>6. First(k) \subseteq ToSet(c)
    BY <1>1, <2>1 DEF ToSet
  <2> QED
    BY <2>2, <2>4, <2>5, <2>6
<1> HIDE DEF First
<1>3. N \in T /\ T \in SUBSET Nat
  BY <1>1
<1>4. PICK k \in T : \A j \in T : k <= j
  <2> HIDE DEF T
  <2> QED
    BY <1>3, Least
<1> DEFINE Chosen(x) == Good(x) /\ \A j \in 0..x-1 : ~Enough(j)
           x == CHOOSE y \in 0..N : Chosen(y)
<1>5. k \in 0..N /\ Chosen(k)
  <2>1. k \in 0..N /\ Good(k)
    BY <1>4
  <2>2. ASSUME NEW j \in 0..k-1, Enough(j) PROVE FALSE
    <3>1. j \in 0..N /\ ~(k <= j)
      <4> HIDE DEF T, Good, Enough, N
      <4> QED
        BY <1>1, <2>1
    <3>2. j \in T
      BY <2>2, <3>1
    <3> QED
      BY <1>4, <3>1, <3>2
  <2> HIDE DEF Enough
  <2> QED
    BY <2>1, <2>2
<1>6. x \in 0..N /\ Chosen(x)
  <2> HIDE DEF Chosen
  <2> QED
    BY <1>5
<1>7. Purged(c, n, target) = SubSeq(c, 1, x)
  <2>1. \A y \in 0..N :
          Chosen(y) <=> /\ \/ n - Weight(ToSet(SubSeq(c, 1, y))) <= target
                           \/ y = Len(c)
                        /\ \A j \in 0..y-1 :
                             ~(n - Weight(ToSet(SubSeq(c, 1, j))) <= target)
    <3>1. ASSUME NEW y \in 0..N
          PROVE  \A j \in 0..y-1 : ToSet(SubSeq(c, 1, j)) = First(j)
      <4>1. \A j \in 0..y-1 : j \in 0..N
        <5> HIDE DEF T, Good, Enough, N, x
        <5> QED
          BY <1>1
      <4> QED
        BY <1>2, <4>1
    <3> QED
      BY <1>2, <3>1
  <2>2. x = CHOOSE y \in 0..Len(c) :
              /\ \/ n - Weight(ToSet(SubSeq(c, 1, y))) <= target
                 \/ y = Len(c)
              /\ \A j \in 0..y-1 :
                   ~(n - Weight(ToSet(SubSeq(c, 1, j))) <= target)
    <3> HIDE DEF Chosen
    <3> QED
      BY <2>1
  <2> HIDE DEF x
  <2> QED
    BY <2>2 DEF Purged
<1> HIDE DEF x
<1>8. Good(x) /\ \A j \in 0..x-1 : ~Enough(j)
  BY <1>6
<1>9. /\ Purged(c, n, target) \in Seq(Md5s) /\ Distinct(Purged(c, n, target))
      /\ ToSet(Purged(c, n, target)) = First(x) /\ First(x) \subseteq ToSet(c)
  BY <1>2, <1>6, <1>7
<1> QED
  BY <1>6, <1>8, <1>9 DEF First

(* An object that fits at all is not purged to make room for itself, and   *)
(* what is left is no more than asked for.                                 *)
LEMMA PurgedForOne ==
  ASSUME NEW c \in Seq(Md5s), Distinct(c), NEW m \in Md5s, m \notin ToSet(c),
         NEW n, n = Weight(ToSet(Append(c, m))), NEW target \in Nat,
         NEW gone, gone = Purged(Append(c, m), n, target)
  PROVE  /\ n - Weight(ToSet(gone)) <= target
         /\ FileSize[m] <= target => m \notin ToSet(gone)
<1> DEFINE d == Append(c, m)
           N == Len(d)
<1>1. /\ Len(c) \in Nat /\ d \in Seq(Md5s) /\ N = Len(c) + 1 /\ d[N] = m
      /\ DOMAIN d = 1..N /\ DOMAIN c = 1..Len(c)
      /\ \A i \in 1..Len(c) : d[i] = c[i]
  BY AppendProperties, LenProperties
<1>2. Distinct(d) /\ ToSet(d) = ToSet(c) \cup {m}
  BY <1>1, AppendDistinct, AppendMembers DEF ToSet
<1>3. ToSet(d) \in SUBSET Md5s /\ ToSet(c) \in SUBSET Md5s /\ FileSize[m] \in Nat
  BY <1>1, <1>2, KeysBounded, ObjectCacheAssumption
<1>4. n \in Nat /\ n = FileSize[m] + Weight(ToSet(c)) /\ Weight(ToSet(c)) \in Nat
  <2>1. ToSet(d) \ {m} = ToSet(c) /\ m \in ToSet(d)
    BY <1>2
  <2>2. Weight(ToSet(d)) = FileSize[m] + Weight(ToSet(d) \ {m})
    BY <1>3, <2>1, WeightWith
  <2>3. Weight(ToSet(d)) \in Nat /\ Weight(ToSet(c)) \in Nat
    BY <1>3, WeightWith
  <2> QED
    BY <2>1, <2>2, <2>3
<1> HIDE DEF d, N
<1>5. PICK k \in 0..N :
        /\ ToSet(gone) = {d[i] : i \in 1..k}
        /\ n - Weight({d[i] : i \in 1..k}) <= target \/ k = N
        /\ \A j \in 0..k-1 : ~(n - Weight({d[i] : i \in 1..j}) <= target)
  BY <1>1, <1>2, <1>4, PurgedIs DEF d, N
<1>6. n - Weight(ToSet(gone)) <= target
  <2>1. CASE k = N
    <3>1. ToSet(gone) = ToSet(d)
      BY <1>1, <1>5, <2>1 DEF ToSet
    <3>2. n - n <= target
      BY <1>4
    <3> QED
      BY <3>1, <3>2 DEF d
  <2> QED
    BY <1>5, <2>1
<1>7. ASSUME FileSize[m] <= target, m \in ToSet(gone) PROVE FALSE
  <2>1. PICK i \in 1..k : d[i] = m
    BY <1>5, <1>7
  <2>2. i \in 1..N /\ N \in 1..N
    BY <1>1
  <2>3. i = N
    BY <1>1, <1>2, <2>1, <2>2 DEF Distinct, N
  <2>4. Len(c) \in 0..k-1
    BY <1>1, <2>3
  <2>5. {d[j] : j \in 1..Len(c)} = ToSet(c)
    BY <1>1 DEF ToSet
  <2>6. ~(n - Weight(ToSet(c)) <= target)
    BY <1>5, <2>4, <2>5
  <2> QED
    BY <1>3, <1>4, <1>7, <2>6
<1> QED
  BY <1>6, <1>7

WritingIn(f, w) == {m \in Md5s : f[w][m] # "closed"}

(* What is cached is written by nobody, and no file has two writers. *)
Apart(C, f) ==
  /\ WritingIn(f, "old") = {}
  /\ \A w \in Writers : C \cap WritingIn(f, w) = {}
  /\ \A v, w \in Writers : v # w => WritingIn(f, v) \cap WritingIn(f, w) = {}

(* No writer goes on in a file that another has truncated. *)
Uncut(f, d) ==
  \A w \in Writers, m \in Md5s :
    f[w][m] # "closed" => f[w][m] # "cut" /\ d[m] # "torn"

Undamaged(C, n, f, d) ==
  /\ \A m \in C : d[m] = "whole"
  /\ n = Weight(C) /\ Apart(C, f) /\ Uncut(f, d)

HeldBy(c, n) ==
  /\ c \in [Instances -> Seq(Md5s)] /\ n \in [Instances -> Nat]
  /\ \A i \in Instances : Holding(c[i], n[i])

RestTyped(f, d, l, w, k) ==
  /\ f \in [Writers -> [Md5s -> Handles]]
  /\ d \in [Md5s -> Contents]
  /\ l \in {"fresh", "down", "up"} /\ w \in Seq(Message) /\ k \in Views

Counted(mu, s, n) == mu \in BOOLEAN /\ s \in 0..MaxStops /\ n \in 0..MaxFetches

CacheInv ==
  /\ HeldBy(cache, size) /\ RestTyped(fd, disk, link, wire, known)
  /\ Counted(muddled, stops, fetches)
  /\ ~muddled => Undamaged(Cached("now"), size["now"], fd, disk)
  /\ ~muddled /\ link = "up" =>
       FoldLeft(Learn, known, wire) = Listed(Cached("now"))

(* The invariant says what the runs check. *)
LEMMA CacheInvImplies ==
  CacheInv => CachedIsOnDisk /\ SchedulerKnows
<1> SUFFICES ASSUME CacheInv PROVE CachedIsOnDisk /\ SchedulerKnows
  OBVIOUS
<1>1. cache \in [Instances -> SeqOf(Md5s, Cardinality(Md5s))]
  BY KeysBounded DEF CacheInv, HeldBy, Holding
<1>2. CacheTypeOK
  BY <1>1 DEF CacheTypeOK, CacheInv, HeldBy, RestTyped, Counted, Views
<1>3. ~muddled => /\ \A m \in Cached("now") : disk[m] = "whole"
                  /\ size["now"] = Weight(Cached("now"))
  BY DEF CacheInv, Undamaged
<1>4. SchedulerKnows
  BY DEF SchedulerKnows, CacheInv, Listed
<1> QED
  BY <1>2, <1>3, <1>4 DEF CachedIsOnDisk

(* An instance without keys, and handles that are closed. *)
LEMMA StartsEmpty ==
  /\ Holding(<<>>, 0) /\ ToSet(<<>>) = {} /\ Weight({}) = 0
  /\ [w \in Writers |-> Closed] \in [Writers -> [Md5s -> Handles]]
  /\ \A w \in Writers : WritingIn([v \in Writers |-> Closed], w) = {}
<1> DEFINE e == <<>>
<1>1. e \in Seq(Md5s) /\ Distinct(e) /\ ToSet(e) = {} /\ Weight({}) = 0
  <2>1. e \in Seq(Md5s) /\ Len(e) = 0 /\ DOMAIN e = 1..0
    BY EmptySeq, LenProperties
  <2> HIDE DEF e
  <2>2. Distinct(e) /\ ToSet(e) = {}
    BY <2>1 DEF Distinct, ToSet
  <2> QED
    BY <2>1, <2>2, WeightWith
<1> HIDE DEF e
<1>2. Holding(e, 0)
  <2>1. 0 \in Nat /\ 0 <= 0
    OBVIOUS
  <2> QED
    BY <1>1, <2>1 DEF Holding
<1>3. Closed \in [Md5s -> Handles] /\ \A m \in Md5s : Closed[m] = "closed"
  BY DEF Closed, Handles
<1>4. /\ [w \in Writers |-> Closed] \in [Writers -> [Md5s -> Handles]]
      /\ \A w \in Writers : WritingIn([v \in Writers |-> Closed], w) = {}
  BY <1>3 DEF WritingIn
<1> QED
  BY <1>1, <1>2, <1>4 DEF e

(* It holds at first, when there are files but no instance. *)
LEMMA CacheInitial == CacheInit => CacheInv
<1> SUFFICES ASSUME CacheInit PROVE CacheInv
  OBVIOUS
<1>1. \A i \in Instances : cache[i] = <<>> /\ size[i] = 0
  BY DEF CacheInit
<1>2. \A w \in Writers, m \in Md5s : fd[w][m] = "closed"
  BY DEF CacheInit, Closed
<1>3. HeldBy(cache, size)
  <2>1. Holding(<<>>, 0) /\ <<>> \in Seq(Md5s) /\ 0 \in Nat
    BY StartsEmpty, EmptySeq
  <2> QED
    BY <1>1, <2>1 DEF CacheInit, HeldBy
<1>6. RestTyped(fd, disk, link, wire, known)
  <2>1. fd \in [Writers -> [Md5s -> Handles]] /\ known \in Views
    BY DEF CacheInit, Closed, Handles, Views
  <2>2. disk \in [Md5s -> Contents]
    BY DEF CacheInit
  <2>3. wire \in Seq(Message) /\ link \in {"fresh", "down", "up"}
    BY EmptySeq DEF CacheInit
  <2> QED
    BY <2>1, <2>2, <2>3 DEF RestTyped
<1>7. Counted(muddled, stops, fetches)
  <2>1. 0 \in 0..MaxStops /\ 0 \in 0..MaxFetches
    BY ObjectCacheAssumption
  <2> QED
    BY <2>1 DEF Counted, CacheInit
<1>8. Cached("now") = {} /\ size["now"] = 0
  BY <1>1, StartsEmpty DEF Cached, Instances
<1>9. Undamaged(Cached("now"), size["now"], fd, disk)
  <2>1. \A w \in Writers : WritingIn(fd, w) = {}
    BY <1>2 DEF WritingIn
  <2>2. Apart({}, fd)
    BY <2>1 DEF Apart, Writers, Instances
  <2>3. Uncut(fd, disk)
    BY <1>2 DEF Uncut
  <2> QED
    BY <1>8, <2>2, <2>3, StartsEmpty DEF Undamaged
<1>10. link # "up"
  BY DEF CacheInit
<1> QED
  BY <1>3, <1>6, <1>7, <1>9, <1>10 DEF CacheInv

-----------------------------------------------------------------------------
(* Files are removed ... *)
LEMMA FilesErased ==
  ASSUME NEW d \in [Md5s -> Contents], NEW S
  PROVE  /\ Erase(d, S) \in [Md5s -> Contents]
         /\ \A m \in Md5s : Erase(d, S)[m] = IF m \in S THEN "none" ELSE d[m]
BY DEF Erase, Contents

(* ... and their writers write on. *)
LEMMA HandlesLost ==
  ASSUME NEW f \in [Writers -> [Md5s -> Handles]], NEW S
  PROVE  /\ Lose(f, S) \in [Writers -> [Md5s -> Handles]]
         /\ \A w \in Writers : WritingIn(Lose(f, S), w) = WritingIn(f, w)
         /\ \A w \in Writers, m \in Md5s :
              Lose(f, S)[w][m]
                = IF m \in S /\ f[w][m] # "closed" THEN "lost" ELSE f[w][m]
<1>1. \A w \in Writers, m \in Md5s :
        Lose(f, S)[w][m] = IF m \in S /\ f[w][m] # "closed" THEN "lost" ELSE f[w][m]
  BY DEF Lose
<1>2. \A w \in Writers, m \in Md5s : f[w][m] \in Handles
  OBVIOUS
<1>3. Lose(f, S) \in [Writers -> [Md5s -> Handles]]
  BY <1>2 DEF Lose, Handles
<1>4. \A w \in Writers, m \in Md5s :
        Lose(f, S)[w][m] # "closed" <=> f[w][m] # "closed"
  BY <1>1
<1> QED
  BY <1>1, <1>3, <1>4 DEF WritingIn

(* No handle is cut and no file torn by a removal. *)
LEMMA StaysUncut ==
  ASSUME NEW f \in [Writers -> [Md5s -> Handles]], NEW d \in [Md5s -> Contents],
         NEW S, Uncut(f, d)
  PROVE  Uncut(Lose(f, S), Erase(d, S))
<1>1. \A w \in Writers, m \in Md5s :
        /\ Lose(f, S)[w][m]
             = IF m \in S /\ f[w][m] # "closed" THEN "lost" ELSE f[w][m]
        /\ Erase(d, S)[m] = IF m \in S THEN "none" ELSE d[m]
  BY FilesErased, HandlesLost
<1>2. \A w \in Writers, m \in Md5s :
        f[w][m] # "closed" => f[w][m] # "cut" /\ d[m] # "torn"
  BY DEF Uncut
<1>3. \A w \in Writers, m \in Md5s :
        Lose(f, S)[w][m] # "closed"
          => Lose(f, S)[w][m] # "cut" /\ Erase(d, S)[m] # "torn"
  BY <1>1, <1>2
<1> QED
  BY <1>3 DEF Uncut

(* A handle is closed. *)
LEMMA Closes ==
  ASSUME RestTyped(fd, disk, link, wire, known), NEW w \in Writers, NEW m \in Md5s
  PROVE  /\ Close(w, m) \in [Writers -> [Md5s -> Handles]]
         /\ WritingIn(Close(w, m), w) = Writing(w) \ {m}
         /\ \A v \in Writers : v # w => WritingIn(Close(w, m), v) = Writing(v)
         /\ Uncut(fd, disk) => Uncut(Close(w, m), disk)
<1> DEFINE f == Close(w, m)
<1>1. fd \in [Writers -> [Md5s -> Handles]] /\ "closed" \in Handles
  BY DEF RestTyped, Handles
<1>2. f \in [Writers -> [Md5s -> Handles]]
  BY <1>1 DEF Close
<1>3. \A v \in Writers, x \in Md5s :
        f[v][x] = IF v = w /\ x = m THEN "closed" ELSE fd[v][x]
  BY <1>1 DEF Close
<1> HIDE DEF f
<1>4. Uncut(fd, disk) => Uncut(f, disk)
  BY <1>3 DEF Uncut
<1>5. /\ WritingIn(f, w) = Writing(w) \ {m}
      /\ \A v \in Writers : v # w => WritingIn(f, v) = Writing(v)
  BY <1>3 DEF WritingIn, Writing
<1> QED
  BY <1>2, <1>4, <1>5 DEF f

(* Only files and handles change. *)
LEMMA FilesStep ==
  ASSUME CacheInv, UNCHANGED <<cache, size, link, wire, known, stops>>,
         fd' \in [Writers -> [Md5s -> Handles]],
         disk' \in [Md5s -> Contents],
         fetches' \in 0..MaxFetches, muddled' \in BOOLEAN,
         ~muddled' => ~muddled /\ Undamaged(Cached("now"), size["now"], fd', disk')
  PROVE  CacheInv'
<1>1. HeldBy(cache', size') /\ Cached("now")' = Cached("now")
  BY DEF CacheInv, Cached
<1>2. RestTyped(fd', disk', link', wire', known')
  BY DEF CacheInv, RestTyped
<1>3. Counted(muddled', stops', fetches')
  BY DEF CacheInv, Counted
<1>4. ~muddled' => Undamaged(Cached("now")', size'["now"], fd', disk')
  BY <1>1
<1>5. ~muddled' /\ link' = "up" =>
        FoldLeft(Learn, known', wire') = Listed(Cached("now")')
  BY <1>1 DEF CacheInv
<1> QED
  BY <1>1, <1>2, <1>3, <1>4, <1>5 DEF CacheInv

(* Objects join or leave instance i. *)
LEMMA EvictStep ==
  ASSUME CacheInv, NEW i \in Instances, NEW c, NEW n, Holding(c, n),
         NEW gone \in Seq(Md5s), Distinct(gone), ToSet(gone) \subseteq ToSet(c),
         NEW msgs \in Seq(Message), NEW f \in [Writers -> [Md5s -> Handles]],
         Evict(i, c, n, gone, msgs, f),
         UNCHANGED <<link, known, muddled, fetches, stops>>,
         ~muddled => i = "now" /\ Undamaged(ToSet(c), n, f, disk),
         ~muddled /\ link = "up" =>
           FoldLeft(Learn, FoldLeft(Learn, known, wire), msgs) = Listed(ToSet(c))
  PROVE  CacheInv'
<1> DEFINE G == ToSet(gone)
           r == Without(c, G)
           l == n - Weight(G)
<1>1. /\ Holding(r, l) /\ ToSet(r) = ToSet(c) \ G
      /\ Weight(ToSet(r)) = Weight(ToSet(c)) - Weight(G)
  BY HoldingLess
<1>2. /\ cache' = [cache EXCEPT ![i] = r] /\ size' = [size EXCEPT ![i] = l]
      /\ disk' = Erase(disk, G) /\ fd' = Lose(f, G)
      /\ wire' = IF link = "up" THEN wire \o (msgs \o Removed(gone)) ELSE wire
  BY DEF Evict, Send
<1>3. ToSet(c) \in SUBSET Md5s
  BY KeysBounded DEF Holding
<1>h. HeldBy(cache, size) /\ RestTyped(fd, disk, link, wire, known)
  BY DEF CacheInv
<1> HIDE DEF r, l
<1>4. HeldBy(cache', size')
  <2>1. r \in Seq(Md5s) /\ l \in Nat
    BY <1>1 DEF Holding
  <2>2. cache' \in [Instances -> Seq(Md5s)] /\ size' \in [Instances -> Nat]
    BY <1>2, <1>h, <2>1 DEF HeldBy
  <2>3. ASSUME NEW j \in Instances PROVE Holding(cache'[j], size'[j])
    <3>1. CASE j = i
      <4>1. cache'[j] = r /\ size'[j] = l
        BY <1>2, <1>h, <3>1 DEF HeldBy
      <4> QED
        BY <1>1, <4>1
    <3>2. CASE j # i
      <4>1. cache'[j] = cache[j] /\ size'[j] = size[j]
        BY <1>2, <1>h, <3>2 DEF HeldBy
      <4> QED
        BY <1>h, <4>1 DEF HeldBy
    <3> QED
      BY <3>1, <3>2
  <2> QED
    BY <2>2, <2>3 DEF HeldBy
<1>5. /\ disk' \in [Md5s -> Contents]
      /\ \A m \in Md5s : disk'[m] = IF m \in G THEN "none" ELSE disk[m]
      /\ fd' \in [Writers -> [Md5s -> Handles]]
      /\ \A w \in Writers : WritingIn(fd', w) = WritingIn(f, w)
  <2>1. disk \in [Md5s -> Contents]
    BY <1>h DEF RestTyped
  <2> HIDE DEF G
  <2> QED
    BY <1>2, <2>1, FilesErased, HandlesLost
<1>6. Removed(gone) \in Seq(Message)
  BY <1>3, ToldRemoved
<1>7. wire' \in Seq(Message)
  <2>1. wire \in Seq(Message)
    BY <1>h DEF RestTyped
  <2>2. msgs \o Removed(gone) \in Seq(Message)
    BY <1>6, ConcatProperties
  <2>3. wire \o (msgs \o Removed(gone)) \in Seq(Message)
    BY <2>1, <2>2, ConcatProperties
  <2> QED
    BY <1>2, <2>1, <2>3
<1>8. RestTyped(fd', disk', link', wire', known')
  BY <1>5, <1>7, <1>h DEF RestTyped
<1>9. Counted(muddled', stops', fetches')
  BY DEF CacheInv, Counted
<1>10. ~muddled => /\ Cached("now")' = ToSet(c) \ G /\ size'["now"] = l
                   /\ l = Weight(ToSet(c) \ G)
  <2>1. ASSUME ~muddled PROVE /\ Cached("now")' = ToSet(r) /\ size'["now"] = l
                              /\ l = Weight(ToSet(r))
    <3>1. i = "now" /\ n = Weight(ToSet(c))
      BY <2>1 DEF Undamaged
    <3>2. cache'["now"] = r /\ size'["now"] = l
      BY <1>2, <1>h, <3>1 DEF HeldBy, Instances
    <3> QED
      BY <1>1, <3>1, <3>2 DEF Cached, l
  <2> QED
    BY <1>1, <2>1
<1>11. ~muddled' => Undamaged(Cached("now")', size'["now"], fd', disk')
  <2> SUFFICES ASSUME ~muddled PROVE Undamaged(ToSet(c) \ G, l, fd', disk')
    BY <1>10
  <2>1. \A m \in ToSet(c) : disk[m] = "whole"
    BY DEF Undamaged
  <2>2. \A m \in ToSet(c) \ G : disk'[m] = "whole"
    BY <1>3, <1>5, <2>1
  <2>3. Apart(ToSet(c), f)
    BY DEF Undamaged
  <2>4. Apart(ToSet(c) \ G, fd')
    <3>1. /\ \A w \in Writers : WritingIn(fd', w) = WritingIn(f, w)
          /\ "old" \in Writers
      BY <1>5 DEF Writers, Instances
    <3> HIDE DEF G
    <3> QED
      BY <2>3, <3>1 DEF Apart
  <2>5. Uncut(fd', disk')
    <3>1. Uncut(f, disk) /\ disk \in [Md5s -> Contents]
      BY <1>h DEF Undamaged, RestTyped
    <3> HIDE DEF G
    <3>2. Uncut(Lose(f, G), Erase(disk, G))
      BY <3>1, StaysUncut
    <3> QED
      BY <1>2, <3>2
  <2> QED
    BY <1>10, <2>2, <2>4, <2>5 DEF Undamaged
<1>12. ASSUME ~muddled', link' = "up"
       PROVE  FoldLeft(Learn, known', wire') = Listed(Cached("now")')
  <2> DEFINE x == FoldLeft(Learn, known, wire)
  <2>1. /\ wire \in Seq(Message) /\ known \in Views /\ link = "up" /\ ~muddled
        /\ known' = known /\ wire' = wire \o (msgs \o Removed(gone))
    BY <1>2, <1>12, <1>h DEF RestTyped
  <2>2. x \in Views
    BY <2>1, CourseTaken
  <2>3. msgs \o Removed(gone) \in Seq(Message)
    BY <1>6, ConcatProperties
  <2>4. FoldLeft(Learn, known, wire') = FoldLeft(Learn, x, msgs \o Removed(gone))
    BY <2>1, <2>3, ToldMore
  <2>5. FoldLeft(Learn, x, msgs) = Listed(ToSet(c))
    BY <2>1
  <2> HIDE DEF x
  <2>6. FoldLeft(Learn, x, msgs \o Removed(gone))
          = FoldLeft(Learn, FoldLeft(Learn, x, msgs), Removed(gone))
    BY <1>6, <2>2, ToldMore
  <2>7. FoldLeft(Learn, Listed(ToSet(c)), Removed(gone)) = Listed(ToSet(c) \ G)
    BY <1>3, ToldRemoved
  <2>8. Cached("now")' = ToSet(c) \ G
    BY <1>10, <2>1
  <2> QED
    BY <2>1, <2>4, <2>5, <2>6, <2>7, <2>8
<1> QED
  BY <1>4, <1>8, <1>9, <1>11, <1>12 DEF CacheInv

(* A file is created, or truncated. *)
LEMMA OpenKeeps ==
  ASSUME CacheInv, NEW w \in Writers, w # "old", NEW m \in Md5s, Open(w, m),
         UNCHANGED <<cache, size, link, wire, known, stops>>,
         fetches' \in 0..MaxFetches, muddled' \in BOOLEAN,
         ~muddled' => ~muddled /\ m \notin Cached("now") /\ ~BeingWritten(m)
  PROVE  CacheInv'
<1>1. RestTyped(fd, disk, link, wire, known)
  BY DEF CacheInv
<1>2. fd \in [Writers -> [Md5s -> Handles]] /\ disk \in [Md5s -> Contents]
  BY <1>1 DEF RestTyped
<1>3. ASSUME NEW v \in Writers
      PROVE  \E h \in Handles :
               /\ fd'[v] = [fd[v] EXCEPT ![m] = h]
               /\ v = w => h = "open"
               /\ v # w /\ fd[v][m] = "closed" => h = "closed"
  <2>1. CASE v = w
    <3>1. fd'[v] = [fd[v] EXCEPT ![m] = "open"]
      BY <2>1 DEF Open
    <3> QED
      BY <2>1, <3>1 DEF Handles
  <2>2. CASE v # w
    <3>1. PICK h : h = IF fd[v][m] = "open" THEN "cut" ELSE fd[v][m]
      OBVIOUS
    <3>2. fd'[v] = [fd[v] EXCEPT ![m] = h]
      BY <2>2, <3>1 DEF Open
    <3>3. fd[v][m] \in Handles
      BY <1>2
    <3>4. h \in Handles
      BY <3>1, <3>3 DEF Handles
    <3> QED
      BY <2>2, <3>1, <3>2, <3>4
  <2> QED
    BY <2>1, <2>2
<1>4. fd' \in [Writers -> [Md5s -> Handles]]
  <2>1. ASSUME NEW v \in Writers PROVE fd'[v] \in [Md5s -> Handles]
    <3>1. PICK h \in Handles : fd'[v] = [fd[v] EXCEPT ![m] = h]
      BY <1>3
    <3>2. fd[v] \in [Md5s -> Handles]
      BY <1>2
    <3> QED
      BY <3>1, <3>2
  <2>2. fd' = [v \in Writers |-> fd'[v]]
    BY DEF Open
  <2> QED
    BY <2>1, <2>2
<1>5. disk' \in [Md5s -> Contents] /\ \A x \in Md5s :
        disk'[x] = IF x = m THEN "partial" ELSE disk[x]
  BY <1>2 DEF Open, Contents
<1>6. ASSUME ~muddled'
      PROVE  ~muddled /\ Undamaged(Cached("now"), size["now"], fd', disk')
  <2>1. ~muddled /\ m \notin Cached("now") /\ \A v \in Writers : fd[v][m] = "closed"
    BY <1>6 DEF BeingWritten, Writing
  <2>2. Undamaged(Cached("now"), size["now"], fd, disk)
    BY <2>1 DEF CacheInv
  <2>3. Cached("now") \in SUBSET Md5s
    BY KeysBounded DEF CacheInv, HeldBy, Holding, Instances, Cached
  <2>4. \A x \in Cached("now") : disk'[x] = "whole"
    BY <1>5, <2>1, <2>2, <2>3 DEF Undamaged
  <2>5. \A v \in Writers, x \in Md5s :
          fd'[v][x] = IF v = w /\ x = m THEN "open" ELSE fd[v][x]
    <3> SUFFICES ASSUME NEW v \in Writers, NEW x \in Md5s
                 PROVE  fd'[v][x] = IF v = w /\ x = m THEN "open" ELSE fd[v][x]
      OBVIOUS
    <3>1. PICK h \in Handles :
            /\ fd'[v] = [fd[v] EXCEPT ![m] = h]
            /\ v = w => h = "open"
            /\ v # w /\ fd[v][m] = "closed" => h = "closed"
      BY <1>3
    <3>2. fd[v] \in [Md5s -> Handles] /\ fd[v][m] = "closed"
      BY <1>2, <2>1
    <3>3. fd'[v][x] = IF x = m THEN h ELSE fd[v][x]
      BY <3>1, <3>2
    <3> QED
      BY <3>1, <3>2, <3>3
  <2>6. /\ WritingIn(fd', w) = WritingIn(fd, w) \cup {m}
        /\ \A v \in Writers : v # w => WritingIn(fd', v) = WritingIn(fd, v)
        /\ \A v \in Writers : m \notin WritingIn(fd, v)
    BY <2>1, <2>5 DEF WritingIn
  <2>7. Apart(Cached("now"), fd')
    <3>1. Apart(Cached("now"), fd) /\ "old" \in Writers
      BY <2>2 DEF Undamaged, Writers, Instances
    <3>2. WritingIn(fd', "old") = {}
      BY <2>6, <3>1 DEF Apart
    <3>3. \A v \in Writers : Cached("now") \cap WritingIn(fd', v) = {}
      BY <2>1, <2>6, <3>1 DEF Apart
    <3>4. \A u, v \in Writers : u # v => WritingIn(fd', u) \cap WritingIn(fd', v) = {}
      BY <2>6, <3>1 DEF Apart
    <3> QED
      BY <3>2, <3>3, <3>4 DEF Apart
  <2>8. Uncut(fd', disk')
    <3>1. \A v \in Writers, x \in Md5s :
            fd[v][x] # "closed" => fd[v][x] # "cut" /\ disk[x] # "torn"
      BY <2>2 DEF Undamaged, Uncut
    <3> QED
      BY <1>5, <2>5, <3>1 DEF Uncut
  <2> QED
    BY <2>1, <2>2, <2>4, <2>7, <2>8 DEF Undamaged
<1> QED
  BY <1>4, <1>5, <1>6, FilesStep

(* An add creates its file where nothing was cached. *)
LEMMA AddStartsKeeps ==
  ASSUME CacheInv, NEW m \in Md5s, AddStarts(m) PROVE CacheInv'
<1>1. Counted(muddled, stops, fetches)
  BY DEF CacheInv
<1>2. /\ muddled' \in BOOLEAN /\ fetches' \in 0..MaxFetches
      /\ UNCHANGED <<cache, size, link, wire, known, stops>> /\ Open("now", m)
      /\ ~muddled' => ~muddled /\ m \notin Cached("now") /\ ~BeingWritten(m)
  BY <1>1 DEF AddStarts, Counted
<1>3. "now" \in Writers /\ "now" # "old"
  BY DEF Writers, Instances
<1> QED
  BY <1>2, <1>3, OpenKeeps

(* A download begins; if it meets the object, or another writer, that is   *)
(* noted.                                                                  *)
LEMMA FetchStartsKeeps ==
  ASSUME CacheInv, NEW w \in Streams, NEW m \in Md5s, FetchStarts(w, m)
  PROVE  CacheInv'
<1>1. Counted(muddled, stops, fetches)
  BY DEF CacheInv
<1>2. muddled' \in BOOLEAN /\ fetches' \in 0..MaxFetches
  <2>1. fetches \in 0..MaxFetches /\ fetches < MaxFetches /\ fetches' = fetches + 1
    BY <1>1 DEF FetchStarts, Counted
  <2>2. fetches' \in 0..MaxFetches
    BY <2>1, ObjectCacheAssumption
  <2> QED
    BY <1>1, <2>2 DEF FetchStarts, Counted
<1>3. /\ UNCHANGED <<cache, size, link, wire, known, stops>> /\ Open(w, m)
      /\ ~muddled' => ~muddled /\ m \notin Cached("now") /\ ~BeingWritten(m)
  BY DEF FetchStarts
<1>4. w \in Writers /\ w # "old"
  BY ObjectCacheAssumption DEF Writers
<1> QED
  BY <1>2, <1>3, <1>4, OpenKeeps

(* A file becomes whole, which the cached ones are already. *)
LEMMA FlushKeeps ==
  ASSUME CacheInv, NEW w \in Writers, NEW m \in Md5s, Flush(w, m) PROVE CacheInv'
<1>1. RestTyped(fd, disk, link, wire, known) /\ Counted(muddled, stops, fetches)
  BY DEF CacheInv
<1>2. disk' \in [Md5s -> Contents] /\ fd' = fd
  BY <1>1 DEF Flush, RestTyped, Contents
<1>3. ASSUME ~muddled'
      PROVE  ~muddled /\ Undamaged(Cached("now"), size["now"], fd', disk')
  <2>1. ~muddled
    BY <1>3 DEF Flush
  <2>2. Undamaged(Cached("now"), size["now"], fd, disk)
    BY <2>1 DEF CacheInv
  <2>3. Cached("now") \in SUBSET Md5s
    BY KeysBounded DEF CacheInv, HeldBy, Holding, Instances, Cached
  <2>4. \A v \in Writers, x \in Md5s :
          fd[v][x] # "closed" => fd[v][x] # "cut" /\ disk[x] # "torn"
    BY <2>2 DEF Undamaged, Uncut
  <2>5. disk' = [disk EXCEPT ![m] = "whole"]
    BY <2>4 DEF Flush
  <2>6. \A x \in Md5s : disk'[x] = IF x = m THEN "whole" ELSE disk[x]
    BY <1>1, <2>5 DEF RestTyped
  <2>7. \A x \in Cached("now") : disk'[x] = "whole"
    BY <2>2, <2>3, <2>6 DEF Undamaged
  <2>8. Uncut(fd', disk')
    BY <1>2, <2>4, <2>6 DEF Uncut
  <2> QED
    BY <1>2, <2>1, <2>2, <2>7, <2>8 DEF Undamaged
<1>4. /\ UNCHANGED <<cache, size, link, wire, known, stops>>
      /\ muddled' \in BOOLEAN /\ fetches' \in 0..MaxFetches
  BY <1>1 DEF Flush, Counted
<1> QED
  BY <1>1, <1>2, <1>3, <1>4, FilesStep DEF RestTyped

(* A handle is closed, of a file that stays or is removed. *)
LEMMA CloseKeeps ==
  ASSUME CacheInv, NEW w \in Writers, NEW m \in Writing(w),
         UNCHANGED <<cache, size, link, wire, known, muddled, fetches, stops>>,
         \/ disk' = disk /\ fd' = Close(w, m)
         \/ Reject(w, m)
  PROVE  CacheInv'
<1>1. RestTyped(fd, disk, link, wire, known) /\ Counted(muddled, stops, fetches)
  BY DEF CacheInv
<1> DEFINE f == Close(w, m)
<1>2. m \in Md5s
  BY DEF Writing
<1>3. /\ f \in [Writers -> [Md5s -> Handles]]
      /\ WritingIn(f, w) = Writing(w) \ {m}
      /\ \A v \in Writers : v # w => WritingIn(f, v) = Writing(v)
      /\ Uncut(fd, disk) => Uncut(f, disk)
  BY <1>1, <1>2, Closes
<1> HIDE DEF f
<1>4. /\ fd' \in [Writers -> [Md5s -> Handles]]
      /\ \A v \in Writers : WritingIn(fd', v) = WritingIn(f, v)
      /\ disk' \in [Md5s -> Contents]
      /\ \A x \in Md5s : x # m => disk'[x] = disk[x]
      /\ Uncut(f, disk) => Uncut(fd', disk')
  <2>1. disk \in [Md5s -> Contents]
    BY <1>1 DEF RestTyped
  <2>2. CASE disk' = disk /\ fd' = Close(w, m)
    BY <1>3, <2>1, <2>2 DEF f
  <2>3. CASE Reject(w, m)
    <3>1. disk' = Erase(disk, {m}) /\ fd' = Lose(f, {m})
      BY <2>3 DEF Reject, f
    <3>2. /\ Erase(disk, {m}) \in [Md5s -> Contents]
          /\ \A x \in Md5s : Erase(disk, {m})[x] = IF x \in {m} THEN "none" ELSE disk[x]
          /\ Lose(f, {m}) \in [Writers -> [Md5s -> Handles]]
          /\ \A v \in Writers : WritingIn(Lose(f, {m}), v) = WritingIn(f, v)
          /\ Uncut(f, disk) => Uncut(Lose(f, {m}), Erase(disk, {m}))
      <4>1. PICK S : S = {m}
        OBVIOUS
      <4>2. f \in [Writers -> [Md5s -> Handles]]
        BY <1>3
      <4>3. /\ Erase(disk, S) \in [Md5s -> Contents]
            /\ \A x \in Md5s : Erase(disk, S)[x] = IF x \in S THEN "none" ELSE disk[x]
            /\ Lose(f, S) \in [Writers -> [Md5s -> Handles]]
            /\ \A v \in Writers : WritingIn(Lose(f, S), v) = WritingIn(f, v)
        BY <2>1, <4>2, FilesErased, HandlesLost
      <4>4. Uncut(f, disk) => Uncut(Lose(f, S), Erase(disk, S))
        BY <2>1, <4>2, StaysUncut
      <4> QED
        BY <4>1, <4>3, <4>4
    <3> QED
      BY <3>1, <3>2
  <2> QED
    BY <2>2, <2>3
<1>5. ASSUME ~muddled'
      PROVE  ~muddled /\ Undamaged(Cached("now"), size["now"], fd', disk')
  <2>1. ~muddled
    BY <1>5
  <2>2. Undamaged(Cached("now"), size["now"], fd, disk)
    BY <2>1 DEF CacheInv
  <2>3. Cached("now") \in SUBSET Md5s
    BY KeysBounded DEF CacheInv, HeldBy, Holding, Instances, Cached
  <2>4. \A v \in Writers : WritingIn(fd', v) \subseteq WritingIn(fd, v)
    BY <1>3, <1>4 DEF Writing, WritingIn
  <2>5. m \notin Cached("now")
    BY <1>2, <2>2 DEF Undamaged, Apart, Writing, WritingIn
  <2>6. \A x \in Cached("now") : disk'[x] = "whole"
    BY <1>4, <2>2, <2>3, <2>5 DEF Undamaged
  <2>7. Apart(Cached("now"), fd')
    <3>1. Apart(Cached("now"), fd) /\ "old" \in Writers
      BY <2>2 DEF Undamaged, Writers, Instances
    <3>2. WritingIn(fd', "old") = {}
      BY <2>4, <3>1 DEF Apart
    <3>3. \A v \in Writers : Cached("now") \cap WritingIn(fd', v) = {}
      BY <2>4, <3>1 DEF Apart
    <3>4. \A u, v \in Writers : u # v => WritingIn(fd', u) \cap WritingIn(fd', v) = {}
      BY <2>4, <3>1 DEF Apart
    <3> QED
      BY <3>2, <3>3, <3>4 DEF Apart
  <2>8. Uncut(fd', disk')
    BY <1>3, <1>4, <2>2 DEF Undamaged
  <2> QED
    BY <2>1, <2>2, <2>6, <2>7, <2>8 DEF Undamaged
<1>6. muddled' \in BOOLEAN /\ fetches' \in 0..MaxFetches
  BY <1>1 DEF Counted
<1> QED
  BY <1>4, <1>5, <1>6, FilesStep

-----------------------------------------------------------------------------
(* A file that has been written is cached. *)
LEMMA JoinKeeps ==
  ASSUME CacheInv, NEW i \in Instances, NEW w \in Writers, NEW m \in Writing(w),
         FullLength(m), NEW gone, NEW c, c = WithKey(cache[i], m),
         NEW n, n = size[i] + FileSize[m],
         gone = <<>> \/ gone = Purged(c, n, PurgeSize),
         Evict(i, c, n, gone, Added(m), Close(w, m)),
         UNCHANGED <<link, known, muddled, fetches, stops>>,
         i = "old" => w = "old"
  PROVE  CacheInv'
<1>1. /\ HeldBy(cache, size) /\ RestTyped(fd, disk, link, wire, known)
      /\ Counted(muddled, stops, fetches) /\ m \in Md5s
  BY DEF CacheInv, Writing
<1>2. /\ Holding(c, n)
      /\ m \notin ToSet(cache[i]) /\ size[i] = Weight(ToSet(cache[i]))
           => n = Weight(ToSet(c))
  BY <1>1, HoldingMore DEF HeldBy
<1>3. ToSet(c) = ToSet(cache[i]) \cup {m} /\ ToSet(cache[i]) \in SUBSET Md5s
  BY <1>1, WithKeyIs, KeysBounded DEF HeldBy, Holding
<1>4. gone \in Seq(Md5s) /\ Distinct(gone) /\ ToSet(gone) \subseteq ToSet(c)
  <2>1. CASE gone = <<>>
    <3>1. gone \in Seq(Md5s) /\ Len(gone) = 0 /\ DOMAIN gone = 1..0
      BY <2>1, EmptySeq, LenProperties
    <3> QED
      BY <3>1 DEF Distinct, ToSet
  <2>2. CASE gone = Purged(c, n, PurgeSize)
    <3>1. PurgeSize \in Nat
      BY ObjectCacheAssumption
    <3>2. c \in Seq(Md5s) /\ Distinct(c) /\ n \in Nat
      BY <1>2 DEF Holding
    <3> QED
      BY <2>2, <3>1, <3>2, PurgedIs
  <2> QED
    BY <2>1, <2>2
<1>5. /\ Close(w, m) \in [Writers -> [Md5s -> Handles]]
      /\ WritingIn(Close(w, m), w) = Writing(w) \ {m}
      /\ \A v \in Writers : v # w => WritingIn(Close(w, m), v) = Writing(v)
      /\ Uncut(fd, disk) => Uncut(Close(w, m), disk)
  BY <1>1, Closes
<1>6. ASSUME ~muddled
      PROVE  /\ i = "now" /\ m \notin Cached("now")
             /\ Undamaged(ToSet(c), n, Close(w, m), disk)
  <2>1. Undamaged(Cached("now"), size["now"], fd, disk)
    BY <1>6 DEF CacheInv
  <2>2. /\ Writing("old") = {}
        /\ \A v \in Writers : Cached("now") \cap Writing(v) = {}
        /\ \A u, v \in Writers : u # v => Writing(u) \cap Writing(v) = {}
    BY <2>1 DEF Undamaged, Apart, WritingIn, Writing
  <2>3. i = "now" /\ w # "old" /\ m \notin Cached("now")
    BY <2>2 DEF Instances
  <2>4. n = Weight(ToSet(c)) /\ ToSet(c) = Cached("now") \cup {m}
    BY <1>2, <1>3, <2>1, <2>3 DEF Undamaged, Cached
  <2>5. \A x \in ToSet(c) : disk[x] = "whole"
    <3>1. disk[m] # "torn"
      BY <1>1, <2>1 DEF Undamaged, Uncut, Writing
    <3>2. disk[m] = "whole"
      BY <3>1 DEF FullLength
    <3> QED
      BY <2>1, <2>4, <3>2 DEF Undamaged
  <2>6. Apart(ToSet(c), Close(w, m))
    <3> DEFINE f == Close(w, m)
    <3>1. /\ WritingIn(f, w) = Writing(w) \ {m}
          /\ \A v \in Writers : v # w => WritingIn(f, v) = Writing(v)
          /\ \A v \in Writers : v # w => m \notin Writing(v)
      BY <1>5, <2>2
    <3> HIDE DEF f
    <3>2. WritingIn(f, "old") = {}
      BY <2>2, <2>3, <3>1 DEF Writers, Instances
    <3>3. \A v \in Writers : ToSet(c) \cap WritingIn(f, v) = {}
      BY <2>2, <2>4, <3>1
    <3>4. \A u, v \in Writers : u # v => WritingIn(f, u) \cap WritingIn(f, v) = {}
      BY <2>2, <3>1
    <3>5. Apart(ToSet(c), f)
      BY <3>2, <3>3, <3>4 DEF Apart
    <3> QED
      BY <3>5 DEF f
  <2>7. Uncut(Close(w, m), disk)
    BY <1>5, <2>1 DEF Undamaged
  <2> QED
    BY <2>3, <2>4, <2>5, <2>6, <2>7 DEF Undamaged
<1>7. Added(m) \in Seq(Message)
  BY <1>1, AddedTyped
<1>8. ASSUME ~muddled, link = "up"
      PROVE  FoldLeft(Learn, FoldLeft(Learn, known, wire), Added(m)) = Listed(ToSet(c))
  <2>1. FoldLeft(Learn, known, wire) = Listed(Cached("now"))
    BY <1>8 DEF CacheInv
  <2>2. /\ m \in Md5s \ Cached("now") /\ Cached("now") \in SUBSET Md5s
        /\ ToSet(c) = Cached("now") \cup {m}
    BY <1>1, <1>3, <1>6, <1>8 DEF Cached
  <2>3. FoldLeft(Learn, Listed(Cached("now")), Added(m)) = Listed(Cached("now") \cup {m})
    BY <2>2, ToldAdded
  <2> QED
    BY <2>1, <2>2, <2>3
<1>9. /\ ~muddled => i = "now" /\ Undamaged(ToSet(c), n, Close(w, m), disk)
      /\ ~muddled /\ link = "up" =>
           FoldLeft(Learn, FoldLeft(Learn, known, wire), Added(m)) = Listed(ToSet(c))
  BY <1>6, <1>8
<1> QED
  BY <1>2, <1>4, <1>5, <1>7, <1>9, EvictStep

(* add() ends: the object joins and others make way, or it is rejected. *)
LEMMA WriteEndsKeeps ==
  ASSUME CacheInv, NEW i \in Instances, NEW m \in Md5s, WriteEnds(i, m)
  PROVE  CacheInv'
<1>1. /\ m \in Writing(i) /\ i \in Writers
      /\ UNCHANGED <<link, known, muddled, fetches, stops>>
  BY DEF WriteEnds, Writers
<1>2. CASE FullLength(m) /\ Accept(i, m)
  <2>1. PICK c, n, gone :
          /\ c = WithKey(cache[i], m) /\ n = size[i] + FileSize[m]
          /\ gone = <<>> \/ gone = Purged(c, n, PurgeSize)
          /\ Evict(i, c, n, gone, Added(m), Close(i, m))
    BY <1>2 DEF Accept
  <2> QED
    BY <1>1, <1>2, <2>1, JoinKeeps
<1>3. CASE Reject(i, m)
  <2>1. UNCHANGED <<cache, size, wire>>
    BY <1>3 DEF Reject
  <2> QED
    BY <1>1, <1>3, <2>1, CloseKeeps
<1> QED
  BY <1>2, <1>3 DEF WriteEnds

(* A download ends in the same ways; nothing makes way. *)
LEMMA FetchEndsKeeps ==
  ASSUME CacheInv, NEW w \in Streams, NEW m \in Md5s, FetchEnds(w, m)
  PROVE  CacheInv'
<1>1. /\ m \in Writing(w) /\ w \in Writers /\ "now" \in Instances
      /\ UNCHANGED <<link, known, muddled, fetches, stops>>
  BY DEF FetchEnds, Writers, Instances
<1>2. CASE FullLength(m) /\ Load(w, m)
  <2>1. PICK c, n, gone :
          /\ c = WithKey(cache["now"], m) /\ n = size["now"] + FileSize[m]
          /\ gone = <<>>
          /\ Evict("now", c, n, gone, Added(m), Close(w, m))
    BY <1>2 DEF Load
  <2>2. "now" # "old"
    OBVIOUS
  <2> QED
    BY <1>1, <1>2, <2>1, <2>2, JoinKeeps
<1>3. CASE Reject(w, m)
  <2>1. UNCHANGED <<cache, size, wire>>
    BY <1>3 DEF Reject
  <2> QED
    BY <1>1, <1>3, <2>1, CloseKeeps
<1> QED
  BY <1>2, <1>3 DEF FetchEnds

(* Objects are removed from the instance that is used. *)
LEMMA LeaveKeeps ==
  ASSUME CacheInv, NEW gone \in Seq(Md5s), Distinct(gone),
         ToSet(gone) \subseteq Cached("now"),
         Evict("now", cache["now"], size["now"], gone, <<>>, fd),
         UNCHANGED <<link, known, muddled, fetches, stops>>
  PROVE  CacheInv'
<1> DEFINE c == cache["now"]
           n == size["now"]
           msgs == <<>>
<1>1. Holding(c, n) /\ "now" \in Instances
  BY DEF CacheInv, HeldBy, Instances
<1>2. msgs \in Seq(Message) /\ fd \in [Writers -> [Md5s -> Handles]]
  BY EmptySeq DEF CacheInv, RestTyped
<1>3. ~muddled => Undamaged(ToSet(c), n, fd, disk)
  BY DEF CacheInv, Cached
<1>4. ASSUME ~muddled, link = "up"
      PROVE  FoldLeft(Learn, FoldLeft(Learn, known, wire), msgs) = Listed(ToSet(c))
  <2>1. FoldLeft(Learn, known, wire) = Listed(ToSet(c))
    BY <1>4 DEF CacheInv, Cached
  <2>2. Listed(ToSet(c)) \in Views
    BY DEF Listed, Views
  <2>3. FoldLeft(Learn, Listed(ToSet(c)), msgs) = Listed(ToSet(c))
    BY <2>2, ToldNothing
  <2> QED
    BY <2>1, <2>3
<1>5. ToSet(gone) \subseteq ToSet(c) /\ Evict("now", c, n, gone, msgs, fd)
  BY DEF Cached
<1> HIDE DEF c, n, msgs
<1> QED
  BY <1>1, <1>2, <1>3, <1>4, <1>5, EvictStep

(* An object that cannot be read leaves. *)
LEMMA ReadFailsKeeps ==
  ASSUME CacheInv, NEW m \in Md5s, ReadFails(m) PROVE CacheInv'
<1>1. PICK gone : gone = <<m>>
  OBVIOUS
<1>2. gone \in Seq(Md5s) /\ Len(gone) = 1 /\ gone[1] = m /\ DOMAIN gone = 1..1
  BY <1>1
<1>3. Distinct(gone) /\ ToSet(gone) = {m}
  BY <1>2 DEF Distinct, ToSet
<1>4. /\ m \in Cached("now")
      /\ Evict("now", cache["now"], size["now"], gone, <<>>, fd)
      /\ UNCHANGED <<link, known, muddled, fetches, stops>>
  BY <1>1 DEF ReadFails
<1> QED
  BY <1>2, <1>3, <1>4, LeaveKeeps

(* All leave. *)
LEMMA ClearKeeps ==
  ASSUME CacheInv, Clear PROVE CacheInv'
<1>1. PICK gone : gone = Purged(cache["now"], size["now"], 0)
  OBVIOUS
<1>2. /\ Evict("now", cache["now"], size["now"], gone, <<>>, fd)
      /\ UNCHANGED <<link, known, muddled, fetches, stops>>
  BY <1>1 DEF Clear
<1>3. /\ cache["now"] \in Seq(Md5s) /\ Distinct(cache["now"])
      /\ size["now"] \in Nat /\ 0 \in Nat
  BY DEF CacheInv, HeldBy, Holding, Instances
<1>4. /\ gone \in Seq(Md5s) /\ Distinct(gone)
      /\ ToSet(gone) \subseteq ToSet(cache["now"])
  BY <1>1, <1>3, PurgedIs
<1> QED
  BY <1>2, <1>4, LeaveKeeps DEF Cached

(* The order of the keys changes. *)
LEMMA TouchKeeps ==
  ASSUME CacheInv, NEW m \in Md5s, Touch(m) PROVE CacheInv'
<1> DEFINE c == cache["now"]
           r == RemoveFirst(c, m)
           t == Append(r, m)
<1>1. HeldBy(cache, size) /\ "now" \in Instances /\ Holding(c, size["now"])
  BY DEF CacheInv, HeldBy, Instances
<1>2. m \in ToSet(c) /\ cache' = [cache EXCEPT !["now"] = t]
  BY DEF Touch, Cached
<1>3. r \in Seq(Md5s) /\ Distinct(r) /\ ToSet(r) = ToSet(c) \ {m}
  BY <1>1, RemoveFirstMembers DEF Holding
<1> HIDE DEF r, c
<1>4. t \in Seq(Md5s) /\ Distinct(t) /\ ToSet(t) = ToSet(c)
  <2>1. \A i \in 1..Len(r) : r[i] # m
    BY <1>3, LenProperties DEF ToSet
  <2>2. Append(r, m) \in Seq(Md5s)
    BY <1>3, AppendProperties
  <2>3. Distinct(Append(r, m)) /\ ToSet(Append(r, m)) = ToSet(r) \cup {m}
    BY <1>3, <2>1, AppendDistinct, AppendMembers
  <2> QED
    BY <1>2, <1>3, <2>2, <2>3
<1> HIDE DEF t
<1>5. Holding(t, size["now"])
  BY <1>1, <1>4 DEF Holding
<1>6. size' = size /\ cache' \in [Instances -> Seq(Md5s)]
  BY <1>1, <1>2, <1>4 DEF HeldBy, Touch
<1>7. \A i \in Instances : cache'[i] = IF i = "now" THEN t ELSE cache[i]
  BY <1>1, <1>2 DEF HeldBy
<1>8. HeldBy(cache', size')
  BY <1>1, <1>5, <1>6, <1>7 DEF HeldBy
<1>9. Cached("now")' = Cached("now")
  BY <1>1, <1>4, <1>7 DEF Cached, c
<1>10. UNCHANGED <<size, fd, disk, link, wire, known, muddled, fetches, stops>>
  BY DEF Touch
<1> QED
  BY <1>8, <1>9, <1>10 DEF CacheInv

(* What has been learned from is no longer on its way. *)
LEMMA ReceivesKeeps == CacheInv /\ SchedulerReceives => CacheInv'
<1> SUFFICES ASSUME CacheInv, SchedulerReceives PROVE CacheInv'
  OBVIOUS
<1>1. /\ wire # <<>> /\ wire \in Seq(Message) /\ known \in Views
      /\ known' = Learn(known, Head(wire)) /\ wire' = Tail(wire)
      /\ UNCHANGED <<cache, size, fd, disk, link, muddled, fetches, stops>>
  BY DEF CacheInv, RestTyped, SchedulerReceives
<1>2. Head(wire) \in Message /\ Tail(wire) \in Seq(Message)
  BY <1>1, HeadTailProperties
<1>3. known' \in Views /\ wire' \in Seq(Message)
  BY <1>1, <1>2, LearnTyped
<1>4. FoldLeft(Learn, known', wire') = FoldLeft(Learn, known, wire)
  BY <1>1, ToldFirst
<1>5. RestTyped(fd', disk', link', wire', known')
  BY <1>1, <1>3 DEF CacheInv, RestTyped
<1>6. Cached("now")' = Cached("now")
  BY <1>1 DEF Cached
<1> QED
  BY <1>1, <1>4, <1>5, <1>6 DEF CacheInv

(* Nothing is known and nothing is on its way. *)
LEMMA Forgotten ==
  /\ [m \in Md5s |-> 0] \in Views /\ <<>> \in Seq(Message)
  /\ stops \in 0..MaxStops /\ stops < MaxStops => stops + 1 \in 0..MaxStops
<1>1. [m \in Md5s |-> 0] \in Views /\ <<>> \in Seq(Message)
  BY EmptySeq DEF Views
<1>2. stops \in 0..MaxStops /\ stops < MaxStops => stops + 1 \in 0..MaxStops
  BY ObjectCacheAssumption
<1> QED
  BY <1>1, <1>2

(* The connection is lost, and with it what was on its way. *)
LEMMA DisconnectKeeps == CacheInv /\ Disconnect => CacheInv'
<1> SUFFICES ASSUME CacheInv, Disconnect PROVE CacheInv'
  OBVIOUS
<1>1. /\ link' = "down" /\ wire' = <<>> /\ known' = [m \in Md5s |-> 0]
      /\ stops' = stops + 1 /\ stops < MaxStops
      /\ UNCHANGED <<cache, size, fd, disk, muddled, fetches>>
  BY DEF Disconnect
<1>2. RestTyped(fd', disk', link', wire', known')
  BY <1>1, Forgotten DEF CacheInv, RestTyped
<1>3. Counted(muddled', stops', fetches')
  BY <1>1, Forgotten DEF CacheInv, Counted
<1>4. Cached("now")' = Cached("now")
  BY <1>1 DEF Cached
<1> QED
  BY <1>1, <1>2, <1>3, <1>4 DEF CacheInv

(* A new process has no instance yet. *)
LEMMA RestartKeeps == CacheInv /\ Restart => CacheInv'
<1> SUFFICES ASSUME CacheInv, Restart PROVE CacheInv'
  OBVIOUS
<1>1. /\ link' = "fresh" /\ wire' = <<>> /\ known' = [m \in Md5s |-> 0]
      /\ stops' = stops + 1 /\ stops < MaxStops /\ muddled' = FALSE
      /\ cache' = [i \in Instances |-> <<>>] /\ size' = [i \in Instances |-> 0]
      /\ fd' = [w \in Writers |-> Closed]
      /\ UNCHANGED <<disk, fetches>>
  BY DEF Restart
<1>2. RestTyped(fd', disk', link', wire', known')
  BY <1>1, Forgotten, StartsEmpty DEF CacheInv, RestTyped
<1>3. Counted(muddled', stops', fetches')
  BY <1>1, Forgotten DEF CacheInv, Counted
<1>4. HeldBy(cache', size')
  <2>1. Holding(<<>>, 0) /\ <<>> \in Seq(Md5s) /\ 0 \in Nat
    BY StartsEmpty, EmptySeq
  <2> QED
    BY <1>1, <2>1 DEF HeldBy
<1>5. Cached("now")' = {} /\ size'["now"] = 0 /\ Weight({}) = 0
  BY <1>1, StartsEmpty DEF Cached, Instances
<1>6. \A w \in Writers : WritingIn(fd', w) = {}
  BY <1>1, StartsEmpty
<1>7. Undamaged(Cached("now")', size'["now"], fd', disk')
  <2>1. Apart({}, fd')
    BY <1>6 DEF Apart, Writers, Instances
  <2>2. \A w \in Writers, m \in Md5s : fd'[w][m] = "closed"
    BY <1>1 DEF Closed
  <2>3. Uncut(fd', disk')
    BY <2>2 DEF Uncut
  <2> QED
    BY <1>5, <2>1, <2>3 DEF Undamaged
<1> QED
  BY <1>1, <1>2, <1>3, <1>4, <1>7 DEF CacheInv

(* A new instance has what the directory has, and says so. *)
LEMMA ReconnectKeeps == CacheInv /\ Reconnect => CacheInv'
<1> SUFFICES ASSUME CacheInv, Reconnect PROVE CacheInv'
  OBVIOUS
<1>0. PICK torn \in SUBSET {m \in Md5s \ BigHeaders : disk[m] = "torn"} :
        LET found == torn \cup {m \in Md5s \ BigHeaders : disk[m] = "whole"}
            f == Lose(fd, Md5s \ found)
        IN /\ \E c \in SetToSeqs(found) :
                cache' = [now |-> c,
                          old |-> IF Writing("now") = {} THEN <<>> ELSE cache["now"]]
           /\ size' = [now |-> Weight(found),
                       old |-> IF Writing("now") = {} THEN 0 ELSE size["now"]]
           /\ fd' = [f EXCEPT !["now"] = Closed, !["old"] = f["now"]]
           /\ disk' = Erase(disk, Md5s \ found)
           /\ link' = "up" /\ wire' = <<[type |-> "sync", md5s |-> found]>>
           /\ muddled' = (torn # {} \/ \E m \in Md5s : BeingWritten(m))
           /\ UNCHANGED <<known, fetches, stops>>
  BY DEF Reconnect
<1> DEFINE found == torn \cup {m \in Md5s \ BigHeaders : disk[m] = "whole"}
           gone == Md5s \ found
           f == Lose(fd, gone)
<1>6. /\ Erase(disk, gone) \in [Md5s -> Contents]
      /\ \A m \in Md5s : Erase(disk, gone)[m] = IF m \in gone THEN "none" ELSE disk[m]
      /\ f \in [Writers -> [Md5s -> Handles]]
      /\ \A w \in Writers : WritingIn(f, w) = WritingIn(fd, w)
  <2>1. /\ disk \in [Md5s -> Contents]
        /\ fd \in [Writers -> [Md5s -> Handles]]
    BY DEF CacheInv, RestTyped
  <2> HIDE DEF gone
  <2> QED
    BY <2>1, FilesErased, HandlesLost
<1>1. PICK c \in SetToSeqs(found) :
        cache' = [now |-> c,
                  old |-> IF Writing("now") = {} THEN <<>> ELSE cache["now"]]
  BY <1>0
<1>2. /\ size' = [now |-> Weight(found),
                  old |-> IF Writing("now") = {} THEN 0 ELSE size["now"]]
      /\ fd' = [f EXCEPT !["now"] = Closed, !["old"] = f["now"]]
      /\ disk' = Erase(disk, gone) /\ link' = "up"
      /\ wire' = <<[type |-> "sync", md5s |-> found]>>
      /\ muddled' = (torn # {} \/ \E m \in Md5s : BeingWritten(m))
      /\ UNCHANGED <<known, fetches, stops>>
  BY <1>0
<1>3. /\ HeldBy(cache, size) /\ RestTyped(fd, disk, link, wire, known)
      /\ Counted(muddled, stops, fetches)
  BY DEF CacheInv
<1>4. found \in SUBSET Md5s
      /\ \A m \in found : m \notin gone /\ (torn = {} => disk[m] = "whole")
  OBVIOUS
<1>5. c \in Seq(Md5s) /\ Distinct(c) /\ ToSet(c) = found
  BY <1>4, OrderOfFiles
<1> HIDE DEF found, gone, f
<1>7. Weight(found) \in Nat
  BY <1>4, WeightWith
<1>8. /\ cache'["now"] = c /\ size'["now"] = Weight(found)
      /\ \/ cache'["old"] = <<>> /\ size'["old"] = 0
         \/ cache'["old"] = cache["now"] /\ size'["old"] = size["now"]
      /\ DOMAIN cache' = Instances /\ DOMAIN size' = Instances
  BY <1>1, <1>2 DEF Instances
<1>9. HeldBy(cache', size')
  <2>1. Holding(c, Weight(found))
    <3>1. Weight(found) <= Weight(found)
      BY <1>7
    <3> QED
      BY <1>5, <1>7, <3>1 DEF Holding
  <2>2. Holding(cache'["old"], size'["old"])
    BY <1>3, <1>8, StartsEmpty DEF HeldBy, Instances
  <2>3. \A i \in Instances : Holding(cache'[i], size'[i])
    BY <1>8, <2>1, <2>2 DEF Instances
  <2>4. /\ cache' = [i \in Instances |-> cache'[i]]
        /\ size' = [i \in Instances |-> size'[i]]
    <3>1. cache' = [i \in Instances |-> cache'[i]]
      BY <1>1 DEF Instances
    <3>2. size' = [i \in Instances |-> size'[i]]
      BY <1>2 DEF Instances
    <3> QED
      BY <3>1, <3>2
  <2>5. \A i \in Instances : cache'[i] \in Seq(Md5s) /\ size'[i] \in Nat
    BY <2>3 DEF Holding
  <2>6. cache' \in [Instances -> Seq(Md5s)] /\ size' \in [Instances -> Nat]
    BY <2>4, <2>5
  <2> QED
    BY <2>3, <2>6 DEF HeldBy
<1>10. /\ \A w \in Writers : fd'[w] = IF w = "now" THEN Closed
                                     ELSE IF w = "old" THEN f["now"] ELSE f[w]
       /\ fd' \in [Writers -> [Md5s -> Handles]]
  <2>1. Closed \in [Md5s -> Handles]
    BY DEF Closed, Handles
  <2>2. f["now"] \in [Md5s -> Handles]
    BY <1>6 DEF Writers, Instances
  <2>3. fd' = [f EXCEPT !["now"] = Closed, !["old"] = f["now"]]
    BY <1>2
  <2>4. f \in [Writers -> [Md5s -> Handles]]
    BY <1>6
  <2> QED
    BY <2>1, <2>2, <2>3, <2>4
<1>11. ASSUME ~muddled' PROVE Apart(found, fd') /\ Uncut(fd', disk')
  <2>1. \A w \in Writers : WritingIn(fd, w) = {}
    BY <1>2, <1>11 DEF BeingWritten, Writing, WritingIn
  <2>2. \A w \in Writers : WritingIn(f, w) = {}
    BY <1>6, <2>1
  <2>3. \A w \in Writers, m \in Md5s : f[w][m] = "closed"
    BY <2>2 DEF WritingIn
  <2>4. \A w \in Writers, m \in Md5s : fd'[w][m] = "closed"
    BY <1>10, <2>3 DEF Closed, Writers, Instances
  <2>5. \A w \in Writers : WritingIn(fd', w) = {}
    BY <2>4 DEF WritingIn
  <2>6. Apart(found, fd')
    BY <2>5 DEF Apart, Writers, Instances
  <2>7. Uncut(fd', disk')
    BY <2>4 DEF Uncut
  <2> QED
    BY <2>6, <2>7
<1>12. wire' \in Seq(Message) /\ FoldLeft(Learn, known, wire') = Listed(found)
  <2>1. known \in Views
    BY <1>3 DEF RestTyped
  <2> QED
    BY <1>2, <1>4, <2>1, ToldWhole
<1>13. RestTyped(fd', disk', link', wire', known')
  BY <1>2, <1>3, <1>6, <1>10, <1>12 DEF RestTyped
<1>14. Counted(muddled', stops', fetches')
  BY <1>2, <1>3 DEF Counted
<1>15. Cached("now")' = found
  BY <1>5, <1>8 DEF Cached
<1>16. ASSUME ~muddled' PROVE Undamaged(Cached("now")', size'["now"], fd', disk')
  <2>1. torn = {}
    BY <1>2, <1>16
  <2>2. \A m \in found : disk'[m] = "whole"
    BY <1>2, <1>4, <1>6, <2>1
  <2> QED
    BY <1>8, <1>11, <1>15, <1>16, <2>2 DEF Undamaged
<1>17. FoldLeft(Learn, known', wire') = Listed(Cached("now")')
  BY <1>2, <1>12, <1>15
<1> QED
  BY <1>9, <1>13, <1>14, <1>16, <1>17 DEF CacheInv

(* Every step keeps the invariant. *)
LEMMA CacheInvStep == CacheInv /\ [CacheNext]_cacheVars => CacheInv'
<1> SUFFICES ASSUME CacheInv, [CacheNext]_cacheVars PROVE CacheInv'
  OBVIOUS
<1>1. ASSUME NEW m \in Md5s, AddStarts(m) PROVE CacheInv'
  BY <1>1, AddStartsKeeps
<1>2. ASSUME NEW m \in Md5s, Touch(m) PROVE CacheInv'
  BY <1>2, TouchKeeps
<1>3. ASSUME NEW m \in Md5s, ReadFails(m) PROVE CacheInv'
  BY <1>3, ReadFailsKeeps
<1>4. ASSUME NEW m \in Md5s, NEW w \in Streams, FetchStarts(w, m) PROVE CacheInv'
  BY <1>4, FetchStartsKeeps
<1>5. ASSUME NEW m \in Md5s, NEW w \in Streams, FetchEnds(w, m) PROVE CacheInv'
  BY <1>5, FetchEndsKeeps
<1>6. ASSUME NEW m \in Md5s, NEW w \in Streams, FetchFails(w, m) PROVE CacheInv'
  BY <1>6, CloseKeeps DEF FetchFails, Writers
<1>7. ASSUME NEW m \in Md5s, NEW w \in Writers, Flush(w, m) PROVE CacheInv'
  BY <1>7, FlushKeeps
<1>8. ASSUME NEW m \in Md5s, NEW i \in Instances, WriteEnds(i, m) PROVE CacheInv'
  BY <1>8, WriteEndsKeeps
<1>9. ASSUME NEW m \in Md5s, NEW i \in Instances, WriteFails(i, m) PROVE CacheInv'
  BY <1>9, CloseKeeps DEF WriteFails, Writers
<1>10. CASE Clear \/ Disconnect \/ Restart \/ Reconnect \/ SchedulerReceives
  BY <1>10, ClearKeeps, DisconnectKeeps, RestartKeeps, ReconnectKeeps,
     ReceivesKeeps
<1>11. CASE UNCHANGED cacheVars
  <2>1. UNCHANGED <<cache, size, fd, disk, link, wire, known, muddled, fetches, stops>>
    BY <1>11 DEF cacheVars
  <2>2. Cached("now")' = Cached("now")
    BY <2>1 DEF Cached
  <2> QED
    BY <2>1, <2>2 DEF CacheInv
<1> QED
  BY <1>1, <1>2, <1>3, <1>4, <1>5, <1>6, <1>7, <1>8, <1>9, <1>10, <1>11
  DEF CacheNext

(* For any objects, sizes and limits, and any interleaving of adds, reads,  *)
(* purges, downloads, lost connections and restarts: every cached object   *)
(* has its whole file and the size is the sum of theirs, until a write     *)
(* meets a reconnect or another write.                                     *)
THEOREM CachedFilesAreWhole == CacheSpec => []CachedIsOnDisk
<1>1. CacheInv => CachedIsOnDisk
  BY CacheInvImplies
<1> QED
  BY <1>1, CacheInitial, CacheInvStep, PTL DEF CacheSpec

(* What the scheduler believes, once it has learned from the messages on   *)
(* their way, is what the cache has.                                       *)
THEOREM SchedulerLearnsTheCache == CacheSpec => []SchedulerKnows
<1>1. CacheInv => SchedulerKnows
  BY CacheInvImplies
<1> QED
  BY <1>1, CacheInitial, CacheInvStep, PTL DEF CacheSpec

(* An add makes way for itself, and no more than itself is ever spared. *)
LEMMA AddIsWithinLimit ==
  ASSUME CacheInv, NEW m \in Md5s, ~muddled, disk[m] = "whole", WriteEnds("now", m)
  PROVE  /\ Weight(ToSet(cache'["now"])) <= MaxSize
         /\ FileSize[m] <= PurgeSize => m \in ToSet(cache'["now"])
<1> DEFINE k == cache["now"]
           c == WithKey(k, m)
           n == size["now"] + FileSize[m]
           gone == IF n > MaxSize THEN Purged(c, n, PurgeSize) ELSE <<>>
           r == Without(c, ToSet(gone))
<1>1. /\ m \in Writing("now")
      /\ Evict("now", c, n, gone, Added(m), Close("now", m))
  BY DEF WriteEnds, Accept, FullLength
<1>2. HeldBy(cache, size) /\ Undamaged(Cached("now"), size["now"], fd, disk)
  BY DEF CacheInv
<1>3. /\ Holding(k, size["now"]) /\ size["now"] = Weight(ToSet(k))
      /\ m \notin ToSet(k)
  <2>1. "now" \in Writers /\ "now" \in Instances
    BY DEF Writers, Instances
  <2>2. Cached("now") \cap Writing("now") = {} /\ size["now"] = Weight(Cached("now"))
    BY <1>2, <2>1 DEF Undamaged, Apart, WritingIn, Writing
  <2> QED
    BY <1>1, <1>2, <2>1, <2>2 DEF HeldBy, Cached
<1>4. Holding(c, n) /\ n = Weight(ToSet(c))
  BY <1>3, HoldingMore
<1>5. c = Append(k, m)
  BY <1>3 DEF WithKey
<1>6. ToSet(c) = ToSet(k) \cup {m}
  BY <1>3, WithKeyIs DEF Holding
<1>7. cache'["now"] = r
  BY <1>1, <1>2 DEF Evict, HeldBy, Instances
<1>8. /\ MaxSize \in Nat /\ PurgeSize \in Nat /\ PurgeSize <= MaxSize
  BY ObjectCacheAssumption
<1>9. n \in Nat
  BY <1>4 DEF Holding
<1>10. CASE n > MaxSize
  <2>1. gone = Purged(c, n, PurgeSize)
    BY <1>10
  <2> HIDE DEF c, n, gone, r, k
  <2>2. /\ n - Weight(ToSet(gone)) <= PurgeSize
        /\ FileSize[m] <= PurgeSize => m \notin ToSet(gone)
    <3>1. k \in Seq(Md5s) /\ Distinct(k)
      BY <1>3 DEF Holding
    <3> QED
      BY <1>3, <1>4, <1>5, <1>8, <2>1, <3>1, PurgedForOne
  <2>3. ToSet(gone) \subseteq ToSet(c)
    BY <1>4, <1>8, <1>9, <2>1, PurgedIs DEF Holding
  <2>4. /\ ToSet(r) = ToSet(c) \ ToSet(gone) /\ Weight(ToSet(gone)) \in Nat
        /\ Weight(ToSet(r)) = n - Weight(ToSet(gone))
    BY <1>4, <2>3, HoldingLess DEF r
  <2>5. Weight(ToSet(r)) <= MaxSize
    BY <1>8, <1>9, <2>2, <2>4
  <2> QED
    BY <1>6, <1>7, <2>2, <2>4, <2>5
<1>11. CASE ~(n > MaxSize)
  <2>1. gone = <<>>
    BY <1>11
  <2>2. ToSet(gone) = {} /\ Weight({}) = 0
    BY <2>1, StartsEmpty
  <2> HIDE DEF c, n, gone, r, k
  <2>3. /\ ToSet(r) = ToSet(c) \ {}
        /\ Weight(ToSet(r)) = n - 0
    <3>1. {} \subseteq ToSet(c)
      OBVIOUS
    <3>2. r = Without(c, {})
      BY <2>2 DEF r
    <3> QED
      BY <1>4, <2>2, <3>1, <3>2, HoldingLess
  <2>4. Weight(ToSet(r)) <= MaxSize
    BY <1>8, <1>9, <1>11, <2>3
  <2> QED
    BY <1>6, <1>7, <2>3, <2>4
<1> QED
  BY <1>10, <1>11

(* However far loading and downloads took the cache beyond maxSize, an add *)
(* brings it back, and keeps what it added if that fits at all.            *)
THEOREM AddsStayWithinLimit == CacheSpec => AddsEndWithinLimit
<1>1. CacheSpec => []CacheInv
  BY CacheInitial, CacheInvStep, PTL DEF CacheSpec
<1>2. CacheInv /\ [CacheNext]_cacheVars =>
        [\A m \in Md5s : ~muddled /\ disk[m] = "whole" /\ WriteEnds("now", m)
           => /\ Weight(ToSet(cache'["now"])) <= MaxSize
              /\ FileSize[m] <= PurgeSize => m \in ToSet(cache'["now"])]_cacheVars
  BY AddIsWithinLimit
<1> QED
  BY <1>1, <1>2, PTL DEF CacheSpec, AddsEndWithinLimit
=============================================================================
