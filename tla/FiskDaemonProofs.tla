-------------------------- MODULE FiskDaemonProofs --------------------------
(***************************************************************************)
(* Proofs about FiskDaemon, for every set of fiskc processes and any       *)
(* number of slots: no assertion of the daemon ever fails, its flags and   *)
(* its pools agree, and whoever preprocesses has a slot.  The two pools    *)
(* are instances of SlotsProofs.                                           *)
(***************************************************************************)
EXTENDS FiskDaemon, SequenceTheorems, TLAPS

CppPool == INSTANCE SlotsProofs
             WITH Ids <- Clients, Count <- CppCount,
                  used <- cppUsed, pending <- cppPending
CompilePool == INSTANCE SlotsProofs
                 WITH Ids <- Clients, Count <- CompileCount,
                      used <- compileUsed, pending <- compilePending

(* The pools of FiskDaemon are those instances. *)
LEMMA CppIsPool ==
  /\ Cpp!Holders = CppPool!Holders
  /\ Cpp!Requested = CppPool!Requested
  /\ Cpp!SlotsInv <=> CppPool!SlotsInv
  /\ Cpp!Holders' = CppPool!Holders'
  /\ Cpp!Requested' = CppPool!Requested'
  /\ Cpp!SlotsInv' <=> CppPool!SlotsInv'
BY DEF Cpp!Holders, CppPool!Holders, Cpp!Requested, CppPool!Requested,
       Cpp!Waiting, CppPool!Waiting, Cpp!ToSet, CppPool!ToSet,
       Cpp!SlotsInv, CppPool!SlotsInv, Cpp!SlotsTypeOK, CppPool!SlotsTypeOK,
       Cpp!NeverOverbooked, CppPool!NeverOverbooked,
       Cpp!NoIdleSlot, CppPool!NoIdleSlot,
       Cpp!RequestsAreDistinct, CppPool!RequestsAreDistinct

(* The same for the compile pool. *)
LEMMA CompileIsPool ==
  /\ Compile!Holders = CompilePool!Holders
  /\ Compile!Requested = CompilePool!Requested
  /\ Compile!SlotsInv <=> CompilePool!SlotsInv
  /\ Compile!Holders' = CompilePool!Holders'
  /\ Compile!Requested' = CompilePool!Requested'
  /\ Compile!SlotsInv' <=> CompilePool!SlotsInv'
BY DEF Compile!Holders, CompilePool!Holders,
       Compile!Requested, CompilePool!Requested,
       Compile!Waiting, CompilePool!Waiting, Compile!ToSet, CompilePool!ToSet,
       Compile!SlotsInv, CompilePool!SlotsInv,
       Compile!SlotsTypeOK, CompilePool!SlotsTypeOK,
       Compile!NeverOverbooked, CompilePool!NeverOverbooked,
       Compile!NoIdleSlot, CompilePool!NoIdleSlot,
       Compile!RequestsAreDistinct, CompilePool!RequestsAreDistinct

(* So are their operations and the assertions of release(). *)
LEMMA CppOperations ==
  ASSUME NEW c \in Clients
  PROVE  /\ Cpp!Acquire(c) => CppPool!Acquire(c)
         /\ Cpp!Release(c) => CppPool!Release(c)
         /\ CppPool!ReleaseAsserts(c) => Cpp!ReleaseAsserts(c)
BY DEF Cpp!Acquire, CppPool!Acquire, Cpp!Release, CppPool!Release,
       Cpp!HandOver, CppPool!HandOver, Cpp!MapSet, CppPool!MapSet,
       Cpp!MapDelete, CppPool!MapDelete, Cpp!Holders, CppPool!Holders,
       Cpp!UsedWithout, CppPool!UsedWithout,
       Cpp!PendingWithout, CppPool!PendingWithout,
       Cpp!ReleaseAsserts, CppPool!ReleaseAsserts,
       Cpp!SlotWasCounted, CppPool!SlotWasCounted,
       Cpp!NoOneWaitedInVain, CppPool!NoOneWaitedInVain,
       Cpp!ToSet, CppPool!ToSet, Cpp!RemoveFirst, CppPool!RemoveFirst,
       Cpp!RemoveAt, CppPool!RemoveAt,
       Cpp!SelectInSeq, CppPool!SelectInSeq, Cpp!Min, CppPool!Min

(* The same for the compile pool. *)
LEMMA CompileOperations ==
  ASSUME NEW c \in Clients
  PROVE  /\ Compile!Acquire(c) => CompilePool!Acquire(c)
         /\ Compile!Release(c) => CompilePool!Release(c)
BY DEF Compile!Acquire, CompilePool!Acquire,
       Compile!Release, CompilePool!Release,
       Compile!HandOver, CompilePool!HandOver,
       Compile!MapSet, CompilePool!MapSet,
       Compile!MapDelete, CompilePool!MapDelete,
       Compile!Holders, CompilePool!Holders,
       Compile!UsedWithout, CompilePool!UsedWithout,
       Compile!PendingWithout, CompilePool!PendingWithout,
       Compile!ToSet, CompilePool!ToSet,
       Compile!RemoveFirst, CompilePool!RemoveFirst,
       Compile!RemoveAt, CompilePool!RemoveAt,
       Compile!SelectInSeq, CompilePool!SelectInSeq,
       Compile!Min, CompilePool!Min

-----------------------------------------------------------------------------
(* What a step of a pool does to those who hold or have asked for a slot. *)
LEMMA CppAcquired ==
  ASSUME Cpp!SlotsInv, NEW c \in Clients,
         c \notin Cpp!Requested, Cpp!Acquire(c)
  PROVE  /\ Cpp!SlotsInv'
         /\ Cpp!Requested' = Cpp!Requested \cup {c}
         /\ Cpp!Holders \subseteq Cpp!Holders'
<1>1. CppCount \in Nat
  BY DaemonAssumption
<1>2. /\ CppPool!SlotsInv'
      /\ CppPool!Requested' = CppPool!Requested \cup {c}
      /\ CppPool!Holders \subseteq CppPool!Holders'
  BY <1>1, CppIsPool, CppOperations, CppPool!AcquireAdds
<1>3. QED
  BY <1>2, CppIsPool

(* release() gives back the request of its caller and nobody else's. *)
LEMMA CppReleased ==
  ASSUME Cpp!SlotsInv, NEW c \in Cpp!Requested, c \in Clients, Cpp!Release(c)
  PROVE  /\ Cpp!SlotsInv'
         /\ Cpp!Requested' = Cpp!Requested \ {c}
         /\ Cpp!Holders \ {c} \subseteq Cpp!Holders'
<1>1. CppCount \in Nat
  BY DaemonAssumption
<1>2. /\ CppPool!SlotsInv'
      /\ CppPool!Requested' = CppPool!Requested \ {c}
      /\ CppPool!Holders \ {c} \subseteq CppPool!Holders'
  BY <1>1, CppIsPool, CppOperations, CppPool!ReleaseRemoves
<1>3. QED
  BY <1>2, CppIsPool

(* slots.js:38-39 *)
LEMMA CppReleaseAsserts ==
  ASSUME Cpp!SlotsInv, NEW c \in Cpp!Requested, c \in Clients
  PROVE  Cpp!ReleaseAsserts(c)
<1>1. CppCount \in Nat
  BY DaemonAssumption
<1>2. CppPool!AssertsHold
  BY <1>1, CppIsPool, CppPool!InvImpliesAsserts
<1>3. CppPool!ReleaseAsserts(c)
  BY <1>2, CppIsPool DEF CppPool!AssertsHold
<1>4. QED
  BY <1>3, CppOperations

(* acquire() on the compile pool. *)
LEMMA CompileAcquired ==
  ASSUME Compile!SlotsInv, NEW c \in Clients,
         c \notin Compile!Requested, Compile!Acquire(c)
  PROVE  /\ Compile!SlotsInv'
         /\ Compile!Requested' = Compile!Requested \cup {c}
         /\ Compile!Holders \subseteq Compile!Holders'
<1>1. CompileCount \in Nat
  BY DaemonAssumption
<1>2. /\ CompilePool!SlotsInv'
      /\ CompilePool!Requested' = CompilePool!Requested \cup {c}
      /\ CompilePool!Holders \subseteq CompilePool!Holders'
  BY <1>1, CompileIsPool, CompileOperations, CompilePool!AcquireAdds
<1>3. QED
  BY <1>2, CompileIsPool

(* release() on the compile pool. *)
LEMMA CompileReleased ==
  ASSUME Compile!SlotsInv, NEW c \in Compile!Requested,
         c \in Clients, Compile!Release(c)
  PROVE  /\ Compile!SlotsInv'
         /\ Compile!Requested' = Compile!Requested \ {c}
         /\ Compile!Holders \ {c} \subseteq Compile!Holders'
<1>1. CompileCount \in Nat
  BY DaemonAssumption
<1>2. /\ CompilePool!SlotsInv'
      /\ CompilePool!Requested' = CompilePool!Requested \ {c}
      /\ CompilePool!Holders \ {c} \subseteq CompilePool!Holders'
  BY <1>1, CompileIsPool, CompileOperations, CompilePool!ReleaseRemoves
<1>3. QED
  BY <1>2, CompileIsPool

(* A pool nobody touches, and a pool that starts again. *)
LEMMA CppUntouched ==
  ASSUME Cpp!SlotsInv, UNCHANGED cppVars
  PROVE  /\ Cpp!SlotsInv'
         /\ Cpp!Requested' = Cpp!Requested
         /\ Cpp!Holders' = Cpp!Holders
BY DEF cppVars, Cpp!SlotsInv, Cpp!SlotsTypeOK, Cpp!NeverOverbooked,
       Cpp!NoIdleSlot, Cpp!RequestsAreDistinct, Cpp!Requested, Cpp!Holders,
       Cpp!Waiting, Cpp!ToSet

(* The same for the compile pool. *)
LEMMA CompileUntouched ==
  ASSUME Compile!SlotsInv, UNCHANGED compileVars
  PROVE  /\ Compile!SlotsInv'
         /\ Compile!Requested' = Compile!Requested
         /\ Compile!Holders' = Compile!Holders
BY DEF compileVars, Compile!SlotsInv, Compile!SlotsTypeOK,
       Compile!NeverOverbooked, Compile!NoIdleSlot,
       Compile!RequestsAreDistinct, Compile!Requested, Compile!Holders,
       Compile!Waiting, Compile!ToSet

(* Empty pools satisfy the invariant of the pool. *)
LEMMA PoolsStart ==
  /\ Cpp!SlotsInit => Cpp!SlotsInv /\ Cpp!Requested = {}
  /\ Compile!SlotsInit => Compile!SlotsInv /\ Compile!Requested = {}
<1>1. CppCount \in Nat /\ CompileCount \in Nat
  BY DaemonAssumption
<1>2. Cpp!SlotsInit => Cpp!SlotsInv
  BY <1>1
     DEF Cpp!SlotsInit, Cpp!SlotsInv, Cpp!SlotsTypeOK, Cpp!NeverOverbooked,
         Cpp!NoIdleSlot, Cpp!RequestsAreDistinct
<1>3. Cpp!SlotsInit => Cpp!Requested = {}
  BY DEF Cpp!SlotsInit, Cpp!Requested, Cpp!Holders, Cpp!Waiting, Cpp!ToSet
<1>4. Compile!SlotsInit => Compile!SlotsInv
  BY <1>1
     DEF Compile!SlotsInit, Compile!SlotsInv, Compile!SlotsTypeOK,
         Compile!NeverOverbooked, Compile!NoIdleSlot,
         Compile!RequestsAreDistinct
<1>5. Compile!SlotsInit => Compile!Requested = {}
  BY DEF Compile!SlotsInit, Compile!Requested, Compile!Holders,
         Compile!Waiting, Compile!ToSet
<1>6. QED
  BY <1>2, <1>3, <1>4, <1>5

-----------------------------------------------------------------------------
(* What a client can have on its way to the daemon: at most one command of *)
(* each kind, the request for a cpp slot first, that for a compile slot    *)
(* last.                                                                   *)
A == "AcquireCppSlot"
R == "ReleaseCppSlot"
L == "AcquireCompileSlot"
InOrder(w) ==
  /\ w \in Seq(Commands)
  /\ \A i, j \in 1..Len(w) :
       i < j => /\ w[j] # A
                /\ w[i] # L
                /\ w[i] = R => w[j] # R
Has(w, x) == \E i \in 1..Len(w) : w[i] = x

(* The three commands of Constants.js are different bytes. *)
LEMMA CommandsDiffer ==
  Commands = {A, R, L} /\ A # R /\ A # L /\ R # L
BY DEF Commands, A, R, L

(* With nothing under way the order is trivial ... *)
LEMMA NoCommands == InOrder(<<>>) /\ \A x : ~Has(<<>>, x)
BY DEF InOrder, Has

(* ... and with one command as well. *)
LEMMA OneCommand ==
  ASSUME NEW x \in Commands
  PROVE  InOrder(<<x>>) /\ \A y : Has(<<x>>, y) <=> y = x
BY DEF InOrder, Has

(* The daemon reads the first command ... *)
LEMMA CommandRead ==
  ASSUME NEW w, InOrder(w), w # <<>>
  PROVE  /\ InOrder(Tail(w))
         /\ Head(w) \in {A, R, L}
         /\ \A x : Has(w, x) <=> Head(w) = x \/ Has(Tail(w), x)
         /\ ~Has(Tail(w), Head(w)) /\ ~Has(Tail(w), A)
         /\ Head(w) = L => Tail(w) = <<>>
<1>1. w \in Seq(Commands) /\ Len(w) \in Nat /\ Len(w) >= 1
  BY LenProperties, EmptySeq DEF InOrder
<1>2. /\ Head(w) = w[1] /\ Head(w) \in Commands
      /\ Tail(w) \in Seq(Commands)
      /\ Len(Tail(w)) = Len(w) - 1
      /\ \A i \in 1..Len(w)-1 : Tail(w)[i] = w[i+1]
  BY <1>1, HeadTailProperties
<1>3. /\ 1 \in 1..Len(w)
      /\ \A i \in 1..Len(w)-1 : i+1 \in 1..Len(w) /\ 1 < i+1
      /\ \A i, j \in 1..Len(w)-1 : i < j => i+1 < j+1
      /\ \A i \in 1..Len(w) : i = 1 \/ (i-1 \in 1..Len(w)-1 /\ (i-1)+1 = i)
  BY <1>1
<1>4. InOrder(Tail(w))
  BY <1>2, <1>3 DEF InOrder
<1>5. \A x : Has(w, x) <=> Head(w) = x \/ Has(Tail(w), x)
  <2>1. ASSUME NEW x, NEW i \in 1..Len(w), w[i] = x
        PROVE  Head(w) = x \/ Has(Tail(w), x)
    <3>1. CASE i = 1
      BY <1>2, <2>1, <3>1
    <3>2. CASE i # 1
      <4>1. i-1 \in 1..Len(Tail(w)) /\ Tail(w)[i-1] = x
        BY <1>2, <1>3, <2>1, <3>2
      <4>2. QED
        BY <4>1 DEF Has
    <3>3. QED
      BY <3>1, <3>2
  <2>2. ASSUME NEW x, Has(Tail(w), x)
        PROVE  Has(w, x)
    BY <1>2, <1>3, <2>2 DEF Has
  <2>3. ASSUME NEW x, Head(w) = x
        PROVE  Has(w, x)
    BY <1>2, <1>3, <2>3 DEF Has
  <2>4. QED
    BY <2>1, <2>2, <2>3 DEF Has
<1>6. \A i \in 1..Len(w)-1 : /\ Tail(w)[i] # A
                             /\ Head(w) # L
                             /\ Head(w) = R => Tail(w)[i] # R
  BY <1>2, <1>3 DEF InOrder
<1>7. Head(w) = L => Tail(w) = <<>>
  <2>1. Head(w) = L => 1 \notin 1..Len(w)-1
    BY <1>6
  <2>2. Head(w) = L => Len(Tail(w)) = 0
    BY <1>1, <1>2, <2>1
  <2>3. QED
    BY <1>2, <2>2, EmptySeq
<1>8. ~Has(Tail(w), Head(w)) /\ ~Has(Tail(w), A)
  BY <1>2, <1>6, CommandsDiffer DEF Has
<1>9. QED
  BY <1>2, <1>4, <1>5, <1>7, <1>8, CommandsDiffer

(* ... the client sends another one ... *)
LEMMA CommandSent ==
  ASSUME NEW w, InOrder(w), NEW x \in {R, L}, ~Has(w, x), ~Has(w, L)
  PROVE  /\ InOrder(Append(w, x))
         /\ \A y : Has(Append(w, x), y) <=> y = x \/ Has(w, y)
<1> DEFINE v == Append(w, x)
<1>1. /\ w \in Seq(Commands) /\ Len(w) \in Nat /\ x \in Commands
      /\ v \in Seq(Commands) /\ Len(v) = Len(w) + 1
      /\ \A i \in 1..Len(w) : v[i] = w[i]
      /\ v[Len(w) + 1] = x
  BY CommandsDiffer, LenProperties, AppendProperties DEF InOrder
<1> HIDE DEF v
<1>2. \A i \in 1..Len(v) : i \in 1..Len(w) \/ i = Len(w) + 1
  BY <1>1
<1>3. InOrder(v)
  <2>1. ASSUME NEW i \in 1..Len(v), NEW j \in 1..Len(v), i < j
        PROVE  /\ v[j] # A
               /\ v[i] # L
               /\ v[i] = R => v[j] # R
    <3>1. i \in 1..Len(w)
      BY <1>1, <2>1
    <3>2. CASE j \in 1..Len(w)
      BY <1>1, <2>1, <3>1, <3>2 DEF InOrder
    <3>3. CASE j = Len(w) + 1
      BY <1>1, <3>1, <3>3, CommandsDiffer DEF Has
    <3>4. QED
      BY <1>2, <3>2, <3>3
  <2>2. QED
    BY <1>1, <2>1 DEF InOrder
<1>4. ASSUME NEW y
      PROVE  Has(v, y) <=> y = x \/ Has(w, y)
  <2>1. 1..Len(w) \subseteq 1..Len(v) /\ Len(w) + 1 \in 1..Len(v)
    BY <1>1
  <2>2. QED
    BY <1>1, <1>2, <2>1 DEF Has
<1>5. QED
  BY <1>3, <1>4 DEF v

(* ... or exits and leaves some prefix of them to be read. *)
LEMMA CommandsLost ==
  ASSUME NEW w, InOrder(w), NEW n \in 0..Len(w)
  PROVE  /\ InOrder(SubSeq(w, 1, n))
         /\ \A x : Has(SubSeq(w, 1, n), x) => Has(w, x)
         /\ Has(w, A) /\ Has(SubSeq(w, 1, n), R) => Has(SubSeq(w, 1, n), A)
<1> DEFINE p == SubSeq(w, 1, n)
<1>1. w \in Seq(Commands) /\ Len(w) \in Nat /\ n \in Nat /\ n <= Len(w)
  BY LenProperties DEF InOrder
<1>2. \A i \in 1..n : i \in 1..Len(w) /\ w[i] \in Commands
  BY <1>1, ElementOfSeq
<1>3. /\ p \in Seq(Commands) /\ Len(p) = n
      /\ \A i \in 1..n : p[i] = w[i]
  BY <1>1, <1>2, SubSeqProperties
<1> HIDE DEF p
<1>4. InOrder(p)
  BY <1>2, <1>3 DEF InOrder
<1>5. \A x : Has(p, x) => Has(w, x)
  BY <1>2, <1>3 DEF Has
<1>6. ASSUME Has(w, A), Has(p, R)
      PROVE  Has(p, A)
  <2>1. PICK i \in 1..Len(w) : w[i] = A
    BY <1>6 DEF Has
  <2>2. PICK j \in 1..n : w[j] = R
    BY <1>3, <1>6 DEF Has
  <2>3. i <= j
    BY <1>1, <1>2, <2>1, <2>2, CommandsDiffer DEF InOrder
  <2>4. i \in 1..n
    BY <1>1, <2>3
  <2>5. QED
    BY <1>3, <2>1, <2>4 DEF Has
<1>7. QED
  BY <1>4, <1>5, <1>6 DEF p

-----------------------------------------------------------------------------
(* The commands under way fit the flags the daemon keeps for the client. *)
Asks(c) ==
  conn[c] # "closed" =>
    /\ Has(commands[c], A) => ~requestedCpp[c]
    /\ Has(commands[c], R) => Has(commands[c], A) \/ requestedCpp[c]
    /\ Has(commands[c], L) => ~requestedCompile[c]

(* The preprocessor runs or is about to. *)
Ahead(c) == thread[c] \in {"waiting", "running"}

(* They fit what a connected client is doing, and its slots are its own. *)
Runs(c) ==
  conn[c] = "open" =>
    /\ phase[c] \in {"preprocess", "remote", "uploaded"}
         => ~Has(commands[c], L) /\ ~requestedCompile[c]
    /\ phase[c] = "preprocess" \/ (phase[c] = "remote" /\ c \in UploadFinishers)
         => ~Has(commands[c], R) /\ (Has(commands[c], A) \/ requestedCpp[c])
    /\ Ahead(c) => /\ ~Has(commands[c], R)
                   /\ phase[c] \notin {"remote", "uploaded"}
    /\ Ahead(c) /\ (hasCpp[c] \/ "cpp" \in replies[c]) => c \in Cpp!Holders
    /\ hasCompile[c] \/ "compile" \in replies[c] => c \in Compile!Holders

(* A client that has not started has nothing; one that runs has its slot. *)
Idle(c) ==
  /\ phase[c] = "idle" => /\ conn[c] # "open" /\ thread[c] = "none"
                          /\ ~hasCpp[c] /\ ~hasCompile[c] /\ replies[c] = {}
  /\ thread[c] = "running" => hasCpp[c]

Orderly(c) == InOrder(commands[c]) /\ Asks(c) /\ Runs(c) /\ Idle(c)

DaemonInv ==
  /\ FlagsMatchPools
  /\ Cpp!SlotsInv /\ Compile!SlotsInv
  /\ ~failed
  /\ \A c \in Clients : Orderly(c)

(* A step leaves everything that is one client's own as it is. *)
Same(d) ==
  /\ commands'[d] = commands[d] /\ conn'[d] = conn[d]
  /\ phase'[d] = phase[d] /\ thread'[d] = thread[d]
  /\ hasCpp'[d] = hasCpp[d] /\ hasCompile'[d] = hasCompile[d]

(* What the other clients do does not disturb an orderly one. *)
LEMMA Undisturbed ==
  ASSUME NEW d \in Clients, Orderly(d), Same(d),
         requestedCpp'[d] = requestedCpp[d],
         requestedCompile'[d] = requestedCompile[d],
         d \in Cpp!Holders => d \in Cpp!Holders',
         d \in Compile!Holders => d \in Compile!Holders',
         conn[d] # "open" => replies'[d] \subseteq replies[d],
         "cpp" \in replies'[d] => "cpp" \in replies[d] \/ d \in Cpp!Holders',
         "compile" \in replies'[d] =>
            "compile" \in replies[d] \/ d \in Compile!Holders'
  PROVE  Orderly(d)'
<1>1. InOrder(commands[d])'
  BY DEF Orderly, Same
<1>2. Asks(d)'
  BY DEF Orderly, Same, Asks
<1>3. Runs(d)'
  BY DEF Orderly, Same, Runs, Ahead
<1>4. Idle(d)'
  BY DEF Orderly, Same, Idle
<1>5. QED
  BY <1>1, <1>2, <1>3, <1>4 DEF Orderly

(* The part of the type invariant that is about the clients. *)
ClientsTypeOK ==
  /\ conn \in [Clients -> {"closed", "open", "ended"}]
  /\ commands \in [Clients -> Seq(Commands)]
  /\ replies \in [Clients -> SUBSET Pools]
  /\ phase \in [Clients -> {"idle", "preprocess", "remote", "uploaded",
                            "waitCompile", "compiling"}]
  /\ thread \in [Clients -> {"none", "waiting", "running", "done"}]
  /\ hasCpp \in [Clients -> BOOLEAN] /\ hasCompile \in [Clients -> BOOLEAN]
  /\ unsent \subseteq Clients

(* A step of one client keeps the invariant if the client stays orderly. *)
LEMMA ClientMoves ==
  ASSUME DaemonInv, NEW c \in Clients, UNCHANGED daemonVars,
         ClientsTypeOK', Orderly(c)',
         conn[c] # "closed" => conn'[c] # "closed",
         \A d \in Clients \ {c} : Same(d) /\ replies'[d] = replies[d]
  PROVE  DaemonInv'
<1>1. /\ Cpp!SlotsInv' /\ Compile!SlotsInv'
      /\ Cpp!Requested' = Cpp!Requested
      /\ Compile!Requested' = Compile!Requested
      /\ Cpp!Holders' = Cpp!Holders /\ Compile!Holders' = Compile!Holders
  BY CppUntouched, CompileUntouched DEF DaemonInv, daemonVars
<1>2. /\ requestedCpp' = requestedCpp /\ requestedCompile' = requestedCompile
      /\ failed' = failed /\ stops' = stops
  BY DEF daemonVars, flagVars
<1>3. TypeOK'
  BY <1>1, <1>2 DEF DaemonInv, FlagsMatchPools, TypeOK, ClientsTypeOK,
                    Cpp!SlotsInv, Compile!SlotsInv
<1>4. \A d \in Clients : conn[d] # "closed" => conn'[d] # "closed"
  BY DEF Same
<1>5. FlagsMatchPools'
  <2>1. Cpp!Requested = {d \in Clients : requestedCpp[d]}
    BY DEF DaemonInv, FlagsMatchPools
  <2>2. Compile!Requested = {d \in Clients : requestedCompile[d]}
    BY DEF DaemonInv, FlagsMatchPools
  <2>3. \A d \in Cpp!Requested \cup Compile!Requested : conn[d] # "closed"
    BY DEF DaemonInv, FlagsMatchPools
  <2>4. \A d \in Cpp!Requested' \cup Compile!Requested' : conn'[d] # "closed"
    BY <1>1, <1>4, <2>1, <2>2, <2>3
  <2>5. QED
    BY <1>1, <1>2, <1>3, <2>1, <2>2, <2>4 DEF FlagsMatchPools
<1>6. \A d \in Clients : Orderly(d)'
  <2>1. ASSUME NEW d \in Clients \ {c}
        PROVE  Orderly(d)'
    BY <1>1, <1>2, Undisturbed DEF DaemonInv
  <2>2. QED
    BY <2>1
<1>7. QED
  BY <1>1, <1>2, <1>5, <1>6 DEF DaemonInv

-----------------------------------------------------------------------------
(* The steps of the clients. *)
LEMMA InvParts ==
  ASSUME DaemonInv, NEW c \in Clients
  PROVE  /\ ClientsTypeOK
         /\ InOrder(commands[c]) /\ Asks(c) /\ Runs(c) /\ Idle(c)
         /\ requestedCpp[c] \in BOOLEAN /\ requestedCompile[c] \in BOOLEAN
         /\ requestedCpp[c] <=> c \in Cpp!Requested
         /\ requestedCompile[c] <=> c \in Compile!Requested
BY DEF DaemonInv, FlagsMatchPools, TypeOK, ClientsTypeOK, Orderly

(* A step of a client touches neither a pool nor a flag. *)
LEMMA HoldersStay ==
  ASSUME DaemonInv, UNCHANGED daemonVars
  PROVE  /\ Cpp!Holders' = Cpp!Holders
         /\ Compile!Holders' = Compile!Holders
         /\ requestedCpp' = requestedCpp
         /\ requestedCompile' = requestedCompile
BY CppUntouched, CompileUntouched DEF DaemonInv, daemonVars, flagVars

(* A new fiskc finds no slot and no request left from the last one. *)
LEMMA StartKeeps ==
  ASSUME DaemonInv, NEW c \in Clients, Start(c)
  PROVE  DaemonInv'
<1>1. /\ ClientsTypeOK /\ Idle(c)
      /\ requestedCpp[c] \in BOOLEAN /\ requestedCompile[c] \in BOOLEAN
      /\ phase[c] = "idle" /\ conn[c] = "closed"
      /\ UNCHANGED <<daemonVars, replies, hasCpp, hasCompile, unsent>>
      /\ conn' = [conn EXCEPT ![c] = "open"]
  BY InvParts DEF Start, slotVars
<1>2. ~requestedCpp[c] /\ ~requestedCompile[c]
  BY <1>1 DEF DaemonInv, FlagsMatchPools
<1>3. /\ Cpp!Holders' = Cpp!Holders /\ Compile!Holders' = Compile!Holders
      /\ requestedCpp' = requestedCpp /\ requestedCompile' = requestedCompile
  BY <1>1, HoldersStay
<1>4. PICK x \in {A, L} :
         /\ commands' = [commands EXCEPT ![c] = <<x>>]
         /\ x = A => /\ phase' = [phase EXCEPT ![c] = "preprocess"]
                     /\ thread' = [thread EXCEPT ![c] = "waiting"]
         /\ x = L => /\ phase' = [phase EXCEPT ![c] = "waitCompile"]
                     /\ thread' = thread
  BY CommandsDiffer DEF Start, GoTo, A, L
<1>5. /\ InOrder(<<x>>) /\ <<x>> \in Seq(Commands)
      /\ \A y : Has(<<x>>, y) <=> y = x
  BY OneCommand, CommandsDiffer
<1>6. ClientsTypeOK'
  BY <1>1, <1>4, <1>5 DEF ClientsTypeOK
<1>7. \A d \in Clients \ {c} : Same(d) /\ replies'[d] = replies[d]
  BY <1>1, <1>4 DEF ClientsTypeOK, Same
<1>8. /\ commands'[c] = <<x>> /\ conn'[c] = "open" /\ replies'[c] = {}
      /\ ~hasCpp'[c] /\ ~hasCompile'[c]
      /\ x = A => phase'[c] = "preprocess" /\ thread'[c] = "waiting"
      /\ x = L => phase'[c] = "waitCompile" /\ thread'[c] = "none"
  BY <1>1, <1>4 DEF ClientsTypeOK, Idle
<1>9. Orderly(c)'
  <2>1. InOrder(commands[c])'
    BY <1>5, <1>8
  <2>2. Asks(c)'
    BY <1>2, <1>3, <1>5, <1>8, CommandsDiffer DEF Asks
  <2>3. Runs(c)'
    BY <1>2, <1>3, <1>5, <1>8, CommandsDiffer DEF Runs, Ahead
  <2>4. Idle(c)'
    BY <1>8 DEF Idle
  <2>5. QED
    BY <2>1, <2>2, <2>3, <2>4 DEF Orderly
<1>10. QED
  BY <1>1, <1>6, <1>7, <1>9, ClientMoves

(* A grant is read: the slot is the client's already. *)
LEMMA OnReadKeeps ==
  ASSUME DaemonInv, NEW c \in Clients, NEW pool \in Pools, OnRead(c, pool)
  PROVE  DaemonInv'
<1>1. /\ ClientsTypeOK
      /\ InOrder(commands[c]) /\ Asks(c) /\ Runs(c) /\ Idle(c)
      /\ UNCHANGED <<daemonVars, conn, commands, phase, thread, unsent>>
      /\ pool \in replies[c] /\ phase[c] # "idle"
      /\ replies' = [replies EXCEPT ![c] = @ \ {pool}]
  BY InvParts DEF OnRead
<1>2. /\ Cpp!Holders' = Cpp!Holders /\ Compile!Holders' = Compile!Holders
      /\ requestedCpp' = requestedCpp /\ requestedCompile' = requestedCompile
  BY <1>1, HoldersStay
<1>3. \/ /\ pool = "cpp" /\ hasCompile' = hasCompile
         /\ hasCpp' = [hasCpp EXCEPT ![c] = TRUE]
      \/ /\ pool = "compile" /\ hasCpp' = hasCpp
         /\ hasCompile' = [hasCompile EXCEPT ![c] = TRUE]
  BY DEF OnRead
<1>4. ClientsTypeOK'
  BY <1>1, <1>3 DEF ClientsTypeOK
<1>5. \A d \in Clients \ {c} : Same(d) /\ replies'[d] = replies[d]
  BY <1>1, <1>3 DEF ClientsTypeOK, Same
<1>6. /\ replies'[c] = replies[c] \ {pool}
      /\ hasCpp'[c] => hasCpp[c] \/ "cpp" \in replies[c]
      /\ hasCompile'[c] => hasCompile[c] \/ "compile" \in replies[c]
      /\ hasCpp[c] => hasCpp'[c]
  BY <1>1, <1>3 DEF ClientsTypeOK
<1>7. Orderly(c)'
  <2>1. InOrder(commands[c])' /\ Asks(c)'
    BY <1>1, <1>2 DEF Asks
  <2>2. Runs(c)'
    BY <1>1, <1>2, <1>6 DEF Runs, Ahead
  <2>3. Idle(c)'
    BY <1>1, <1>6 DEF Idle
  <2>4. QED
    BY <2>1, <2>2, <2>3 DEF Orderly
<1>8. QED
  BY <1>1, <1>4, <1>5, <1>7, ClientMoves

(* What DaemonSocket::send does to the commands under way. *)
LEMMA SendAppends ==
  ASSUME ClientsTypeOK, NEW c \in Clients, InOrder(commands[c]),
         NEW x \in {R, L}, Send(c, x),
         Connected(c) => ~Has(commands[c], x) /\ ~Has(commands[c], L)
  PROVE  /\ commands' \in [Clients -> Seq(Commands)]
         /\ \A d \in Clients \ {c} : commands'[d] = commands[d]
         /\ InOrder(commands'[c])
         /\ conn[c] = "open" =>
              \A y : Has(commands'[c], y) <=> y = x \/ Has(commands[c], y)
         /\ conn[c] # "open" => commands'[c] = commands[c]
<1>1. CASE Connected(c)
  <2>1. /\ InOrder(Append(commands[c], x))
        /\ \A y : Has(Append(commands[c], x), y) <=>
                    y = x \/ Has(commands[c], y)
    BY <1>1, CommandSent
  <2>2. commands' = [commands EXCEPT ![c] = Append(commands[c], x)]
    BY <1>1 DEF Send
  <2>3. commands'[c] = Append(commands[c], x)
    BY <2>2 DEF ClientsTypeOK
  <2>4. Append(commands[c], x) \in Seq(Commands)
    BY <2>1 DEF InOrder
  <2>5. QED
    BY <1>1, <2>1, <2>2, <2>3, <2>4 DEF ClientsTypeOK, Connected
<1>2. CASE ~Connected(c)
  <2>1. commands' = commands
    BY <1>2 DEF Send
  <2>2. QED
    BY <1>2, <2>1 DEF ClientsTypeOK, Connected
<1>3. QED
  BY <1>1, <1>2

(* Giving up sends one command: there was no request for a compile slot. *)
LEMMA RunLocalKeeps ==
  ASSUME DaemonInv, NEW c \in Clients, RunLocal(c)
  PROVE  DaemonInv'
<1>1. /\ ClientsTypeOK
      /\ InOrder(commands[c]) /\ Asks(c) /\ Runs(c) /\ Idle(c)
      /\ phase[c] \in {"preprocess", "remote", "uploaded"}
      /\ phase' = [phase EXCEPT ![c] = "waitCompile"]
      /\ Send(c, L)
      /\ UNCHANGED <<daemonVars, conn, replies, thread, hasCpp, hasCompile,
                     unsent>>
  BY InvParts DEF RunLocal, GoTo, L, slotVars
<1>2. /\ Cpp!Holders' = Cpp!Holders /\ Compile!Holders' = Compile!Holders
      /\ requestedCpp' = requestedCpp /\ requestedCompile' = requestedCompile
  BY <1>1, HoldersStay
<1>3. Connected(c) => ~Has(commands[c], L) /\ ~requestedCompile[c]
  BY <1>1 DEF Runs, Connected
<1>4. /\ commands' \in [Clients -> Seq(Commands)]
      /\ \A d \in Clients \ {c} : commands'[d] = commands[d]
      /\ InOrder(commands'[c])
      /\ conn[c] = "open" =>
           \A y : Has(commands'[c], y) <=> y = L \/ Has(commands[c], y)
      /\ conn[c] # "open" => commands'[c] = commands[c]
  BY <1>1, <1>3, SendAppends
<1>5. ClientsTypeOK'
  BY <1>1, <1>4 DEF ClientsTypeOK
<1>6. \A d \in Clients \ {c} : Same(d) /\ replies'[d] = replies[d]
  BY <1>1, <1>4 DEF ClientsTypeOK, Same
<1>7. phase'[c] = "waitCompile"
  BY <1>1 DEF ClientsTypeOK
<1>8. Orderly(c)'
  <2>1. Asks(c)'
    BY <1>1, <1>2, <1>3, <1>4, CommandsDiffer DEF Asks, Connected
  <2>2. Runs(c)'
    BY <1>1, <1>2, <1>4, <1>7, CommandsDiffer DEF Runs, Ahead
  <2>3. Idle(c)'
    BY <1>1, <1>7 DEF Idle
  <2>4. QED
    BY <1>4, <2>1, <2>2, <2>3 DEF Orderly
<1>9. QED
  BY <1>1, <1>5, <1>6, <1>8, ClientMoves

(* The thread and the local compile move on without a message. *)
LEMMA QuietStepKeeps ==
  ASSUME DaemonInv, NEW c \in Clients,
         \/ ThreadRuns(c) \/ ThreadDone(c) \/ UploadSent(c)
         \/ CompileSlotAcquired(c) \/ SlotAcquisitionTimeout(c)
  PROVE  DaemonInv'
<1>1. /\ ClientsTypeOK
      /\ InOrder(commands[c]) /\ Asks(c) /\ Runs(c) /\ Idle(c)
      /\ UNCHANGED <<daemonVars, conn, commands, replies, hasCpp, hasCompile>>
  BY InvParts DEF ThreadRuns, ThreadDone, UploadSent, CompileSlotAcquired,
                  SlotAcquisitionTimeout, wireVars, slotVars
<1>2. /\ Cpp!Holders' = Cpp!Holders /\ Compile!Holders' = Compile!Holders
      /\ requestedCpp' = requestedCpp /\ requestedCompile' = requestedCompile
  BY <1>1, HoldersStay
<1>3. \/ /\ UNCHANGED <<phase, unsent>> /\ thread[c] = "waiting" /\ hasCpp[c]
         /\ thread' = [thread EXCEPT ![c] = "running"]
      \/ /\ UNCHANGED <<phase, unsent>> /\ thread[c] = "running"
         /\ thread' = [thread EXCEPT ![c] = "done"]
      \/ UNCHANGED <<phase, thread>> /\ unsent' = unsent \ {c}
      \/ /\ UNCHANGED <<thread, unsent>> /\ phase[c] = "waitCompile"
         /\ phase' = [phase EXCEPT ![c] = "compiling"]
  BY DEF ThreadRuns, ThreadDone, UploadSent, CompileSlotAcquired,
         SlotAcquisitionTimeout, GoTo
<1>4. ClientsTypeOK'
  BY <1>1, <1>3 DEF ClientsTypeOK
<1>5. \A d \in Clients \ {c} : Same(d) /\ replies'[d] = replies[d]
  BY <1>1, <1>3 DEF ClientsTypeOK, Same
<1>6. \/ /\ phase'[c] = phase[c] /\ thread[c] = "waiting" /\ hasCpp[c]
         /\ thread'[c] = "running"
      \/ /\ phase'[c] = phase[c] /\ thread[c] = "running"
         /\ thread'[c] = "done"
      \/ phase'[c] = phase[c] /\ thread'[c] = thread[c]
      \/ /\ thread'[c] = thread[c] /\ phase[c] = "waitCompile"
         /\ phase'[c] = "compiling"
  BY <1>1, <1>3 DEF ClientsTypeOK
<1>7. Orderly(c)'
  <2>1. Asks(c)'
    BY <1>1, <1>2 DEF Asks
  <2>2. Runs(c)'
    BY <1>1, <1>2, <1>6 DEF Runs, Ahead
  <2>3. Idle(c)'
    BY <1>1, <1>6 DEF Idle
  <2>4. QED
    BY <1>1, <2>1, <2>2, <2>3 DEF Orderly
<1>8. QED
  BY <1>1, <1>4, <1>5, <1>7, ClientMoves

(* --release-cpp-slot-mode: the slot goes back once, now or at the upload. *)
LEMMA UploadedJobKeeps ==
  ASSUME DaemonInv, NEW c \in Clients, UploadedJob(c)
  PROVE  DaemonInv'
<1>1. /\ ClientsTypeOK
      /\ InOrder(commands[c]) /\ Asks(c) /\ Runs(c) /\ Idle(c)
      /\ phase[c] = "remote"
      /\ phase' = [phase EXCEPT ![c] = "uploaded"]
      /\ unsent' = unsent \cup {c}
      /\ UNCHANGED <<daemonVars, conn, replies, thread, hasCpp, hasCompile>>
  BY InvParts DEF UploadedJob, GoTo, slotVars
<1>2. /\ Cpp!Holders' = Cpp!Holders /\ Compile!Holders' = Compile!Holders
      /\ requestedCpp' = requestedCpp /\ requestedCompile' = requestedCompile
  BY <1>1, HoldersStay
<1>3. phase'[c] = "uploaded"
  BY <1>1 DEF ClientsTypeOK
<1>4. CASE c \in UploadFinishers /\ Send(c, R)
  <2>1. Connected(c) => /\ ~Has(commands[c], R) /\ ~Has(commands[c], L)
                        /\ Has(commands[c], A) \/ requestedCpp[c]
    BY <1>1, <1>4 DEF Runs, Connected
  <2>2. Connected(c) => ~Ahead(c)
    BY <1>1 DEF Runs, Connected
  <2>3. /\ commands' \in [Clients -> Seq(Commands)]
        /\ \A d \in Clients \ {c} : commands'[d] = commands[d]
        /\ InOrder(commands'[c])
        /\ conn[c] = "open" =>
             \A y : Has(commands'[c], y) <=> y = R \/ Has(commands[c], y)
        /\ conn[c] # "open" => commands'[c] = commands[c]
    BY <1>1, <1>4, <2>1, SendAppends
  <2>4. ClientsTypeOK'
    BY <1>1, <2>3 DEF ClientsTypeOK
  <2>5. \A d \in Clients \ {c} : Same(d) /\ replies'[d] = replies[d]
    BY <1>1, <2>3 DEF ClientsTypeOK, Same
  <2>6. Orderly(c)'
    <3>1. Asks(c)'
      BY <1>1, <1>2, <2>1, <2>3, CommandsDiffer DEF Asks, Connected
    <3>2. Runs(c)'
      BY <1>1, <1>2, <1>3, <2>2, <2>3, CommandsDiffer DEF Runs, Ahead, Connected
    <3>3. Idle(c)'
      BY <1>1, <1>3 DEF Idle
    <3>4. QED
      BY <2>3, <3>1, <3>2, <3>3 DEF Orderly
  <2>7. QED
    BY <1>1, <2>4, <2>5, <2>6, ClientMoves
<1>5. CASE c \notin UploadFinishers /\ UNCHANGED commands
  <2>1. ClientsTypeOK'
    BY <1>1, <1>5 DEF ClientsTypeOK
  <2>2. \A d \in Clients \ {c} : Same(d) /\ replies'[d] = replies[d]
    BY <1>1, <1>5 DEF ClientsTypeOK, Same
  <2>3. Orderly(c)'
    <3>1. Asks(c)'
      BY <1>1, <1>2, <1>5 DEF Asks
    <3>2. Runs(c)'
      BY <1>1, <1>2, <1>3, <1>5 DEF Runs, Ahead
    <3>3. Idle(c)'
      BY <1>1, <1>3 DEF Idle
    <3>4. QED
      BY <1>1, <1>5, <3>1, <3>2, <3>3 DEF Orderly
  <2>4. QED
    BY <1>1, <2>1, <2>2, <2>3, ClientMoves
<1>6. QED
  BY <1>4, <1>5 DEF UploadedJob, R

(* The preprocessor is done: up to two commands in one step. *)
LEMMA PreprocessFinishedKeeps ==
  ASSUME DaemonInv, NEW c \in Clients, PreprocessFinished(c)
  PROVE  DaemonInv'
<1>1. /\ ClientsTypeOK
      /\ InOrder(commands[c]) /\ Asks(c) /\ Runs(c) /\ Idle(c)
      /\ phase[c] = "preprocess" /\ thread[c] = "done"
      /\ UNCHANGED <<daemonVars, conn, replies, thread, hasCpp, hasCompile,
                     unsent>>
  BY InvParts DEF PreprocessFinished, slotVars
<1>2. /\ Cpp!Holders' = Cpp!Holders /\ Compile!Holders' = Compile!Holders
      /\ requestedCpp' = requestedCpp /\ requestedCompile' = requestedCompile
  BY <1>1, HoldersStay
<1>3. PICK ok \in BOOLEAN :
         /\ phase' =
              [phase EXCEPT ![c] = IF ok THEN "remote" ELSE "waitCompile"]
         /\ commands' =
              IF Connected(c)
              THEN [commands EXCEPT ![c] =
                      @ \o (IF c \in UploadFinishers THEN <<>> ELSE <<R>>)
                        \o (IF ok THEN <<>> ELSE <<L>>)]
              ELSE commands
  BY DEF PreprocessFinished, GoTo, R, L
<1>4. phase'[c] = (IF ok THEN "remote" ELSE "waitCompile")
  BY <1>1, <1>3 DEF ClientsTypeOK
<1>5. Connected(c) =>
        /\ ~Has(commands[c], R) /\ ~Has(commands[c], L)
        /\ Has(commands[c], A) \/ requestedCpp[c]
        /\ ~requestedCompile[c]
  BY <1>1 DEF Runs, Connected
<1> DEFINE w == commands[c]
           v == IF c \in UploadFinishers THEN w ELSE Append(w, R)
           u == IF ok THEN v ELSE Append(v, L)
<1>6. ASSUME Connected(c)
      PROVE  /\ InOrder(v) /\ ~Has(v, L)
             /\ Has(v, A) <=> Has(w, A)
             /\ Has(v, R) <=> c \notin UploadFinishers
  <2>1. /\ InOrder(Append(w, R))
        /\ \A y : Has(Append(w, R), y) <=> y = R \/ Has(w, y)
    BY <1>1, <1>5, <1>6, CommandSent
  <2>2. QED
    BY <1>1, <1>5, <1>6, <2>1, CommandsDiffer
<1>7. ASSUME Connected(c)
      PROVE  /\ InOrder(u)
             /\ Has(u, A) <=> Has(w, A)
             /\ Has(u, R) <=> c \notin UploadFinishers
             /\ Has(u, L) <=> ~ok
  <2> HIDE DEF v
  <2>1. ~ok => /\ InOrder(Append(v, L))
               /\ \A y : Has(Append(v, L), y) <=> y = L \/ Has(v, y)
    <3>1. \A x \in {R, L} : x = L => ~Has(v, x)
      BY <1>6, <1>7
    <3>2. QED
      BY <1>6, <1>7, <3>1, CommandSent
  <2>2. QED
    BY <1>6, <1>7, <2>1, CommandsDiffer
<1>8. ASSUME Connected(c)
      PROVE  commands' = [commands EXCEPT ![c] = u]
  <2>1. w \in Seq(Commands) /\ R \in Commands /\ L \in Commands
    BY <1>1, CommandsDiffer DEF InOrder
  <2>2. /\ w \o <<>> = w
        /\ w \o <<R>> = Append(w, R)
        /\ Append(w, R) \in Seq(Commands)
    BY <2>1, AppendProperties, AppendIsConcat, ConcatEmptySeq
  <2>3. w \o (IF c \in UploadFinishers THEN <<>> ELSE <<R>>) = v
    BY <2>2
  <2>4. v \in Seq(Commands)
    BY <2>1, <2>2
  <2> HIDE DEF v
  <2>5. v \o <<>> = v /\ v \o <<L>> = Append(v, L)
    BY <2>1, <2>4, AppendIsConcat, ConcatEmptySeq
  <2>6. v \o (IF ok THEN <<>> ELSE <<L>>) = u
    BY <2>5
  <2>7. QED
    BY <1>3, <1>8, <2>3, <2>6
<1> HIDE DEF u, v
<1>9. /\ commands' \in [Clients -> Seq(Commands)]
      /\ \A d \in Clients \ {c} : commands'[d] = commands[d]
      /\ Connected(c) => commands'[c] = u
      /\ ~Connected(c) => commands'[c] = w
  <2>1. CASE Connected(c)
    BY <1>1, <1>7, <1>8, <2>1 DEF ClientsTypeOK, InOrder
  <2>2. CASE ~Connected(c)
    BY <1>1, <1>3, <2>2 DEF ClientsTypeOK
  <2>3. QED
    BY <2>1, <2>2
<1>10. ClientsTypeOK'
  BY <1>1, <1>3, <1>9 DEF ClientsTypeOK
<1>11. \A d \in Clients \ {c} : Same(d) /\ replies'[d] = replies[d]
  BY <1>1, <1>3, <1>9 DEF ClientsTypeOK, Same
<1>12. Orderly(c)'
  <2>1. CASE Connected(c)
    <3>1. Asks(c)'
      BY <1>1, <1>2, <1>5, <1>7, <1>9, <2>1 DEF Asks
    <3>2. Runs(c)'
      BY <1>1, <1>2, <1>4, <1>5, <1>7, <1>9, <2>1 DEF Runs, Ahead
    <3>3. Idle(c)'
      BY <1>1, <1>4 DEF Idle
    <3>4. QED
      BY <1>7, <1>9, <2>1, <3>1, <3>2, <3>3 DEF Orderly
  <2>2. CASE ~Connected(c)
    <3>1. Asks(c)'
      BY <1>1, <1>2, <1>9, <2>2 DEF Asks
    <3>2. Runs(c)'
      BY <1>1, <2>2 DEF Runs, Connected
    <3>3. Idle(c)'
      BY <1>1, <1>4 DEF Idle
    <3>4. QED
      BY <1>1, <1>9, <2>2, <3>1, <3>2, <3>3 DEF Orderly
  <2>3. QED
    BY <2>1, <2>2
<1>13. QED
  BY <1>1, <1>10, <1>11, <1>12, ClientMoves

(* The process ends: only what it had sent may still be read. *)
LEMMA ExitKeeps ==
  ASSUME DaemonInv, NEW c \in Clients, Exit(c)
  PROVE  DaemonInv'
<1>1. /\ ClientsTypeOK
      /\ InOrder(commands[c]) /\ Asks(c) /\ Idle(c)
      /\ phase' = [phase EXCEPT ![c] = "idle"]
      /\ thread' = [thread EXCEPT ![c] = "none"]
      /\ hasCpp' = [hasCpp EXCEPT ![c] = FALSE]
      /\ hasCompile' = [hasCompile EXCEPT ![c] = FALSE]
      /\ replies' = [replies EXCEPT ![c] = {}]
      /\ conn' = [conn EXCEPT ![c] = IF @ = "open" THEN "ended" ELSE @]
      /\ unsent' = unsent \ {c}
      /\ UNCHANGED daemonVars
  BY InvParts DEF Exit, GoTo
<1>2. /\ Cpp!Holders' = Cpp!Holders /\ Compile!Holders' = Compile!Holders
      /\ requestedCpp' = requestedCpp /\ requestedCompile' = requestedCompile
  BY <1>1, HoldersStay
<1>3. PICK n \in 0..Len(commands[c]) :
         commands' = [commands EXCEPT ![c] = SubSeq(commands[c], 1, n)]
  BY DEF Exit
<1> DEFINE w == commands[c]
           p == SubSeq(w, 1, n)
<1>4. /\ InOrder(p)
      /\ \A x : Has(p, x) => Has(w, x)
      /\ Has(w, A) /\ Has(p, R) => Has(p, A)
  BY <1>1, CommandsLost
<1>5. p \in Seq(Commands)
  BY <1>4 DEF InOrder
<1> HIDE DEF p
<1>6. commands' = [commands EXCEPT ![c] = p]
  BY <1>3 DEF p
<1>7. ClientsTypeOK'
  BY <1>1, <1>5, <1>6 DEF ClientsTypeOK
<1>8. \A d \in Clients \ {c} : Same(d) /\ replies'[d] = replies[d]
  BY <1>1, <1>6 DEF ClientsTypeOK, Same
<1>9. /\ commands'[c] = p /\ phase'[c] = "idle" /\ thread'[c] = "none"
      /\ ~hasCpp'[c] /\ ~hasCompile'[c] /\ replies'[c] = {}
      /\ conn'[c] # "open"
      /\ conn'[c] = "closed" <=> conn[c] = "closed"
  BY <1>1, <1>6 DEF ClientsTypeOK
<1>10. Orderly(c)'
  <2>1. Asks(c)'
    BY <1>1, <1>2, <1>4, <1>9 DEF Asks
  <2>2. Runs(c)'
    BY <1>9 DEF Runs
  <2>3. Idle(c)'
    BY <1>9 DEF Idle
  <2>4. QED
    BY <1>4, <1>9, <2>1, <2>2, <2>3 DEF Orderly
<1>11. QED
  BY <1>1, <1>7, <1>8, <1>9, <1>10, ClientMoves

(* Every step of a fiskc process keeps the invariant. *)
LEMMA ClientStepKeeps ==
  ASSUME DaemonInv, NEW c \in Clients,
         \/ Start(c) \/ ClientStep(c) \/ RunLocal(c)
         \/ SlotAcquisitionTimeout(c) \/ Killed(c)
  PROVE  DaemonInv'
BY StartKeeps, OnReadKeeps, QuietStepKeeps, RunLocalKeeps, UploadedJobKeeps,
   PreprocessFinishedKeeps, ExitKeeps
   DEF ClientStep, DaemonLost, Finish, Killed

-----------------------------------------------------------------------------
(* The steps of the daemon. *)
LEMMA FlagSet ==
  ASSUME NEW f \in [Clients -> BOOLEAN], NEW S, S = {d \in Clients : f[d]},
         NEW c \in Clients, NEW b \in BOOLEAN
  PROVE  /\ [f EXCEPT ![c] = b] \in [Clients -> BOOLEAN]
         /\ [f EXCEPT ![c] = b][c] = b
         /\ \A d \in Clients \ {c} : [f EXCEPT ![c] = b][d] = f[d]
         /\ b => S \cup {c} = {d \in Clients : [f EXCEPT ![c] = b][d]}
         /\ ~b => S \ {c} = {d \in Clients : [f EXCEPT ![c] = b][d]}
<1> DEFINE g == [f EXCEPT ![c] = b]
<1>1. /\ g \in [Clients -> BOOLEAN] /\ g[c] = b
      /\ \A d \in Clients \ {c} : g[d] = f[d]
  OBVIOUS
<1> HIDE DEF g
<1>2. b => S \cup {c} = {d \in Clients : g[d]}
  BY <1>1
<1>3. ~b => S \ {c} = {d \in Clients : g[d]}
  BY <1>1
<1>4. QED
  BY <1>1, <1>2, <1>3 DEF g

(* A command of one connection is served, or the connection closed. *)
LEMMA DaemonMoves ==
  ASSUME DaemonInv, NEW c \in Clients,
         UNCHANGED <<failed, stops, clientVars>>,
         commands' \in [Clients -> Seq(Commands)],
         conn' \in [Clients -> {"closed", "open", "ended"}],
         \A d \in Clients \ {c} : /\ commands'[d] = commands[d]
                                  /\ conn'[d] = conn[d],
         Cpp!SlotsInv', Compile!SlotsInv',
         requestedCpp' \in [Clients -> BOOLEAN],
         requestedCompile' \in [Clients -> BOOLEAN],
         \A d \in Clients \ {c} : /\ requestedCpp'[d] = requestedCpp[d]
                                  /\ requestedCompile'[d] = requestedCompile[d],
         Cpp!Requested' = {d \in Clients : requestedCpp'[d]},
         Compile!Requested' = {d \in Clients : requestedCompile'[d]},
         conn'[c] = "closed" => ~requestedCpp'[c] /\ ~requestedCompile'[c],
         \A d \in Clients \ {c} :
            /\ d \in Cpp!Holders => d \in Cpp!Holders'
            /\ d \in Compile!Holders => d \in Compile!Holders',
         replies' \in [Clients -> SUBSET Pools],
         \A d \in Clients :
            /\ conn[d] # "open" => replies'[d] \subseteq replies[d]
            /\ "cpp" \in replies'[d] =>
                 "cpp" \in replies[d] \/ d \in Cpp!Holders'
            /\ "compile" \in replies'[d] =>
                 "compile" \in replies[d] \/ d \in Compile!Holders',
         Orderly(c)'
  PROVE  DaemonInv'
<1>1. /\ failed' = failed /\ stops' = stops /\ phase' = phase
      /\ thread' = thread /\ hasCpp' = hasCpp /\ hasCompile' = hasCompile
      /\ unsent' = unsent
  BY DEF clientVars, slotVars
<1>2. TypeOK'
  BY <1>1 DEF DaemonInv, FlagsMatchPools, TypeOK, Cpp!SlotsInv, Compile!SlotsInv
<1>3. FlagsMatchPools'
  <2>1. ASSUME NEW d \in Cpp!Requested' \cup Compile!Requested'
        PROVE  conn'[d] # "closed"
    <3>1. CASE d = c
      BY <2>1, <3>1
    <3>2. CASE d # c
      <4>1. d \in Clients /\ (requestedCpp[d] \/ requestedCompile[d])
        BY <2>1, <3>2
      <4>2. conn[d] # "closed"
        BY <4>1 DEF DaemonInv, FlagsMatchPools
      <4>3. QED
        BY <3>2, <4>1, <4>2
    <3>3. QED
      BY <3>1, <3>2
  <2>2. QED
    BY <1>2, <2>1 DEF FlagsMatchPools
<1>4. ASSUME NEW d \in Clients
      PROVE  Orderly(d)'
  <2>1. CASE d # c
    <3>1. Same(d)
      BY <1>1, <2>1 DEF Same
    <3>2. Orderly(d)
      BY DEF DaemonInv
    <3>3. QED
      BY <2>1, <3>1, <3>2, Undisturbed
  <2>2. QED
    BY <2>1
<1>5. QED
  BY <1>1, <1>3, <1>4 DEF DaemonInv

(* The slots just granted are written to their holders' connections. *)
LEMMA GrantsSent ==
  ASSUME ClientsTypeOK, NEW pool \in Pools, NEW granted,
         SendGrants(pool, granted)
  PROVE  /\ replies' \in [Clients -> SUBSET Pools]
         /\ \A d \in Clients :
              /\ conn[d] # "open" => replies'[d] = replies[d]
              /\ \A p \in Pools :
                   p \in replies'[d] =>
                      p \in replies[d] \/ (p = pool /\ d \in granted)
<1>1. ASSUME NEW d \in Clients
      PROVE  /\ replies'[d] \in SUBSET Pools
             /\ conn[d] # "open" => replies'[d] = replies[d]
             /\ \A p \in Pools :
                   p \in replies'[d] =>
                      p \in replies[d] \/ (p = pool /\ d \in granted)
  BY DEF SendGrants, ClientsTypeOK
<1>2. replies' \in [Clients -> SUBSET Pools]
  BY DEF SendGrants, ClientsTypeOK
<1>3. QED
  BY <1>1, <1>2

(* Which handler the byte that was read selects (compile.js). *)
LEMMA ServeCpp ==
  ASSUME DaemonInv, NEW c \in Clients, OnData(c), Head(commands[c]) = A
  PROVE  AcquireCppSlot(c)
BY CommandsDiffer DEF OnData, A, R, L

(* The handler of "ReleaseCppSlot". *)
LEMMA ServeRelease ==
  ASSUME DaemonInv, NEW c \in Clients, OnData(c), Head(commands[c]) = R
  PROVE  ReleaseCppSlot(c)
BY CommandsDiffer DEF OnData, A, R, L

(* The handler of "AcquireCompileSlot". *)
LEMMA ServeCompile ==
  ASSUME DaemonInv, NEW c \in Clients, OnData(c), Head(commands[c]) = L
  PROVE  AcquireCompileSlot(c)
BY CommandsDiffer DEF OnData, A, R, L

(* What OnData does whatever the command, with the facts it finds. *)
LEMMA OnDataReads ==
  ASSUME DaemonInv, NEW c \in Clients, OnData(c)
  PROVE  /\ ClientsTypeOK /\ Runs(c) /\ Idle(c) /\ conn[c] # "closed"
         /\ UNCHANGED <<conn, clientVars>>
         /\ phase' = phase /\ thread' = thread
         /\ hasCpp' = hasCpp /\ hasCompile' = hasCompile
         /\ commands' \in [Clients -> Seq(Commands)]
         /\ \A d \in Clients \ {c} : commands'[d] = commands[d]
         /\ InOrder(commands'[c])
         /\ Head(commands[c]) \in {A, R, L}
         /\ \A x : Has(commands[c], x) <=>
                    Head(commands[c]) = x \/ Has(commands'[c], x)
         /\ ~Has(commands'[c], Head(commands[c])) /\ ~Has(commands'[c], A)
         /\ Head(commands[c]) = L => commands'[c] = <<>>
         /\ Has(commands[c], A) => ~requestedCpp[c]
         /\ Has(commands[c], R) => Has(commands[c], A) \/ requestedCpp[c]
         /\ Has(commands[c], L) => ~requestedCompile[c]
<1>1. /\ ClientsTypeOK /\ InOrder(commands[c])
      /\ Asks(c) /\ Runs(c) /\ Idle(c)
      /\ conn[c] # "closed" /\ commands[c] # <<>>
      /\ commands' = [commands EXCEPT ![c] = Tail(commands[c])]
      /\ UNCHANGED <<conn, clientVars>>
  BY InvParts DEF OnData
<1> DEFINE t == Tail(commands[c])
<1>2. /\ InOrder(t)
      /\ Head(commands[c]) \in {A, R, L}
      /\ \A x : Has(commands[c], x) <=> Head(commands[c]) = x \/ Has(t, x)
      /\ ~Has(t, Head(commands[c])) /\ ~Has(t, A)
      /\ Head(commands[c]) = L => t = <<>>
  BY <1>1, CommandRead
<1>3. t \in Seq(Commands)
  BY <1>2 DEF InOrder
<1> HIDE DEF t
<1>4. commands' = [commands EXCEPT ![c] = t]
  BY <1>1 DEF t
<1>5. /\ commands' \in [Clients -> Seq(Commands)] /\ commands'[c] = t
      /\ \A d \in Clients \ {c} : commands'[d] = commands[d]
  BY <1>1, <1>3, <1>4 DEF ClientsTypeOK
<1>6. QED
  BY <1>1, <1>2, <1>5 DEF Asks, clientVars, slotVars

(* fisk-daemon.js:58: the flag is not set yet when the request arrives. *)
LEMMA AcquireCppKeeps ==
  ASSUME DaemonInv, NEW c \in Clients, OnData(c), Head(commands[c]) = A
  PROVE  DaemonInv'
<1>1. /\ ClientsTypeOK /\ Runs(c) /\ Idle(c) /\ conn[c] # "closed"
      /\ UNCHANGED <<conn, clientVars>>
      /\ phase' = phase /\ thread' = thread
      /\ hasCpp' = hasCpp /\ hasCompile' = hasCompile
      /\ commands' \in [Clients -> Seq(Commands)]
      /\ \A d \in Clients \ {c} : commands'[d] = commands[d]
      /\ InOrder(commands'[c])
      /\ \A x : Has(commands[c], x) <=> A = x \/ Has(commands'[c], x)
      /\ ~Has(commands'[c], A)
      /\ ~requestedCpp[c]
      /\ Has(commands'[c], L) => ~requestedCompile[c]
  BY OnDataReads
<1>2. /\ requestedCpp' = [requestedCpp EXCEPT ![c] = TRUE]
      /\ Cpp!Acquire(c)
      /\ SendGrants("cpp", NewCppHolders)
      /\ UNCHANGED <<compileVars, requestedCompile, failed, stops>>
  BY <1>1, ServeCpp DEF AcquireCppSlot
<1>3. /\ requestedCpp \in [Clients -> BOOLEAN]
      /\ requestedCompile \in [Clients -> BOOLEAN]
      /\ Cpp!Requested = {d \in Clients : requestedCpp[d]}
      /\ Compile!Requested = {d \in Clients : requestedCompile[d]}
      /\ Cpp!SlotsInv /\ Compile!SlotsInv
  BY DEF DaemonInv, FlagsMatchPools, TypeOK
<1>4. c \notin Cpp!Requested
  BY <1>1, <1>3
<1>5. /\ Cpp!SlotsInv'
      /\ Cpp!Requested' = Cpp!Requested \cup {c}
      /\ Cpp!Holders \subseteq Cpp!Holders'
  BY <1>2, <1>3, <1>4, CppAcquired
<1>6. /\ Compile!SlotsInv'
      /\ Compile!Requested' = Compile!Requested
      /\ Compile!Holders' = Compile!Holders
  BY <1>2, <1>3, CompileUntouched
<1>7. /\ requestedCpp' \in [Clients -> BOOLEAN] /\ requestedCpp'[c]
      /\ \A d \in Clients \ {c} : requestedCpp'[d] = requestedCpp[d]
      /\ Cpp!Requested' = {d \in Clients : requestedCpp'[d]}
  BY <1>2, <1>3, <1>5, FlagSet
<1>8. /\ replies' \in [Clients -> SUBSET Pools]
      /\ \A d \in Clients :
           /\ conn[d] # "open" => replies'[d] = replies[d]
           /\ \A p \in Pools :
                p \in replies'[d] =>
                   p \in replies[d] \/ (p = "cpp" /\ d \in NewCppHolders)
  BY <1>1, <1>2, GrantsSent DEF Pools
<1>9. \A d \in Clients :
         /\ conn[d] # "open" => replies'[d] = replies[d]
         /\ "cpp" \in replies'[d] =>
              "cpp" \in replies[d] \/ d \in Cpp!Holders'
         /\ "compile" \in replies'[d] => "compile" \in replies[d]
  BY <1>8 DEF NewCppHolders, Pools
<1>10. Orderly(c)'
  <2>1. Asks(c)'
    BY <1>1, <1>2, <1>7 DEF Asks
  <2>2. Runs(c)'
    BY <1>1, <1>2, <1>5, <1>6, <1>7, <1>9, CommandsDiffer DEF Runs, Ahead
  <2>3. Idle(c)'
    BY <1>1, <1>9 DEF Idle
  <2>4. QED
    BY <1>1, <2>1, <2>2, <2>3 DEF Orderly
<1>11. QED
  <2>1. \A d \in Clients \ {c} : conn'[d] = conn[d]
    BY <1>1
  <2>2. /\ conn' \in [Clients -> {"closed", "open", "ended"}]
        /\ conn'[c] # "closed"
    BY <1>1 DEF ClientsTypeOK
  <2>3. Compile!Requested' = {d \in Clients : requestedCompile'[d]}
    BY <1>2, <1>3, <1>6
  <2>4. UNCHANGED <<failed, stops, clientVars>>
    BY <1>1, <1>2
  <2>5. /\ requestedCompile' \in [Clients -> BOOLEAN]
        /\ \A d \in Clients : requestedCompile'[d] = requestedCompile[d]
    BY <1>2, <1>3
  <2>6. QED
    BY <1>1, <1>5, <1>6, <1>7, <1>8, <1>9, <1>10,
       <2>1, <2>2, <2>3, <2>4, <2>5, DaemonMoves

(* fisk-daemon.js:82: the same for a compile slot. *)
LEMMA AcquireCompileKeeps ==
  ASSUME DaemonInv, NEW c \in Clients, OnData(c), Head(commands[c]) = L
  PROVE  DaemonInv'
<1>1. /\ ClientsTypeOK /\ Runs(c) /\ Idle(c) /\ conn[c] # "closed"
      /\ UNCHANGED <<conn, clientVars>>
      /\ phase' = phase /\ thread' = thread
      /\ hasCpp' = hasCpp /\ hasCompile' = hasCompile
      /\ commands' \in [Clients -> Seq(Commands)]
      /\ \A d \in Clients \ {c} : commands'[d] = commands[d]
      /\ InOrder(commands'[c])
      /\ \A x : Has(commands[c], x) <=> L = x \/ Has(commands'[c], x)
      /\ commands'[c] = <<>>
      /\ ~requestedCompile[c]
  BY OnDataReads
<1>2. /\ requestedCompile' = [requestedCompile EXCEPT ![c] = TRUE]
      /\ Compile!Acquire(c)
      /\ SendGrants("compile", NewCompileHolders)
      /\ UNCHANGED <<cppVars, requestedCpp, failed, stops>>
  BY <1>1, ServeCompile DEF AcquireCompileSlot
<1>3. /\ requestedCpp \in [Clients -> BOOLEAN]
      /\ requestedCompile \in [Clients -> BOOLEAN]
      /\ Cpp!Requested = {d \in Clients : requestedCpp[d]}
      /\ Compile!Requested = {d \in Clients : requestedCompile[d]}
      /\ Cpp!SlotsInv /\ Compile!SlotsInv
  BY DEF DaemonInv, FlagsMatchPools, TypeOK
<1>4. c \notin Compile!Requested
  BY <1>1, <1>3
<1>5. /\ Compile!SlotsInv'
      /\ Compile!Requested' = Compile!Requested \cup {c}
      /\ Compile!Holders \subseteq Compile!Holders'
  BY <1>2, <1>3, <1>4, CompileAcquired
<1>6. /\ Cpp!SlotsInv'
      /\ Cpp!Requested' = Cpp!Requested
      /\ Cpp!Holders' = Cpp!Holders
  BY <1>2, <1>3, CppUntouched
<1>7. /\ requestedCompile' \in [Clients -> BOOLEAN] /\ requestedCompile'[c]
      /\ \A d \in Clients \ {c} : requestedCompile'[d] = requestedCompile[d]
      /\ Compile!Requested' = {d \in Clients : requestedCompile'[d]}
  BY <1>2, <1>3, <1>5, FlagSet
<1>8. /\ replies' \in [Clients -> SUBSET Pools]
      /\ \A d \in Clients :
           /\ conn[d] # "open" => replies'[d] = replies[d]
           /\ \A p \in Pools :
                p \in replies'[d] =>
                   \/ p \in replies[d]
                   \/ p = "compile" /\ d \in NewCompileHolders
  BY <1>1, <1>2, GrantsSent DEF Pools
<1>9. \A d \in Clients :
         /\ conn[d] # "open" => replies'[d] = replies[d]
         /\ "compile" \in replies'[d] =>
              "compile" \in replies[d] \/ d \in Compile!Holders'
         /\ "cpp" \in replies'[d] => "cpp" \in replies[d]
  BY <1>8 DEF NewCompileHolders, Pools
<1>10. Orderly(c)'
  <2>1. Asks(c)'
    BY <1>1, NoCommands DEF Asks
  <2>2. Runs(c)'
    BY <1>1, <1>2, <1>5, <1>6, <1>9, NoCommands DEF Runs, Ahead
  <2>3. Idle(c)'
    BY <1>1, <1>9 DEF Idle
  <2>4. QED
    BY <1>1, <2>1, <2>2, <2>3 DEF Orderly
<1>11. QED
  <2>1. \A d \in Clients \ {c} : conn'[d] = conn[d]
    BY <1>1
  <2>2. /\ conn' \in [Clients -> {"closed", "open", "ended"}]
        /\ conn'[c] # "closed"
    BY <1>1 DEF ClientsTypeOK
  <2>3. Cpp!Requested' = {d \in Clients : requestedCpp'[d]}
    BY <1>2, <1>3, <1>6
  <2>4. UNCHANGED <<failed, stops, clientVars>>
    BY <1>1, <1>2
  <2>5. /\ requestedCpp' \in [Clients -> BOOLEAN]
        /\ \A d \in Clients : requestedCpp'[d] = requestedCpp[d]
    BY <1>2, <1>3
  <2>6. QED
    BY <1>1, <1>5, <1>6, <1>7, <1>8, <1>9, <1>10,
       <2>1, <2>2, <2>3, <2>4, <2>5, DaemonMoves

(* fisk-daemon.js:70: the client asked for the slot it gives back. *)
LEMMA ReleaseCppKeeps ==
  ASSUME DaemonInv, NEW c \in Clients, OnData(c), Head(commands[c]) = R
  PROVE  DaemonInv'
<1>1. /\ ClientsTypeOK /\ Runs(c) /\ Idle(c) /\ conn[c] # "closed"
      /\ UNCHANGED <<conn, clientVars>>
      /\ phase' = phase /\ thread' = thread
      /\ hasCpp' = hasCpp /\ hasCompile' = hasCompile
      /\ commands' \in [Clients -> Seq(Commands)]
      /\ \A d \in Clients \ {c} : commands'[d] = commands[d]
      /\ InOrder(commands'[c])
      /\ \A x : Has(commands[c], x) <=> R = x \/ Has(commands'[c], x)
      /\ ~Has(commands'[c], R) /\ ~Has(commands'[c], A)
      /\ requestedCpp[c]
      /\ Has(commands'[c], L) => ~requestedCompile[c]
  BY OnDataReads, CommandsDiffer
<1>2. /\ requestedCpp \in [Clients -> BOOLEAN]
      /\ requestedCompile \in [Clients -> BOOLEAN]
      /\ Cpp!Requested = {d \in Clients : requestedCpp[d]}
      /\ Compile!Requested = {d \in Clients : requestedCompile[d]}
      /\ Cpp!SlotsInv /\ Compile!SlotsInv
  BY DEF DaemonInv, FlagsMatchPools, TypeOK
<1>3. c \in Cpp!Requested /\ Cpp!ReleaseAsserts(c)
  BY <1>1, <1>2, CppReleaseAsserts
<1>4. /\ requestedCpp' = [requestedCpp EXCEPT ![c] = FALSE]
      /\ Cpp!Release(c)
      /\ SendGrants("cpp", NewCppHolders)
      /\ UNCHANGED <<compileVars, requestedCompile, failed, stops>>
  BY <1>1, <1>3, ServeRelease DEF ReleaseCppSlot
<1>5. /\ Cpp!SlotsInv'
      /\ Cpp!Requested' = Cpp!Requested \ {c}
      /\ Cpp!Holders \ {c} \subseteq Cpp!Holders'
  BY <1>2, <1>3, <1>4, CppReleased
<1>6. /\ Compile!SlotsInv'
      /\ Compile!Requested' = Compile!Requested
      /\ Compile!Holders' = Compile!Holders
  BY <1>2, <1>4, CompileUntouched
<1>7. /\ requestedCpp' \in [Clients -> BOOLEAN] /\ ~requestedCpp'[c]
      /\ \A d \in Clients \ {c} : requestedCpp'[d] = requestedCpp[d]
      /\ Cpp!Requested' = {d \in Clients : requestedCpp'[d]}
  BY <1>2, <1>4, <1>5, FlagSet
<1>8. /\ replies' \in [Clients -> SUBSET Pools]
      /\ \A d \in Clients :
           /\ conn[d] # "open" => replies'[d] = replies[d]
           /\ \A p \in Pools :
                p \in replies'[d] =>
                   p \in replies[d] \/ (p = "cpp" /\ d \in NewCppHolders)
  BY <1>1, <1>4, GrantsSent DEF Pools
<1>9. \A d \in Clients :
         /\ conn[d] # "open" => replies'[d] = replies[d]
         /\ "cpp" \in replies'[d] =>
              "cpp" \in replies[d] \/ d \in Cpp!Holders'
         /\ "compile" \in replies'[d] => "compile" \in replies[d]
  BY <1>8 DEF NewCppHolders, Pools
<1>10. Orderly(c)'
  <2>1. Asks(c)'
    BY <1>1, <1>4, <1>7 DEF Asks
  <2>2. Runs(c)'
    BY <1>1, <1>4, <1>5, <1>6, <1>9 DEF Runs, Ahead
  <2>3. Idle(c)'
    BY <1>1, <1>9 DEF Idle
  <2>4. QED
    BY <1>1, <2>1, <2>2, <2>3 DEF Orderly
<1>11. QED
  <2>1. \A d \in Clients \ {c} : conn'[d] = conn[d]
    BY <1>1
  <2>2. /\ conn' \in [Clients -> {"closed", "open", "ended"}]
        /\ conn'[c] # "closed"
    BY <1>1 DEF ClientsTypeOK
  <2>3. Compile!Requested' = {d \in Clients : requestedCompile'[d]}
    BY <1>2, <1>4, <1>6
  <2>4. UNCHANGED <<failed, stops, clientVars>>
    BY <1>1, <1>4
  <2>5. /\ requestedCompile' \in [Clients -> BOOLEAN]
        /\ \A d \in Clients : requestedCompile'[d] = requestedCompile[d]
    BY <1>2, <1>4
  <2>6. QED
    BY <1>1, <1>5, <1>6, <1>7, <1>8, <1>9, <1>10,
       <2>1, <2>2, <2>3, <2>4, <2>5, DaemonMoves

(* 'end' gives back whatever the connection has or waits for. *)
LEMMA GiveBackCppKeeps ==
  ASSUME Cpp!SlotsInv, NEW c \in Clients, GiveBackCpp(c),
         requestedCpp[c] <=> c \in Cpp!Requested
  PROVE  /\ Cpp!SlotsInv'
         /\ Cpp!Requested' = Cpp!Requested \ {c}
         /\ Cpp!Holders \ {c} \subseteq Cpp!Holders'
<1>1. CASE requestedCpp[c] /\ Cpp!Release(c)
  BY <1>1, CppReleased
<1>2. CASE ~requestedCpp[c] /\ UNCHANGED cppVars
  BY <1>2, CppUntouched
<1>3. QED
  BY <1>1, <1>2 DEF GiveBackCpp

(* The same for the compile pool. *)
LEMMA GiveBackCompileKeeps ==
  ASSUME Compile!SlotsInv, NEW c \in Clients, GiveBackCompile(c),
         requestedCompile[c] <=> c \in Compile!Requested
  PROVE  /\ Compile!SlotsInv'
         /\ Compile!Requested' = Compile!Requested \ {c}
         /\ Compile!Holders \ {c} \subseteq Compile!Holders'
<1>1. CASE requestedCompile[c] /\ Compile!Release(c)
  BY <1>1, CompileReleased
<1>2. CASE ~requestedCompile[c] /\ UNCHANGED compileVars
  BY <1>2, CompileUntouched
<1>3. QED
  BY <1>1, <1>2 DEF GiveBackCompile

(* A connection that ended leaves no request in either pool. *)
LEMMA OnEndKeeps ==
  ASSUME DaemonInv, NEW c \in Clients, OnEnd(c)
  PROVE  DaemonInv'
<1>1. /\ ClientsTypeOK /\ Idle(c)
      /\ requestedCpp[c] <=> c \in Cpp!Requested
      /\ requestedCompile[c] <=> c \in Compile!Requested
      /\ conn[c] = "ended"
      /\ conn' = [conn EXCEPT ![c] = "closed"]
      /\ commands' = [commands EXCEPT ![c] = <<>>]
      /\ GiveBackCpp(c) /\ GiveBackCompile(c)
      /\ requestedCpp' = [requestedCpp EXCEPT ![c] = FALSE]
      /\ requestedCompile' = [requestedCompile EXCEPT ![c] = FALSE]
      /\ UNCHANGED <<failed, stops, clientVars>>
  BY InvParts DEF OnEnd
<1>2. /\ requestedCpp \in [Clients -> BOOLEAN]
      /\ requestedCompile \in [Clients -> BOOLEAN]
      /\ Cpp!Requested = {d \in Clients : requestedCpp[d]}
      /\ Compile!Requested = {d \in Clients : requestedCompile[d]}
      /\ Cpp!SlotsInv /\ Compile!SlotsInv
  BY DEF DaemonInv, FlagsMatchPools, TypeOK
<1>3. /\ Cpp!SlotsInv'
      /\ Cpp!Requested' = Cpp!Requested \ {c}
      /\ Cpp!Holders \ {c} \subseteq Cpp!Holders'
  BY <1>1, <1>2, GiveBackCppKeeps
<1>4. /\ Compile!SlotsInv'
      /\ Compile!Requested' = Compile!Requested \ {c}
      /\ Compile!Holders \ {c} \subseteq Compile!Holders'
  BY <1>1, <1>2, GiveBackCompileKeeps
<1>5. /\ requestedCpp' \in [Clients -> BOOLEAN] /\ ~requestedCpp'[c]
      /\ \A d \in Clients \ {c} : requestedCpp'[d] = requestedCpp[d]
      /\ Cpp!Requested' = {d \in Clients : requestedCpp'[d]}
  BY <1>1, <1>2, <1>3, FlagSet
<1>6. /\ requestedCompile' \in [Clients -> BOOLEAN] /\ ~requestedCompile'[c]
      /\ \A d \in Clients \ {c} : requestedCompile'[d] = requestedCompile[d]
      /\ Compile!Requested' = {d \in Clients : requestedCompile'[d]}
  BY <1>1, <1>2, <1>4, FlagSet
<1>7. replies' = [d \in Clients |->
                    IF conn'[d] # "open" THEN replies[d]
                    ELSE replies[d] \cup
                           {p \in Pools :
                              \/ p = "cpp" /\ d \in NewCppHolders
                              \/ p = "compile" /\ d \in NewCompileHolders}]
  BY DEF OnEnd
<1>8. replies' \in [Clients -> SUBSET Pools]
  BY <1>1, <1>7 DEF ClientsTypeOK
<1>9. /\ conn'[c] = "closed" /\ commands'[c] = <<>>
      /\ \A d \in Clients \ {c} : /\ conn'[d] = conn[d]
                                /\ commands'[d] = commands[d]
      /\ conn' \in [Clients -> {"closed", "open", "ended"}]
      /\ commands' \in [Clients -> Seq(Commands)]
  BY <1>1 DEF ClientsTypeOK
<1>10. \A d \in Clients :
          /\ conn[d] # "open" => replies'[d] = replies[d]
          /\ "cpp" \in replies'[d] =>
               "cpp" \in replies[d] \/ d \in Cpp!Holders'
          /\ "compile" \in replies'[d] =>
               "compile" \in replies[d] \/ d \in Compile!Holders'
  <2>1. \A d \in Clients : conn[d] # "open" => conn'[d] # "open"
    BY <1>1, <1>9
  <2>2. QED
    BY <1>7, <2>1 DEF NewCppHolders, NewCompileHolders
<1>11. Orderly(c)'
  <2>1. /\ phase' = phase /\ thread' = thread
        /\ hasCpp' = hasCpp /\ hasCompile' = hasCompile
    BY <1>1 DEF clientVars, slotVars
  <2>2. Asks(c)' /\ Runs(c)' /\ InOrder(commands[c])'
    BY <1>9, NoCommands DEF Asks, Runs
  <2>3. Idle(c)'
    BY <1>1, <1>9, <1>10, <2>1 DEF Idle
  <2>4. QED
    BY <2>2, <2>3 DEF Orderly
<1>12. QED
  BY <1>1, <1>3, <1>4, <1>5, <1>6, <1>8, <1>9, <1>10, <1>11, DaemonMoves

(* The daemon starts again with empty pools, and nobody is connected. *)
LEMMA DaemonStopsKeeps ==
  ASSUME DaemonInv, DaemonStops
  PROVE  DaemonInv'
<1>1. /\ TypeOK /\ ~failed
      /\ \A c \in Clients : Orderly(c)
  BY DEF DaemonInv, FlagsMatchPools
<1>2. /\ stops < MaxStops /\ stops' = stops + 1
      /\ Cpp!SlotsInit' /\ Compile!SlotsInit'
      /\ requestedCpp' = Nobody /\ requestedCompile' = Nobody
      /\ conn' = [c \in Clients |-> "closed"]
      /\ commands' = [c \in Clients |-> <<>>]
      /\ failed' = failed /\ replies' = replies /\ phase' = phase
      /\ thread' = thread /\ hasCpp' = hasCpp /\ hasCompile' = hasCompile
      /\ unsent' = unsent
  BY DEF DaemonStops, Cpp!SlotsInit, Compile!SlotsInit, clientVars, slotVars
<1>3. /\ Cpp!SlotsInv' /\ Cpp!Requested' = {}
      /\ Compile!SlotsInv' /\ Compile!Requested' = {}
  <2>1. (Cpp!SlotsInit => Cpp!SlotsInv /\ Cpp!Requested = {})'
    BY PoolsStart, PTL
  <2>2. (Compile!SlotsInit => Compile!SlotsInv /\ Compile!Requested = {})'
    BY PoolsStart, PTL
  <2>3. QED
    BY <1>2, <2>1, <2>2
<1>4. TypeOK'
  <2>1. stops' \in 0..MaxStops
    BY <1>1, <1>2, DaemonAssumption DEF TypeOK
  <2>2. commands' \in [Clients -> Seq(Commands)]
    BY <1>2
  <2>3. QED
    BY <1>1, <1>2, <1>3, <2>1, <2>2
       DEF TypeOK, Nobody, Cpp!SlotsInv, Compile!SlotsInv
<1>5. FlagsMatchPools'
  BY <1>2, <1>3, <1>4 DEF FlagsMatchPools, Nobody
<1>6. ASSUME NEW c \in Clients
      PROVE  Orderly(c)'
  <2>1. conn'[c] = "closed" /\ commands'[c] = <<>>
    BY <1>2
  <2>2. Asks(c)' /\ Runs(c)' /\ InOrder(commands[c])'
    BY <2>1, NoCommands DEF Asks, Runs
  <2>3. Idle(c)'
    BY <1>1, <1>2, <2>1 DEF Orderly, Idle
  <2>4. QED
    BY <2>2, <2>3 DEF Orderly
<1>7. QED
  BY <1>1, <1>2, <1>3, <1>5, <1>6 DEF DaemonInv

-----------------------------------------------------------------------------
(* Nobody is connected and no slot is taken at the start. *)
LEMMA DaemonStart == Init => DaemonInv
<1> SUFFICES ASSUME Init
             PROVE  DaemonInv
  OBVIOUS
<1>1. /\ Cpp!SlotsInv /\ Cpp!Requested = {}
      /\ Compile!SlotsInv /\ Compile!Requested = {}
  BY PoolsStart DEF Init
<1>2. TypeOK
  <2>1. stops \in 0..MaxStops
    BY DaemonAssumption DEF Init
  <2>2. commands \in [Clients -> Seq(Commands)]
    BY DEF Init
  <2>3. replies \in [Clients -> SUBSET Pools]
    BY DEF Init
  <2>4. /\ failed \in BOOLEAN /\ unsent \subseteq Clients
        /\ requestedCpp \in [Clients -> BOOLEAN]
        /\ requestedCompile \in [Clients -> BOOLEAN]
        /\ hasCpp \in [Clients -> BOOLEAN]
        /\ hasCompile \in [Clients -> BOOLEAN]
    BY DEF Init, Nobody
  <2>5. /\ conn \in [Clients -> {"closed", "open", "ended"}]
        /\ phase \in [Clients -> {"idle", "preprocess", "remote", "uploaded",
                                  "waitCompile", "compiling"}]
        /\ thread \in [Clients -> {"none", "waiting", "running", "done"}]
    BY DEF Init
  <2>6. QED
    BY <1>1, <2>1, <2>2, <2>3, <2>4, <2>5
       DEF TypeOK, Cpp!SlotsInv, Compile!SlotsInv
<1>3. FlagsMatchPools
  BY <1>1, <1>2 DEF Init, FlagsMatchPools, Nobody
<1>4. \A c \in Clients : Orderly(c)
  BY NoCommands DEF Init, Nobody, Orderly, Asks, Runs, Ahead, Idle
<1>5. QED
  BY <1>1, <1>3, <1>4 DEF Init, DaemonInv

(* Every step of the daemon and of the clients keeps the invariant. *)
LEMMA DaemonStep == DaemonInv /\ [Next]_vars => DaemonInv'
<1> SUFFICES ASSUME DaemonInv, [Next]_vars
             PROVE  DaemonInv'
  OBVIOUS
<1>1. CASE DaemonStops
  BY <1>1, DaemonStopsKeeps
<1>2. ASSUME NEW c \in Clients, OnData(c)
      PROVE  DaemonInv'
  <2>1. Head(commands[c]) \in {A, R, L}
    BY <1>2, OnDataReads
  <2>2. QED
    BY <1>2, <2>1, AcquireCppKeeps, AcquireCompileKeeps, ReleaseCppKeeps
<1>3. ASSUME NEW c \in Clients, OnEnd(c)
      PROVE  DaemonInv'
  BY <1>3, OnEndKeeps
<1>4. ASSUME NEW c \in Clients,
             \/ Start(c) \/ ClientStep(c) \/ RunLocal(c)
             \/ SlotAcquisitionTimeout(c) \/ Killed(c)
      PROVE  DaemonInv'
  BY <1>4, ClientStepKeeps
<1>5. CASE UNCHANGED vars
  <2>1. /\ UNCHANGED <<cppVars, compileVars, flagVars, failed, stops>>
        /\ UNCHANGED <<conn, commands, replies, phase, thread, hasCpp,
                       hasCompile, unsent>>
    BY <1>5 DEF vars, daemonVars, wireVars, clientVars, slotVars
  <2>2. /\ Cpp!SlotsInv' /\ Cpp!Requested' = Cpp!Requested
        /\ Cpp!Holders' = Cpp!Holders
        /\ Compile!SlotsInv' /\ Compile!Requested' = Compile!Requested
        /\ Compile!Holders' = Compile!Holders
    BY <2>1, CppUntouched, CompileUntouched DEF DaemonInv
  <2>3. FlagsMatchPools'
    BY <2>1, <2>2
       DEF DaemonInv, FlagsMatchPools, TypeOK, flagVars,
           Cpp!SlotsInv, Compile!SlotsInv
  <2>4. \A c \in Clients : Orderly(c)'
    BY <2>1, <2>2 DEF DaemonInv, Orderly, Asks, Runs, Ahead, Idle, flagVars
  <2>5. QED
    BY <2>1, <2>2, <2>3, <2>4 DEF DaemonInv
<1>6. QED
  BY <1>1, <1>2, <1>3, <1>4, <1>5 DEF Next

(***************************************************************************)
(* The daemon's invariant, for any number of fiskc processes and slots:    *)
(* the commands a client has under way always fit the flags the daemon     *)
(* keeps for it, so neither ever misjudges the other.                      *)
(***************************************************************************)
THEOREM DaemonInvariant == Spec => []DaemonInv
<1>1. QED
  BY DaemonStart, DaemonStep, PTL DEF Spec

(***************************************************************************)
(* No assertion of fisk-daemon.js or slots.js ever fails: no order in      *)
(* which clients ask, give up, time out and die takes the daemon down.     *)
(***************************************************************************)
THEOREM DaemonSurvives == Spec => []NoAssertionFails
<1>1. DaemonInv => NoAssertionFails
  BY DEF DaemonInv, NoAssertionFails
<1>2. QED
  BY <1>1, DaemonInvariant, PTL

(***************************************************************************)
(* No slot leaks: the pools hold exactly the requests of the connections   *)
(* the daemon still has.                                                   *)
(***************************************************************************)
THEOREM NoSlotLeaks == Spec => []FlagsMatchPools
<1>1. DaemonInv => FlagsMatchPools
  BY DEF DaemonInv
<1>2. QED
  BY <1>1, DaemonInvariant, PTL

(***************************************************************************)
(* Whoever preprocesses while connected has a cpp slot at that moment, and *)
(* whoever was told it has a compile slot has one.                         *)
(***************************************************************************)
THEOREM PreprocessorsHaveSlots == Spec => []RunningHasSlot
<1>1. DaemonInv => RunningHasSlot
  BY DEF DaemonInv, Orderly, Idle, Runs, Ahead, RunningHasSlot, Connected
<1>2. QED
  BY <1>1, DaemonInvariant, PTL
=============================================================================
