---------------------------- MODULE ObjectCache ----------------------------
(***************************************************************************)
(* The object cache of one builder (builder/objectcache.js), the files it  *)
(* keeps, and what the scheduler believes is in it                         *)
(* (scheduler/objectcachemanager.js).                                      *)
(*                                                                         *)
(* Files are written asynchronously, by add() and by the downloads of      *)
(* fetch_cache_objects, so writes overlap with everything else.  Each      *)
(* connection to the scheduler makes a new ObjectCache from the directory; *)
(* the one before lives on while a write of it is pending, and still       *)
(* reports what it does.  Nothing keeps two writers of one file apart.  An *)
(* object's size depends on its hash only.                                 *)
(***************************************************************************)
EXTENDS Integers, FiniteSets, Sequences, SequencesExt, FiniteSetsExt, KeyOrder

CONSTANTS
  Md5s,       \* hashes of preprocessed sources
  FileSize,   \* FileSize[m]: bytes of the file of m
  BigHeaders, \* objects with a header over 16k, which loadFile refuses
  MaxSize,    \* maxSize
  PurgeSize,  \* purgeSize
  Streams,    \* bound: the downloads that can be under way at a time
  MaxFetches, \* bound: downloads the scheduler orders
  MaxStops,   \* bound: losses of the connection and restarts
  MaxWire     \* bound: messages in flight when one more is caused

ASSUME ObjectCacheAssumption ==
  /\ IsFiniteSet(Md5s) /\ FileSize \in [Md5s -> Nat \ {0}]
  /\ BigHeaders \subseteq Md5s
  /\ MaxSize \in Nat /\ PurgeSize \in 0..MaxSize
  /\ Streams \cap {"now", "old"} = {}
  /\ MaxFetches \in Nat /\ MaxStops \in Nat /\ MaxWire \in Nat

VARIABLES
  cache,    \* the keys of cache in their order, of both instances
  size,     \* size, of both instances
  fd,       \* what each writer has open: the instances, the downloads
  disk,     \* the file of m in the cache's directory
  link,     \* the connection to the scheduler; "fresh": never connected
  wire,     \* messages on their way to the scheduler
  known,    \* how often the builder is among byMd5.get(m).nodes
  muddled,  \* history: writes have met a reconnect or each other, see below
  fetches, stops   \* downloads begun; connections lost

cacheVars == <<cache, size, fd, disk, link, wire, known, muddled,
          fetches, stops>>

Instances == {"now", "old"}
Writers == Instances \cup Streams

(* Of a file that is being written: lost, it was removed under the writer; *)
(* cut, it was truncated by another.                                       *)
Handles == {"closed", "open", "cut", "lost"}

(* Of a file: torn has its full length, but a hole where a writer went on  *)
(* in a file that had been truncated.                                      *)
Contents == {"none", "partial", "torn", "whole"}

Message == [type : {"sync"}, md5s : SUBSET Md5s]
           \cup [type : {"added", "removed"}, md5 : Md5s]

CacheTypeOK ==
  /\ cache \in [Instances -> SeqOf(Md5s, Cardinality(Md5s))]
  /\ size \in [Instances -> Nat]
  /\ fd \in [Writers -> [Md5s -> Handles]]
  /\ disk \in [Md5s -> Contents]
  /\ link \in {"fresh", "down", "up"}
  /\ wire \in Seq(Message)
  /\ known \in [Md5s -> Nat]
  /\ muddled \in BOOLEAN /\ stops \in 0..MaxStops
  /\ fetches \in 0..MaxFetches

Closed == [m \in Md5s |-> "closed"]

CacheInit ==
  /\ cache = [i \in Instances |-> <<>>] /\ size = [i \in Instances |-> 0]
  /\ fd = [w \in Writers |-> Closed]
  /\ disk \in [Md5s -> Contents]            \* left by an earlier run
  /\ link = "fresh" /\ wire = <<>> /\ known = [m \in Md5s |-> 0]
  /\ muddled = FALSE /\ stops = 0 /\ fetches = 0

-----------------------------------------------------------------------------
(* Helpers: bytes, files, messages.                                        *)

Weight(S) == MapThenSumSet(LAMBDA m : FileSize[m], S)
Cached(i) == ToSet(cache[i])
Writing(w) == {m \in Md5s : fd[w][m] # "closed"}

(* The files of S are removed; who is writing one writes to nowhere. *)
Erase(d, S) == [m \in Md5s |-> IF m \in S THEN "none" ELSE d[m]]
Lose(f, S) ==
  [w \in Writers |-> [m \in Md5s |->
     IF m \in S /\ f[w][m] # "closed" THEN "lost" ELSE f[w][m]]]

BeingWritten(m) == \E w \in Writers : m \in Writing(w)

(* createWriteStream: the file of m is truncated, whoever is writing it. *)
Open(w, m) ==
  /\ fd' = [v \in Writers |->
               IF v = w THEN [fd[v] EXCEPT ![m] = "open"]
               ELSE [fd[v] EXCEPT ![m] = IF @ = "open" THEN "cut" ELSE @]]
  /\ disk' = [disk EXCEPT ![m] = "partial"]

(* client.send drops what it is given while there is no connection. *)
Send(msgs) == wire' = IF link = "up" THEN wire \o msgs ELSE wire
Added(m) == <<[type |-> "added", md5 |-> m]>>
Removed(gone) == [x \in DOMAIN gone |-> [type |-> "removed", md5 |-> gone[x]]]

(* Mutant of Evict: the scheduler is not told. *)
EvictQuietly(i, c, n, gone, msgs, f) ==
  /\ cache' = [cache EXCEPT ![i] = Without(c, ToSet(gone))]
  /\ size' = [size EXCEPT ![i] = n - Weight(ToSet(gone))]
  /\ disk' = Erase(disk, ToSet(gone)) /\ fd' = Lose(f, ToSet(gone))
  /\ Send(msgs)

(* Instance i has the keys c and the size n, then remove(md5) is called for *)
(* each of gone.                                                            *)
Evict(i, c, n, gone, msgs, f) ==
  /\ cache' = [cache EXCEPT ![i] = Without(c, ToSet(gone))]
  /\ size' = [size EXCEPT ![i] = n - Weight(ToSet(gone))]
  /\ disk' = Erase(disk, ToSet(gone)) /\ fd' = Lose(f, ToSet(gone))
  /\ Send(msgs \o Removed(gone))

(* What purge(target) removes: the oldest, until size is small enough. *)
Purged(c, n, target) ==
  LET Enough(k) == n - Weight(ToSet(SubSeq(c, 1, k))) <= target
      k == CHOOSE k \in 0..Len(c) :
             /\ Enough(k) \/ k = Len(c)
             /\ \A j \in 0..k - 1 : ~Enough(j)
  IN SubSeq(c, 1, k)

(* this.cache[md5] = item: a new key comes last, an old one stays put. *)
WithKey(c, m) == IF m \in ToSet(c) THEN c ELSE Append(c, m)

-----------------------------------------------------------------------------
(* add(): objects compiled here.                                           *)

(* A compile succeeded and state(md5) is none: a file is created. *)
AddStarts(m) ==
  /\ link # "fresh"                                \* objectCache is set
  /\ m \notin Cached("now") \cup Writing("now")
  /\ Open("now", m)
  /\ muddled' = (muddled \/ BeingWritten(m))
  /\ UNCHANGED <<cache, size, link, wire, known, fetches, stops>>

(* The last byte reaches the file. *)
Flush(w, m) ==
  /\ \/ /\ fd[w][m] = "open" /\ disk[m] \in {"partial", "torn"}
        /\ disk' = [disk EXCEPT ![m] = "whole"]
     \/ /\ fd[w][m] = "cut" /\ disk[m] = "partial"
        /\ \E d \in {"torn", "whole"} : disk' = [disk EXCEPT ![m] = d]
  /\ UNCHANGED <<cache, size, fd, link, wire, known, muddled, fetches, stops>>

FullLength(m) == disk[m] \in {"torn", "whole"}
Close(w, m) == [fd EXCEPT ![w][m] = "closed"]

(* Mutant of Accept: purge() before the new size is counted.               *)
AcceptLate(i, m) ==
  LET c == WithKey(cache[i], m)
      n == size[i] + FileSize[m]
      gone == IF size[i] > MaxSize THEN Purged(c, n, PurgeSize) ELSE <<>>
  IN Evict(i, c, n, gone, Added(m), Close(i, m))

(* The file has the right size: it is cached, and old ones make way. *)
Accept(i, m) ==
  LET c == WithKey(cache[i], m)
      n == size[i] + FileSize[m]
      gone == IF n > MaxSize THEN Purged(c, n, PurgeSize) ELSE <<>>
  IN Evict(i, c, n, gone, Added(m), Close(i, m))

(* The file has the wrong size: it is unlinked. *)
Reject(w, m) ==
  /\ disk' = Erase(disk, {m}) /\ fd' = Lose(Close(w, m), {m})
  /\ UNCHANGED <<cache, size, wire>>

(* Mutant of WriteEnds: the size of the file is not compared. *)
WriteEndsUnchecked(i, m) ==
  /\ m \in Writing(i) /\ Len(wire) < MaxWire
  /\ Accept(i, m)
  /\ UNCHANGED <<link, known, muddled, fetches, stops>>

(* The callback of pendingItem.end(); it may come before all is written    *)
(* (PendingItem calls it itself once its buffer has drained).              *)
WriteEnds(i, m) ==
  /\ m \in Writing(i) /\ Len(wire) < MaxWire
  /\ \/ FullLength(m) /\ Accept(i, m)
     \/ ~FullLength(m) /\ Reject(i, m)
  /\ UNCHANGED <<link, known, muddled, fetches, stops>>

(* pendingItem.file "error": what was written so far stays. *)
WriteFails(i, m) ==
  /\ m \in Writing(i)
  /\ fd' = Close(i, m)
  /\ UNCHANGED <<cache, size, disk, link, wire, known, muddled, fetches, stops>>

-----------------------------------------------------------------------------
(* Reading, removing, clearing.                                            *)

(* get(md5): the key becomes the newest. *)
Touch(m) ==
  /\ m \in Cached("now")
  /\ cache' = [cache EXCEPT !["now"] = Append(RemoveFirst(@, m), m)]
  /\ UNCHANGED <<size, fd, disk, link, wire, known, muddled, fetches, stops>>

(* getFromCache found no file, or could not read it: remove(md5). *)
ReadFails(m) ==
  /\ m \in Cached("now") /\ Len(wire) < MaxWire
  /\ Evict("now", cache["now"], size["now"], <<m>>, <<>>, fd)
  /\ UNCHANGED <<link, known, muddled, fetches, stops>>

(* clearObjectCache: purge(0). *)
Clear ==
  /\ link = "up" /\ cache["now"] # <<>> /\ Len(wire) < MaxWire
  /\ Evict("now", cache["now"], size["now"],
            Purged(cache["now"], size["now"], 0), <<>>, fd)
  /\ UNCHANGED <<link, known, muddled, fetches, stops>>

-----------------------------------------------------------------------------
(* fetch_cache_objects: objects of other builders.                         *)

(* A download begins.  The order was given some time ago, when the         *)
(* scheduler did not know of m here; neither state(), nor the downloads    *)
(* under way, nor the connection is looked at.                             *)
FetchStarts(w, m) ==
  /\ fetches < MaxFetches /\ fetches' = fetches + 1
  /\ link # "fresh" /\ Writing(w) = {}
  /\ Open(w, m)
  /\ muddled' = (muddled \/ m \in Cached("now") \/ BeingWritten(m))
  /\ UNCHANGED <<cache, size, link, wire, known, stops>>

(* loadFile, of a file of the right size.  Nothing makes way for it. *)
Load(w, m) ==
  Evict("now", WithKey(cache["now"], m), size["now"] + FileSize[m], <<>>,
         Added(m), Close(w, m))

(* stream "finish": the file is loaded, or removed.  Only the header of a  *)
(* torn file is looked at.                                                 *)
FetchEnds(w, m) ==
  /\ m \in Writing(w) /\ Len(wire) < MaxWire
  /\ \/ FullLength(m) /\ m \notin BigHeaders /\ Load(w, m)
     \/ (disk[m] # "whole" \/ m \in BigHeaders) /\ Reject(w, m)
  /\ UNCHANGED <<link, known, muddled, fetches, stops>>

(* stream "error" *)
FetchFails(w, m) ==
  /\ m \in Writing(w)
  /\ fd' = Close(w, m)
  /\ UNCHANGED <<cache, size, disk, link, wire, known, muddled, fetches, stops>>

-----------------------------------------------------------------------------
(* The connection to the scheduler, and the scheduler.                     *)

(* The close: removeNode on the other side.  If that comes late, the node  *)
(* of the old connection is another one than that of the next.             *)
Disconnect ==
  /\ link = "up" /\ stops < MaxStops
  /\ link' = "down" /\ stops' = stops + 1
  /\ wire' = <<>> /\ known' = [m \in Md5s |-> 0]
  /\ UNCHANGED <<cache, size, fd, disk, muddled, fetches>>

(* The builder's process dies and is started again. *)
Restart ==
  /\ stops < MaxStops
  /\ stops' = stops + 1 /\ link' = "fresh" /\ muddled' = FALSE
  /\ cache' = [i \in Instances |-> <<>>] /\ size' = [i \in Instances |-> 0]
  /\ fd' = [w \in Writers |-> Closed]
  /\ wire' = <<>> /\ known' = [m \in Md5s |-> 0]
  /\ UNCHANGED <<disk, fetches>>

(* client "objectCache", then "connect": a new instance loads what is in   *)
(* the directory, in the order of access times, removes files it can't     *)
(* load (too short, a bad or big header), and tells the scheduler what it  *)
(* has.  One older instance at a time may still be writing.                *)
Reconnect ==
  \E torn \in SUBSET {m \in Md5s \ BigHeaders : disk[m] = "torn"} :
    LET found == torn \cup {m \in Md5s \ BigHeaders : disk[m] = "whole"}
        f == Lose(fd, Md5s \ found)
    IN /\ link # "up" /\ Writing("old") = {}
       /\ \E c \in SetToSeqs(found) :
            cache' = [now |-> c,
                      old |-> IF Writing("now") = {} THEN <<>> ELSE cache["now"]]
       /\ size' = [now |-> Weight(found),
                   old |-> IF Writing("now") = {} THEN 0 ELSE size["now"]]
       /\ fd' = [f EXCEPT !["now"] = Closed, !["old"] = f["now"]]
       /\ disk' = Erase(disk, Md5s \ found)
       /\ link' = "up" /\ wire' = <<[type |-> "sync", md5s |-> found]>>
       /\ muddled' = (torn # {} \/ \E m \in Md5s : BeingWritten(m))
       /\ UNCHANGED <<known, fetches, stops>>

(* addNode, insert and remove of the manager. *)
Learn(view, msg) ==
  CASE msg.type = "sync" -> [m \in Md5s |-> IF m \in msg.md5s THEN 1 ELSE 0]
    [] msg.type = "added" -> [view EXCEPT ![msg.md5] = @ + 1]
    [] msg.type = "removed" ->
         [view EXCEPT ![msg.md5] = IF @ > 0 THEN @ - 1 ELSE 0]

SchedulerReceives ==
  /\ wire # <<>>
  /\ known' = Learn(known, Head(wire)) /\ wire' = Tail(wire)
  /\ UNCHANGED <<cache, size, fd, disk, link, muddled, fetches, stops>>

CacheNext ==
  \/ \E m \in Md5s :
       \/ AddStarts(m) \/ Touch(m) \/ ReadFails(m)
       \/ \E w \in Streams :
            FetchStarts(w, m) \/ FetchEnds(w, m) \/ FetchFails(w, m)
       \/ \E w \in Writers : Flush(w, m)
       \/ \E i \in Instances : WriteEnds(i, m) \/ WriteFails(i, m)
  \/ Clear \/ Disconnect \/ Restart \/ Reconnect \/ SchedulerReceives

CacheSpec == CacheInit /\ [][CacheNext]_cacheVars

-----------------------------------------------------------------------------
(* muddled says that the current instance was made while a write was going *)
(* on, or from what such writes had left; or that a download met an object *)
(* that was there or being written, by an add or by another download.      *)
(* Nothing in the code keeps these apart.  The properties below hold until *)
(* it happens, and again after the next connection made in quiet.          *)

(* Every cached object has its whole file, so that getFromCache can answer *)
(* from it (fisk-builder.js:100-131), and size is the sum of their sizes:  *)
(* no order of adds, removals, purges and downloads makes them drift apart. *)
CachedIsOnDisk ==
  /\ CacheTypeOK
  /\ ~muddled => /\ \A m \in Cached("now") : disk[m] = "whole"
                 /\ size["now"] = Weight(Cached("now"))

(* When the messages in flight have arrived, the scheduler lists this      *)
(* builder once for each cached object, and for no other: it sends it      *)
(* neither jobs it cannot answer nor objects it has.                       *)
SchedulerKnows ==
  ~muddled /\ link = "up" =>
    FoldLeft(Learn, known, wire)
      = [m \in Md5s |-> IF m \in Cached("now") THEN 1 ELSE 0]

(* An add leaves the cache within maxSize, however far loading and         *)
(* downloads took it beyond, and does not purge what it added if that fits *)
(* at all.                                                                 *)
AddsEndWithinLimit ==
  [][\A m \in Md5s : ~muddled /\ disk[m] = "whole" /\ WriteEnds("now", m)
       => /\ Weight(ToSet(cache'["now"])) <= MaxSize
          /\ FileSize[m] <= PurgeSize => m \in ToSet(cache'["now"])]_cacheVars

=============================================================================
