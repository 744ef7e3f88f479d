---------------------------- MODULE SlotsProofs ----------------------------
(***************************************************************************)
(* Proofs about Slots, for every set of connection ids and every number of *)
(* slots: the invariant of the pool, the assertions of release(), and the  *)
(* refinement of the waiting line SlotLine.                                *)
(***************************************************************************)
EXTENDS Slots, KeySequences, SequenceTheorems, TLAPS

(* Map.delete of a present key removes the one place it stands at. *)
LEMMA DeletePresent ==
  ASSUME NEW S, NEW s \in Seq(S), Distinct(s), NEW k \in 1..Len(s)
  PROVE  MapDelete(s, s[k]) = RemoveAt(s, k)
BY RemoveFirstPresent DEF MapDelete

(* Map.delete of an absent key changes nothing. *)
LEMMA DeleteAbsent ==
  ASSUME NEW S, NEW s \in Seq(S), NEW e, \A i \in 1..Len(s) : s[i] # e
  PROVE  MapDelete(s, e) = s
BY RemoveFirstAbsent DEF MapDelete

-----------------------------------------------------------------------------
(* How the line used \o pending follows changes of its two parts. *)
LEMMA RemoveFromLeft ==
  ASSUME NEW S, NEW s \in Seq(S), NEW t \in Seq(S), NEW k \in 1..Len(s)
  PROVE  RemoveAt(s \o t, k) = RemoveAt(s, k) \o t
<1> DEFINE m == Len(s)
           n == Len(t)
           u == s \o t
           p == RemoveAt(s, k)
           lhs == RemoveAt(u, k)
           rhs == p \o t
<1>1. /\ m \in Nat /\ n \in Nat /\ k \in 1..m
      /\ u \in Seq(S) /\ Len(u) = m + n
      /\ \A i \in 1..m+n : u[i] = IF i <= m THEN s[i] ELSE t[i-m]
  BY ConcatProperties, LenProperties
<1>2. /\ p \in Seq(S) /\ Len(p) = m - 1
      /\ \A i \in 1..m-1 : p[i] = IF i < k THEN s[i] ELSE s[i+1]
  BY RemoveAtProperties
<1>3. /\ rhs \in Seq(S) /\ Len(rhs) = Len(p) + n
      /\ \A i \in 1..Len(p)+n :
           rhs[i] = IF i <= Len(p) THEN p[i] ELSE t[i-Len(p)]
  BY <1>2, ConcatProperties
<1> HIDE DEF u
<1>4. k \in 1..Len(u)
  BY <1>1
<1>5. /\ lhs \in Seq(S) /\ Len(lhs) = Len(u) - 1
      /\ \A i \in 1..Len(u)-1 : lhs[i] = IF i < k THEN u[i] ELSE u[i+1]
  BY <1>1, <1>4, RemoveAtProperties
<1> HIDE DEF m, n, p, lhs, rhs
<1>6. /\ Len(lhs) = m + n - 1 /\ Len(rhs) = m + n - 1
      /\ \A i \in 1..m+n-1 : lhs[i] = IF i < k THEN u[i] ELSE u[i+1]
      /\ \A i \in 1..m+n-1 : rhs[i] = IF i <= m-1 THEN p[i] ELSE t[i-(m-1)]
  <2>1. Len(u) - 1 = m + n - 1 /\ Len(p) + n = m + n - 1
    BY <1>1, <1>2
  <2>2. QED
    BY <1>2, <1>3, <1>5, <2>1
<1>7. ASSUME NEW i \in 1..m+n-1
      PROVE  lhs[i] = rhs[i]
  <2>1. CASE i < k
    <3>1. i \in 1..m /\ i \in 1..m-1 /\ i \in 1..m+n
      BY <1>1, <2>1
    <3>2. lhs[i] = u[i] /\ u[i] = s[i]
      BY <1>1, <1>6, <2>1, <3>1
    <3>3. rhs[i] = p[i] /\ p[i] = s[i]
      BY <1>2, <1>6, <2>1, <3>1
    <3>4. QED
      BY <3>2, <3>3
  <2>2. CASE ~(i < k) /\ i <= m - 1
    <3>1. i+1 \in 1..m+n /\ i+1 <= m /\ i \in 1..m-1
      BY <1>1, <2>2
    <3>2. lhs[i] = u[i+1] /\ u[i+1] = s[i+1]
      BY <1>1, <1>6, <2>2, <3>1
    <3>3. rhs[i] = p[i] /\ p[i] = s[i+1]
      BY <1>2, <1>6, <2>2, <3>1
    <3>4. QED
      BY <3>2, <3>3
  <2>3. CASE ~(i <= m - 1)
    <3>1. /\ i + 1 - m = i - (m - 1)
          /\ lhs[i] = u[i+1]
          /\ u[i+1] = t[i+1-m]
      BY <1>1, <1>6, <2>3
    <3>2. rhs[i] = t[i-(m-1)]
      BY <1>1, <1>6, <2>3
    <3>3. QED
      BY <3>1, <3>2
  <2>4. QED
    BY <2>1, <2>2, <2>3
<1>8. lhs = rhs
  <2>1. \A i \in 1..Len(lhs) : lhs[i] = rhs[i]
    BY <1>6, <1>7
  <2>2. QED
    BY <1>3, <1>5, <1>6, <2>1, SeqEqual
<1>9. QED
  BY <1>8 DEF u, p, lhs, rhs

(* The same for a place in the right part. *)
LEMMA RemoveFromRight ==
  ASSUME NEW S, NEW s \in Seq(S), NEW t \in Seq(S), NEW k \in 1..Len(t)
  PROVE  RemoveAt(s \o t, Len(s) + k) = s \o RemoveAt(t, k)
<1> DEFINE m == Len(s)
           n == Len(t)
           h == m + k
           u == s \o t
           p == RemoveAt(t, k)
           lhs == RemoveAt(u, h)
           rhs == s \o p
<1>1. /\ m \in Nat /\ n \in Nat /\ k \in 1..n /\ h = m + k
      /\ u \in Seq(S) /\ Len(u) = m + n
      /\ \A i \in 1..m+n : u[i] = IF i <= m THEN s[i] ELSE t[i-m]
  BY ConcatProperties, LenProperties
<1>2. /\ p \in Seq(S) /\ Len(p) = n - 1
      /\ \A i \in 1..n-1 : p[i] = IF i < k THEN t[i] ELSE t[i+1]
  BY RemoveAtProperties
<1>3. /\ rhs \in Seq(S) /\ Len(rhs) = m + Len(p)
      /\ \A i \in 1..m+Len(p) : rhs[i] = IF i <= m THEN s[i] ELSE p[i-m]
  BY <1>2, ConcatProperties
<1> HIDE DEF u, h
<1>4. h \in 1..Len(u)
  BY <1>1
<1>5. /\ lhs \in Seq(S) /\ Len(lhs) = Len(u) - 1
      /\ \A i \in 1..Len(u)-1 : lhs[i] = IF i < h THEN u[i] ELSE u[i+1]
  BY <1>1, <1>4, RemoveAtProperties
<1> HIDE DEF m, n, p, lhs, rhs
<1>6. /\ Len(lhs) = m + n - 1 /\ Len(rhs) = m + n - 1
      /\ \A i \in 1..m+n-1 : lhs[i] = IF i < h THEN u[i] ELSE u[i+1]
      /\ \A i \in 1..m+n-1 : rhs[i] = IF i <= m THEN s[i] ELSE p[i-m]
  <2>1. Len(u) - 1 = m + n - 1 /\ m + Len(p) = m + n - 1
    BY <1>1, <1>2
  <2>2. QED
    BY <1>2, <1>3, <1>5, <2>1
<1>7. ASSUME NEW i \in 1..m+n-1
      PROVE  lhs[i] = rhs[i]
  <2>1. CASE i <= m
    BY <1>1, <1>6, <2>1
  <2>2. CASE ~(i <= m) /\ i < h
    <3>1. lhs[i] = t[i-m]
      BY <1>1, <1>6, <2>2
    <3>2. rhs[i] = p[i-m] /\ i-m \in 1..n-1 /\ i-m < k
      BY <1>1, <1>6, <2>2
    <3>3. QED
      BY <1>2, <3>1, <3>2
  <2>3. CASE ~(i < h)
    <3>1. lhs[i] = t[(i+1)-m] /\ (i+1)-m = (i-m)+1
      <4>1. i+1 \in 1..m+n /\ ~(i+1 <= m) /\ (i+1)-m = (i-m)+1
        BY <1>1, <2>3
      <4>2. lhs[i] = u[i+1]
        BY <1>6, <2>3
      <4>3. u[i+1] = t[(i+1)-m]
        BY <1>1, <4>1
      <4>4. QED
        BY <4>1, <4>2, <4>3
    <3>2. ~(i <= m) /\ i-m \in 1..n-1 /\ ~(i-m < k)
      BY <1>1, <2>3
    <3>3. rhs[i] = p[i-m]
      BY <1>6, <3>2
    <3>4. QED
      BY <1>2, <3>1, <3>2, <3>3
  <2>4. QED
    BY <2>1, <2>2, <2>3
<1>8. lhs = rhs
  <2>1. \A i \in 1..Len(lhs) : lhs[i] = rhs[i]
    BY <1>6, <1>7
  <2>2. QED
    BY <1>3, <1>5, <1>6, <2>1, SeqEqual
<1>9. QED
  BY <1>8 DEF m, u, h, p, lhs, rhs

(* Who joins the right part joins the line at its end. *)
LEMMA AppendToRight ==
  ASSUME NEW S, NEW s \in Seq(S), NEW t \in Seq(S), NEW e \in S
  PROVE  s \o Append(t, e) = Append(s \o t, e)
<1>1. <<e>> \in Seq(S) /\ s \o t \in Seq(S)
  BY ConcatProperties
<1>2. QED
  BY <1>1, AppendIsConcat, ConcatAssociative

(* Handing the head of t over to the end of s leaves the line as it is. *)
LEMMA HandOverKeepsLine ==
  ASSUME NEW S, NEW s \in Seq(S), NEW t \in Seq(S), t # <<>>
  PROVE  Append(s, Head(t)) \o Tail(t) = s \o t
<1>1. /\ Head(t) \in S /\ Tail(t) \in Seq(S)
      /\ <<Head(t)>> \in Seq(S)
  BY HeadTailProperties
<1>2. <<Head(t)>> \o Tail(t) = t
  BY <1>1
<1>3. QED
  BY <1>1, <1>2, AppendIsConcat, ConcatAssociative

(* If the line has no duplicates, then neither part has, and they share none. *)
LEMMA LineParts ==
  ASSUME NEW S, NEW s \in Seq(S), NEW t \in Seq(S), Distinct(s \o t)
  PROVE  /\ Distinct(s)
         /\ Distinct(t)
         /\ \A i \in 1..Len(s), j \in 1..Len(t) : s[i] # t[j]
<1> DEFINE u == s \o t
           m == Len(s)
           n == Len(t)
<1>1. /\ m \in Nat /\ n \in Nat
      /\ Len(u) = m + n
      /\ \A i \in 1..m+n : u[i] = IF i <= m THEN s[i] ELSE t[i-m]
      /\ \A i, j \in 1..Len(u) : u[i] = u[j] => i = j
  BY ConcatProperties, LenProperties DEF Distinct
<1> HIDE DEF u, m, n
<1>2. \A i \in 1..m : i \in 1..Len(u) /\ u[i] = s[i]
  BY <1>1
<1>3. \A j \in 1..n : /\ m+j \in 1..Len(u) /\ u[m+j] = t[j]
  <2>1. ASSUME NEW j \in 1..n
        PROVE  m+j \in 1..m+n /\ ~(m+j <= m) /\ (m+j)-m = j
    BY <1>1
  <2>2. QED
    BY <1>1, <2>1
<1>4. \A i, j \in 1..m : s[i] = s[j] => i = j
  BY <1>1, <1>2
<1>5. \A i, j \in 1..n : t[i] = t[j] => i = j
  <2>1. ASSUME NEW i \in 1..n, NEW j \in 1..n, t[i] = t[j]
        PROVE  i = j
    <3>1. m+i = m+j
      BY <1>1, <1>3, <2>1
    <3>2. QED
      BY <1>1, <3>1
  <2>2. QED
    BY <2>1
<1>6. \A i \in 1..m, j \in 1..n : s[i] # t[j]
  <2>1. ASSUME NEW i \in 1..m, NEW j \in 1..n, s[i] = t[j]
        PROVE  FALSE
    <3>1. i = m+j
      BY <1>1, <1>2, <1>3, <2>1
    <3>2. QED
      BY <1>1, <3>1
  <2>2. QED
    BY <2>1
<1>7. QED
  BY <1>4, <1>5, <1>6 DEF m, n, Distinct

-----------------------------------------------------------------------------
(* RequestsAreDistinct, in terms of the lemmas. *)
LEMMA DistinctLine == RequestsAreDistinct <=> Distinct(used \o pending)
BY DEF RequestsAreDistinct, Distinct

(* The sets of holders and waiters, element by element. *)
LEMMA RequestedMembers ==
  ASSUME SlotsTypeOK, NEW id
  PROVE  /\ id \in Holders <=> \E i \in 1..Len(used) : used[i] = id
         /\ id \in Waiting <=> \E i \in 1..Len(pending) : pending[i] = id
BY LenProperties DEF SlotsTypeOK, Holders, Waiting, ToSet

(* acquire() by somebody without a request puts that request at the end. *)
LEMMA AcquireJoins ==
  ASSUME SlotsInv, NEW id \in Ids, id \notin Requested, Acquire(id)
  PROVE  /\ SlotsTypeOK'
         /\ NeverOverbooked'
         /\ NoIdleSlot'
         /\ Line!Join(id)
<1>1. /\ used \in Seq(Ids) /\ pending \in Seq(Ids)
      /\ Len(used) \in Nat /\ Len(pending) \in Nat
      /\ Len(used) <= Count /\ Count \in Nat
      /\ pending # <<>> => Len(used) = Count
  BY SlotCountIsNat, LenProperties
     DEF SlotsInv, SlotsTypeOK, NeverOverbooked, NoIdleSlot
<1>2. /\ \A i \in 1..Len(used) : used[i] # id
      /\ \A i \in 1..Len(pending) : pending[i] # id
  BY RequestedMembers DEF Requested, SlotsInv
<1>3. \A i \in 1..Len(used \o pending) : (used \o pending)[i] # id
  <2>1. /\ Len(used \o pending) = Len(used) + Len(pending)
        /\ \A i \in 1..Len(used)+Len(pending) :
             (used \o pending)[i]
               = IF i <= Len(used) THEN used[i] ELSE pending[i-Len(used)]
    BY <1>1, ConcatProperties
  <2>2. ASSUME NEW i \in 1..Len(used)+Len(pending)
        PROVE  IF i <= Len(used) THEN i \in 1..Len(used)
                                 ELSE i-Len(used) \in 1..Len(pending)
    BY <1>1
  <2>3. QED
    BY <1>2, <2>1, <2>2
<1>4. CASE Len(used) < Count
  <2>1. used' = Append(used, id) /\ pending' = pending /\ pending = <<>>
    BY <1>1, <1>2, <1>4 DEF Acquire, MapSet
  <2>2. used' \in Seq(Ids) /\ Len(used') = Len(used) + 1
    BY <1>1, <2>1, AppendProperties
  <2>3. used' \o pending' = Append(used \o pending, id)
    BY <1>1, <2>1, <2>2, ConcatEmptySeq
  <2>4. QED
    BY <1>1, <1>3, <1>4, <2>1, <2>2, <2>3
       DEF SlotsTypeOK, NeverOverbooked, NoIdleSlot, Line!Join
<1>5. CASE ~(Len(used) < Count)
  <2>1. used' = used /\ pending' = Append(pending, id)
    BY <1>2, <1>5 DEF Acquire, MapSet
  <2>2. pending' \in Seq(Ids)
    BY <1>1, <2>1, AppendProperties
  <2>3. used' \o pending' = Append(used \o pending, id)
    BY <1>1, <2>1, AppendToRight
  <2>4. QED
    BY <1>1, <1>3, <1>5, <2>1, <2>2, <2>3
       DEF SlotsTypeOK, NeverOverbooked, NoIdleSlot, Line!Join
<1>6. QED
  BY <1>4, <1>5

(* LeaveAt of SlotLine is the RemoveAt of the lemmas above. *)
LEMMA LeaveAtIsRemoveAt ==
  ASSUME NEW i, used' \o pending' = RemoveAt(used \o pending, i)
  PROVE  Line!LeaveAt(i)
BY DEF Line!LeaveAt, Line!RemoveAt, RemoveAt

(* release() takes one request out of the line and closes the gap. *)
LEMMA ReleaseLeaves ==
  ASSUME SlotsInv, NEW id \in Requested, Release(id)
  PROVE  /\ SlotsTypeOK'
         /\ NeverOverbooked'
         /\ NoIdleSlot'
         /\ \E i \in 1..Len(used \o pending) : Line!LeaveAt(i)
<1>1. /\ used \in Seq(Ids) /\ pending \in Seq(Ids)
      /\ Len(used) \in Nat /\ Len(pending) \in Nat
      /\ Len(used) <= Count /\ Count \in Nat
      /\ pending # <<>> => Len(used) = Count
      /\ Len(used \o pending) = Len(used) + Len(pending)
  BY SlotCountIsNat, LenProperties, ConcatProperties
     DEF SlotsInv, SlotsTypeOK, NeverOverbooked, NoIdleSlot
<1>2. /\ Distinct(used) /\ Distinct(pending)
      /\ \A i \in 1..Len(used), j \in 1..Len(pending) : used[i] # pending[j]
  BY <1>1, DistinctLine, LineParts DEF SlotsInv
<1>3. CASE id \in Holders
  <2>1. PICK k \in 1..Len(used) : used[k] = id
    BY <1>3, RequestedMembers DEF SlotsInv
  <2>2. UsedWithout(id) = RemoveAt(used, k) /\ PendingWithout(id) = pending
    BY <1>1, <1>2, <2>1, DeletePresent, DeleteAbsent
       DEF UsedWithout, PendingWithout
  <2>3. /\ RemoveAt(used, k) \in Seq(Ids)
        /\ Len(RemoveAt(used, k)) = Len(used) - 1
    BY <1>1, RemoveAtProperties
  <2>4. RemoveAt(used, k) \o pending = RemoveAt(used \o pending, k)
    BY <1>1, RemoveFromLeft
  <2>5. k \in 1..Len(used \o pending)
    BY <1>1
  <2>6. HandOver(RemoveAt(used, k), pending)
    BY <1>3, <2>2 DEF Release
  <2>7. CASE pending = <<>>
    <3>1. used' = RemoveAt(used, k) /\ pending' = pending
      BY <2>6, <2>7 DEF HandOver
    <3>2. QED
      BY <1>1, <2>3, <2>4, <2>5, <2>7, <3>1,
         LeaveAtIsRemoveAt
         DEF SlotsTypeOK, NeverOverbooked, NoIdleSlot
  <2>8. CASE pending # <<>>
    <3>1. Head(pending) \in Ids /\ Tail(pending) \in Seq(Ids)
      BY <1>1, <2>8, HeadTailProperties
    <3>2. \A i \in 1..Len(RemoveAt(used, k)) :
             RemoveAt(used, k)[i] # Head(pending)
      <4>1. Head(pending) = pending[1] /\ 1 \in 1..Len(pending)
        BY <1>1, <2>8, EmptySeq
      <4>2. \A i \in 1..Len(used)-1 :
               RemoveAt(used, k)[i] = IF i < k THEN used[i] ELSE used[i+1]
        BY <1>1, RemoveAtProperties
      <4>3. \A i \in 1..Len(used)-1 : i \in 1..Len(used) /\ i+1 \in 1..Len(used)
        BY <1>1
      <4>4. QED
        BY <1>2, <2>3, <4>1, <4>2, <4>3
    <3>3. /\ used' = Append(RemoveAt(used, k), Head(pending))
          /\ pending' = Tail(pending)
      BY <2>6, <2>8, <3>2 DEF HandOver, MapSet
    <3>4. used' \in Seq(Ids) /\ Len(used') = Len(used)
      BY <1>1, <2>3, <3>1, <3>3, AppendProperties
    <3>5. used' \o pending' = RemoveAt(used, k) \o pending
      BY <1>1, <2>3, <2>8, <3>3, HandOverKeepsLine
    <3>6. QED
      BY <1>1, <2>4, <2>5, <2>8, <3>1, <3>3, <3>4, <3>5,
         LeaveAtIsRemoveAt
         DEF SlotsTypeOK, NeverOverbooked, NoIdleSlot
  <2>9. QED
    BY <2>7, <2>8
<1>4. CASE id \notin Holders
  <2>1. PICK k \in 1..Len(pending) : pending[k] = id
    BY <1>4, RequestedMembers DEF SlotsInv, Requested
  <2>2. used' = used /\ pending' = RemoveAt(pending, k)
    BY <1>1, <1>2, <1>4, <2>1, DeletePresent DEF Release, PendingWithout
  <2>3. RemoveAt(pending, k) \in Seq(Ids)
    BY <1>1, RemoveAtProperties
  <2>4. pending # <<>>
    BY <1>1, EmptySeq
  <2>5. used' \o pending' = RemoveAt(used \o pending, Len(used) + k)
    BY <1>1, <2>2, RemoveFromRight
  <2>6. Len(used) + k \in 1..Len(used \o pending)
    BY <1>1
  <2>7. QED
    BY <1>1, <2>2, <2>3, <2>4, <2>5, <2>6,
       LeaveAtIsRemoveAt
       DEF SlotsTypeOK, NeverOverbooked, NoIdleSlot
<1>5. QED
  BY <1>3, <1>4

-----------------------------------------------------------------------------
(* Every step of the pool keeps its invariant and moves its line. *)
LEMMA SlotsStep ==
  ASSUME SlotsInv, [SlotsNext]_slotVars
  PROVE  SlotsInv' /\ [Line!LineNext]_(used \o pending)
<1>1. used \in Seq(Ids) /\ pending \in Seq(Ids) /\ used \o pending \in Seq(Ids)
  BY ConcatProperties DEF SlotsInv, SlotsTypeOK
<1>2. Distinct(used \o pending)
  BY DistinctLine DEF SlotsInv
<1>3. ASSUME NEW id \in Ids \ Requested, Acquire(id)
      PROVE  SlotsInv' /\ Line!LineNext
  <2>1. /\ SlotsTypeOK' /\ NeverOverbooked' /\ NoIdleSlot'
        /\ Line!Join(id)
    BY <1>3, AcquireJoins
  <2>2. Distinct(used' \o pending')
    BY <1>1, <1>2, <2>1, AppendDistinct DEF Line!Join
  <2>3. RequestsAreDistinct'
    BY <2>2 DEF RequestsAreDistinct, Distinct
  <2>4. QED
    BY <2>1, <2>3 DEF SlotsInv, Line!LineNext
<1>4. ASSUME NEW id \in Requested, Release(id)
      PROVE  SlotsInv' /\ Line!LineNext
  <2>1. PICK i \in 1..Len(used \o pending) :
             /\ SlotsTypeOK' /\ NeverOverbooked' /\ NoIdleSlot'
             /\ Line!LeaveAt(i)
    BY <1>4, ReleaseLeaves
  <2>2. used' \o pending' = RemoveAt(used \o pending, i)
    BY <2>1 DEF Line!LeaveAt, Line!RemoveAt, RemoveAt
  <2>3. Distinct(used' \o pending')
    BY <1>1, <1>2, <2>2, RemoveDistinct
  <2>4. RequestsAreDistinct'
    BY <2>3 DEF RequestsAreDistinct, Distinct
  <2>5. QED
    BY <2>1, <2>4 DEF SlotsInv, Line!LineNext
<1>5. CASE UNCHANGED slotVars
  BY <1>5 DEF slotVars, SlotsInv, SlotsTypeOK, NeverOverbooked, NoIdleSlot,
              RequestsAreDistinct
<1>6. QED
  BY <1>3, <1>4, <1>5 DEF SlotsNext

(* The empty pool satisfies the invariant and is the empty line. *)
LEMMA SlotsStart == SlotsInit => SlotsInv /\ Line!LineInit
BY SlotCountIsNat
   DEF SlotsInit, SlotsInv, SlotsTypeOK, NeverOverbooked, NoIdleSlot,
       RequestsAreDistinct, Line!LineInit

(***************************************************************************)
(* The pool of slots.js is never overbooked, never leaves a slot idle      *)
(* while somebody waits and never holds a request twice, for any number of *)
(* connections and slots.                                                  *)
(***************************************************************************)
THEOREM SlotsInvariant == SlotsSpec => []SlotsInv
<1>1. SlotsInit => SlotsInv
  BY SlotsStart
<1>2. SlotsInv /\ [SlotsNext]_slotVars => SlotsInv'
  BY SlotsStep
<1>3. QED
  BY <1>1, <1>2, PTL DEF SlotsSpec

(***************************************************************************)
(* slots.js implements the first-come first-served line of SlotLine: no    *)
(* interleaving of acquisitions, releases and withdrawals lets a request   *)
(* overtake an older one.                                                  *)
(***************************************************************************)
THEOREM SlotsRefineLine == SlotsSpec => LineSpec
<1>1. SlotsInit => Line!LineInit
  BY SlotsStart
<1>2. SlotsInv /\ [SlotsNext]_slotVars => [Line!LineNext]_(used \o pending)
  BY SlotsStep
<1>3. QED
  BY <1>1, <1>2, SlotsInvariant, PTL DEF SlotsSpec, LineSpec, Line!LineSpec

(* In a state of the pool that satisfies its invariant no assertion fails. *)
LEMMA InvImpliesAsserts == SlotsInv => AssertsHold
<1> SUFFICES ASSUME SlotsInv, NEW id \in Holders
             PROVE  SlotWasCounted(id) /\ NoOneWaitedInVain(id)
  BY DEF AssertsHold, ReleaseAsserts
<1>1. /\ used \in Seq(Ids) /\ pending \in Seq(Ids)
      /\ Len(used) \in Nat /\ Len(used) <= Count /\ Count \in Nat
      /\ pending # <<>> => Len(used) = Count
  BY SlotCountIsNat, LenProperties
     DEF SlotsInv, SlotsTypeOK, NeverOverbooked, NoIdleSlot
<1>2. /\ Distinct(used)
      /\ \A i \in 1..Len(used), j \in 1..Len(pending) : used[i] # pending[j]
  BY <1>1, DistinctLine, LineParts DEF SlotsInv
<1>3. PICK k \in 1..Len(used) : used[k] = id
  BY RequestedMembers DEF SlotsInv
<1>4. UsedWithout(id) = RemoveAt(used, k) /\ PendingWithout(id) = pending
  BY <1>1, <1>2, <1>3, DeletePresent, DeleteAbsent
     DEF UsedWithout, PendingWithout
<1>5. Len(RemoveAt(used, k)) = Len(used) - 1
  BY <1>1, RemoveAtProperties
<1>6. QED
  BY <1>1, <1>4, <1>5 DEF SlotWasCounted, NoOneWaitedInVain

(***************************************************************************)
(* The assertions of slots.js:38-39 hold at every release, so they never   *)
(* take the daemon down.                                                   *)
(***************************************************************************)
THEOREM SlotsAssertions == SlotsSpec => []AssertsHold
BY SlotsInvariant, InvImpliesAsserts, PTL

-----------------------------------------------------------------------------
(* What the operations do to the sets of connections, for the callers. *)
LEMMA MapSetMembers ==
  ASSUME NEW S, NEW keys \in Seq(S), NEW id \in S
  PROVE  ToSet(MapSet(keys, id)) = ToSet(keys) \cup {id}
<1>1. Len(keys) \in Nat /\ DOMAIN keys = 1..Len(keys)
  BY LenProperties
<1>2. CASE \E i \in 1..Len(keys) : keys[i] = id
  BY <1>1, <1>2 DEF MapSet, ToSet
<1>3. CASE ~\E i \in 1..Len(keys) : keys[i] = id
  <2>1. MapSet(keys, id) = Append(keys, id)
    BY <1>3 DEF MapSet
  <2>2. QED
    BY <2>1, AppendMembers
<1>4. QED
  BY <1>2, <1>3

(* Map.delete takes the key, and only the key, out of the set. *)
LEMMA MapDeleteMembers ==
  ASSUME NEW S, NEW keys \in Seq(S), NEW id, Distinct(keys)
  PROVE  ToSet(MapDelete(keys, id)) = ToSet(keys) \ {id}
BY RemoveFirstMembers DEF MapDelete

(* acquire() adds the caller's request and takes no slot from anybody. *)
LEMMA AcquireAdds ==
  ASSUME SlotsInv, NEW id \in Ids, id \notin Requested, Acquire(id)
  PROVE  /\ SlotsInv'
         /\ Requested' = Requested \cup {id}
         /\ Holders \subseteq Holders'
<1>1. used \in Seq(Ids) /\ pending \in Seq(Ids)
  BY DEF SlotsInv, SlotsTypeOK
<1>2. \/ Holders' = Holders \cup {id} /\ Waiting' = Waiting
      \/ Holders' = Holders /\ Waiting' = Waiting \cup {id}
  BY <1>1, MapSetMembers DEF Acquire, Holders, Waiting
<1>3. SlotsInv'
  BY SlotsStep DEF SlotsNext
<1>4. QED
  BY <1>2, <1>3 DEF Requested

(* release() removes it and takes no slot from anybody else. *)
LEMMA ReleaseRemoves ==
  ASSUME SlotsInv, NEW id \in Requested, Release(id)
  PROVE  /\ SlotsInv'
         /\ Requested' = Requested \ {id}
         /\ Holders \ {id} \subseteq Holders'
<1>1. /\ used \in Seq(Ids) /\ pending \in Seq(Ids)
      /\ Distinct(used) /\ Distinct(pending)
      /\ \A i \in 1..Len(used), j \in 1..Len(pending) : used[i] # pending[j]
  BY DistinctLine, LineParts DEF SlotsInv, SlotsTypeOK
<1>2. /\ ToSet(UsedWithout(id)) = Holders \ {id}
      /\ ToSet(PendingWithout(id)) = Waiting \ {id}
  BY <1>1, MapDeleteMembers
     DEF UsedWithout, PendingWithout, Holders, Waiting
<1>3. UsedWithout(id) \in Seq(Ids) /\ PendingWithout(id) \in Seq(Ids)
  <2>1. ASSUME NEW s \in Seq(Ids), Distinct(s)
        PROVE  MapDelete(s, id) \in Seq(Ids)
    <3>1. CASE \A i \in 1..Len(s) : s[i] # id
      BY <3>1, DeleteAbsent
    <3>2. ASSUME NEW k \in 1..Len(s), s[k] = id
          PROVE  MapDelete(s, id) \in Seq(Ids)
      BY <2>1, <3>2, DeletePresent, RemoveAtProperties
    <3>3. QED
      BY <3>1, <3>2
  <2>2. QED
    BY <1>1, <2>1 DEF UsedWithout, PendingWithout
<1>4. SlotsInv'
  BY SlotsStep DEF SlotsNext
<1>5. CASE id \in Holders
  <2> DEFINE freed == UsedWithout(id)
             queue == PendingWithout(id)
  <2>1. HandOver(freed, queue)
    BY <1>5 DEF Release
  <2> HIDE DEF freed, queue
  <2>2. CASE queue = <<>>
    <3>1. used' = freed /\ pending' = queue
      BY <2>1, <2>2 DEF HandOver
    <3>2. Holders' = Holders \ {id} /\ Waiting' = Waiting \ {id}
      BY <1>2, <3>1 DEF freed, queue, Holders, Waiting
    <3>3. QED
      BY <1>4, <3>2 DEF Requested
  <2>3. CASE queue # <<>>
    <3>1. PICK h \in Ids : h = Head(queue)
      BY <1>3, <2>3, HeadTailProperties DEF queue
    <3>2. used' = MapSet(freed, h) /\ pending' = Tail(queue)
      BY <2>1, <2>3, <3>1 DEF HandOver
    <3>3. Holders' = (Holders \ {id}) \cup {h}
      BY <1>2, <1>3, <3>2, MapSetMembers DEF freed, Holders
    <3>4. {h} \cup Waiting' = Waiting \ {id}
      BY <1>2, <1>3, <2>3, <3>1, <3>2, HeadTailMembers DEF queue, Waiting
    <3>5. QED
      BY <1>4, <3>3, <3>4 DEF Requested
  <2>4. QED
    BY <2>2, <2>3
<1>6. CASE id \notin Holders
  <2>1. used' = used /\ pending' = PendingWithout(id)
    BY <1>6 DEF Release
  <2>2. Holders' = Holders /\ Waiting' = Waiting \ {id}
    BY <1>2, <2>1 DEF Holders, Waiting
  <2>3. QED
    BY <1>4, <1>6, <2>2 DEF Requested
<1>7. QED
  BY <1>5, <1>6

=============================================================================
