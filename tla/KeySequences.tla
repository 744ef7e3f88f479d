-------------------------- MODULE KeySequences --------------------------
(***************************************************************************)
(* Lemmas about sequences without duplicates, which stand for the Maps and *)
(* Arrays of the source: what joining, leaving and being the first do to   *)
(* their order and their members.  Then induction over numbers, and what   *)
(* is needed about the folds of the community modules.                     *)
(***************************************************************************)
EXTENDS Integers, Sequences, SequencesExt, KeyOrder, FiniteSetTheorems,
        SequenceTheorems, WellFoundedInduction, TLAPS

Distinct(s) == \A i, j \in 1..Len(s) : s[i] = s[j] => i = j

(* Removing the element at place k closes the gap and changes nothing else. *)
LEMMA RemoveAtProperties ==
  ASSUME NEW S, NEW s \in Seq(S), NEW k \in 1..Len(s)
  PROVE  /\ RemoveAt(s, k) \in Seq(S)
         /\ Len(RemoveAt(s, k)) = Len(s) - 1
         /\ \A i \in 1..Len(s)-1 :
              RemoveAt(s, k)[i] = IF i < k THEN s[i] ELSE s[i+1]
<1> DEFINE l == SubSeq(s, 1, k-1)
           r == SubSeq(s, k+1, Len(s))
<1>1. Len(s) \in Nat /\ \A i \in 1..Len(s) : s[i] \in S
  BY LenProperties, ElementOfSeq
<1>2. /\ l \in Seq(S)
      /\ Len(l) = k - 1
      /\ \A i \in 1..k-1 : l[i] = s[i]
  <2>1. \A i \in 1..k-1 : s[i] \in S
    BY <1>1
  <2>2. QED
    BY <1>1, <2>1, SubSeqProperties
<1>3. /\ r \in Seq(S)
      /\ Len(r) = Len(s) - k
      /\ \A i \in 1..Len(s)-k : r[i] = s[k+i]
  <2>1. \A i \in k+1..Len(s) : s[i] \in S
    BY <1>1
  <2>2. /\ r \in Seq(S)
        /\ Len(r) = IF k+1 <= Len(s) THEN Len(s)-(k+1)+1 ELSE 0
        /\ \A i \in 1..Len(s)-(k+1)+1 : r[i] = s[k+1+i-1]
    BY <1>1, <2>1, SubSeqProperties
  <2>3. QED
    BY <1>1, <2>2
<1>4. /\ l \o r \in Seq(S)
      /\ Len(l \o r) = Len(l) + Len(r)
      /\ \A i \in 1..Len(l)+Len(r) :
           (l \o r)[i] = IF i <= Len(l) THEN l[i] ELSE r[i - Len(l)]
  BY <1>2, <1>3, ConcatProperties
<1>5. RemoveAt(s, k) = l \o r
  BY DEF RemoveAt
<1> HIDE DEF l, r
<1>6. Len(l) + Len(r) = Len(s) - 1
  BY <1>1, <1>2, <1>3
<1>7. ASSUME NEW i \in 1..Len(s)-1
      PROVE  (l \o r)[i] = IF i < k THEN s[i] ELSE s[i+1]
  <2>1. CASE i < k
    BY <1>1, <1>2, <1>4, <1>6, <2>1
  <2>2. CASE ~(i < k)
    <3>1. /\ (l \o r)[i] = r[i - (k - 1)]
          /\ i - (k - 1) \in 1..Len(s)-k
      BY <1>1, <1>2, <1>4, <1>6, <2>2
    <3>2. QED
      BY <1>1, <1>3, <3>1
  <2>3. QED
    BY <2>1, <2>2
<1>8. QED
  BY <1>4, <1>5, <1>6, <1>7

(* RemoveFirst of a member removes the one place it stands at. *)
LEMMA RemoveFirstPresent ==
  ASSUME NEW S, NEW s \in Seq(S), Distinct(s), NEW k \in 1..Len(s)
  PROVE  RemoveFirst(s, s[k]) = RemoveAt(s, k)
<1> DEFINE I == {i \in 1..Len(s) : s[i] = s[k]}
<1>1. I = {k}
  BY DEF Distinct
<1>2. Min(I) = k
  BY <1>1, LenProperties DEF Min
<1>3. QED
  BY <1>1, <1>2 DEF RemoveFirst, SelectInSeq

(* RemoveFirst of anything else changes nothing. *)
LEMMA RemoveFirstAbsent ==
  ASSUME NEW S, NEW s \in Seq(S), NEW e, \A i \in 1..Len(s) : s[i] # e
  PROVE  RemoveFirst(s, e) = s
BY DEF RemoveFirst

-----------------------------------------------------------------------------
(* A sequence stays free of duplicates when what is not in it joins ... *)
LEMMA AppendDistinct ==
  ASSUME NEW S, NEW s \in Seq(S), NEW e \in S,
         Distinct(s), \A i \in 1..Len(s) : s[i] # e
  PROVE  Distinct(Append(s, e))
<1>1. /\ Len(s) \in Nat
      /\ Len(Append(s, e)) = Len(s) + 1
      /\ \A i \in 1..Len(s) : Append(s, e)[i] = s[i]
      /\ Append(s, e)[Len(s)+1] = e
  BY AppendProperties, LenProperties
<1>2. \A i \in 1..Len(s)+1 : i \in 1..Len(s) \/ i = Len(s)+1
  BY <1>1
<1>3. QED
  BY <1>1, <1>2 DEF Distinct

(* ... and when one leaves. *)
LEMMA RemoveDistinct ==
  ASSUME NEW S, NEW s \in Seq(S), NEW k \in 1..Len(s), Distinct(s)
  PROVE  Distinct(RemoveAt(s, k))
<1> DEFINE r == RemoveAt(s, k)
           f(i) == IF i < k THEN i ELSE i+1
<1>1. /\ Len(s) \in Nat
      /\ Len(r) = Len(s) - 1
      /\ \A i \in 1..Len(s)-1 : r[i] = s[f(i)]
  BY RemoveAtProperties, LenProperties
<1> HIDE DEF r
<1>2. ASSUME NEW i \in 1..Len(r), NEW j \in 1..Len(r), r[i] = r[j]
      PROVE  i = j
  <2>1. f(i) \in 1..Len(s) /\ f(j) \in 1..Len(s)
    BY <1>1
  <2>2. s[f(i)] = s[f(j)]
    BY <1>1, <1>2
  <2>3. f(i) = f(j)
    BY <2>1, <2>2 DEF Distinct
  <2>4. QED
    BY <1>1, <2>3
<1>3. QED
  BY <1>2 DEF r, Distinct

-----------------------------------------------------------------------------
(* The members, when one is appended. *)
LEMMA AppendMembers ==
  ASSUME NEW S, NEW s \in Seq(S), NEW e \in S
  PROVE  ToSet(Append(s, e)) = ToSet(s) \cup {e}
<1>1. Len(s) \in Nat /\ DOMAIN s = 1..Len(s)
  BY LenProperties
<1>2. /\ DOMAIN Append(s, e) = 1..Len(s)+1
      /\ \A i \in 1..Len(s) : Append(s, e)[i] = s[i]
      /\ Append(s, e)[Len(s)+1] = e
  BY <1>1, AppendProperties, LenProperties
<1>3. \A i \in 1..Len(s)+1 : i \in 1..Len(s) \/ i = Len(s)+1
  BY <1>1
<1>4. 1..Len(s) \subseteq 1..Len(s)+1 /\ Len(s)+1 \in 1..Len(s)+1
  BY <1>1
<1>5. QED
  BY <1>1, <1>2, <1>3, <1>4 DEF ToSet

(* RemoveFirst takes the element, and only that, out of the members. *)
LEMMA RemoveFirstMembers ==
  ASSUME NEW S, NEW s \in Seq(S), NEW e, Distinct(s)
  PROVE  /\ RemoveFirst(s, e) \in Seq(S)
         /\ Distinct(RemoveFirst(s, e))
         /\ ToSet(RemoveFirst(s, e)) = ToSet(s) \ {e}
<1>1. Len(s) \in Nat /\ DOMAIN s = 1..Len(s)
  BY LenProperties
<1>2. CASE \A i \in 1..Len(s) : s[i] # e
  BY <1>1, <1>2, RemoveFirstAbsent DEF ToSet
<1>3. ASSUME NEW k \in 1..Len(s), s[k] = e
      PROVE  /\ RemoveFirst(s, e) \in Seq(S)
             /\ Distinct(RemoveFirst(s, e))
             /\ ToSet(RemoveFirst(s, e)) = ToSet(s) \ {e}
  <2> DEFINE r == RemoveAt(s, k)
             f(i) == IF i < k THEN i ELSE i+1
  <2>1. RemoveFirst(s, e) = r
    BY <1>3, RemoveFirstPresent
  <2>2. /\ r \in Seq(S)
        /\ DOMAIN r = 1..Len(s)-1
        /\ \A i \in 1..Len(s)-1 : r[i] = s[f(i)]
    BY <1>1, RemoveAtProperties, LenProperties
  <2>d. Distinct(r)
    BY RemoveDistinct
  <2> HIDE DEF r
  <2>3. \A i \in 1..Len(s)-1 : f(i) \in 1..Len(s) /\ f(i) # k
    BY <1>1
  <2>4. \A i \in 1..Len(s) :
           i # k => \E j \in 1..Len(s)-1 : f(j) = i
    <3>1. \A i \in 1..Len(s) :
             /\ i < k => i \in 1..Len(s)-1 /\ f(i) = i
             /\ i > k => i-1 \in 1..Len(s)-1 /\ f(i-1) = i
      BY <1>1
    <3>2. QED
      BY <1>1, <3>1
  <2> HIDE DEF f
  <2>5. ToSet(r) = {s[f(i)] : i \in 1..Len(s)-1}
    BY <2>2 DEF ToSet
  <2>6. ToSet(s) = {s[i] : i \in 1..Len(s)}
    BY <1>1 DEF ToSet
  <2>7. \A i \in 1..Len(s) : s[i] = e <=> i = k
    BY <1>3 DEF Distinct
  <2>8. \A x \in ToSet(r) : x \in ToSet(s) /\ x # e
    BY <2>3, <2>5, <2>6, <2>7
  <2>9. \A x \in ToSet(s) \ {e} : x \in ToSet(r)
    BY <2>4, <2>5, <2>6, <2>7
  <2>10. QED
    BY <2>1, <2>2, <2>d, <2>8, <2>9
<1>4. QED
  BY <1>2, <1>3

(* The head and the rest are all there is. *)
LEMMA HeadTailMembers ==
  ASSUME NEW S, NEW s \in Seq(S), s # <<>>
  PROVE  ToSet(s) = {Head(s)} \cup ToSet(Tail(s))
<1>1. /\ Len(s) \in Nat /\ DOMAIN s = 1..Len(s) /\ Len(s) >= 1
  BY LenProperties, EmptySeq
<1>2. /\ Head(s) = s[1]
      /\ DOMAIN Tail(s) = 1..Len(s)-1
      /\ \A i \in 1..Len(s)-1 : Tail(s)[i] = s[i+1]
  BY <1>1, HeadTailProperties, LenProperties
<1>3. /\ 1 \in 1..Len(s)
      /\ \A i \in 1..Len(s)-1 : i+1 \in 1..Len(s)
      /\ \A i \in 1..Len(s) : i # 1 => i-1 \in 1..Len(s)-1 /\ (i-1)+1 = i
  BY <1>1
<1>4. \A i \in 1..Len(s) : i # 1 => s[i] = Tail(s)[i-1]
  BY <1>2, <1>3
<1>5. \A x \in ToSet(s) : x \in {Head(s)} \cup ToSet(Tail(s))
  <2>1. ASSUME NEW i \in 1..Len(s)
        PROVE  s[i] = Head(s) \/ s[i] \in ToSet(Tail(s))
    <3>1. CASE i = 1
      BY <1>2, <3>1
    <3>2. CASE i # 1
      BY <1>2, <1>3, <1>4, <3>2 DEF ToSet
    <3>3. QED
      BY <3>1, <3>2
  <2>2. QED
    BY <1>1, <2>1 DEF ToSet
<1>6. \A x \in {Head(s)} \cup ToSet(Tail(s)) : x \in ToSet(s)
  BY <1>1, <1>2, <1>3 DEF ToSet
<1>7. QED
  BY <1>5, <1>6

(* There are as many members as places. *)
LEMMA MembersCounted ==
  ASSUME NEW S, NEW s \in Seq(S), Distinct(s)
  PROVE  /\ IsFiniteSet(ToSet(s))
         /\ Cardinality(ToSet(s)) = Len(s)
<1>1. Len(s) \in Nat /\ DOMAIN s = 1..Len(s) /\ s = [i \in 1..Len(s) |-> s[i]]
  BY LenProperties
<1>2. IsFiniteSet(1..Len(s)) /\ Cardinality(1..Len(s)) = Len(s)
  <2>1. \A n \in Nat : IsFiniteSet(1..n) /\ Cardinality(1..n) = n
    <3>1. \A n \in Nat : IF 1 > n THEN n = 0 ELSE n - 1 + 1 = n
      OBVIOUS
    <3>2. QED
      BY <3>1, FS_Interval
  <2>2. QED
    BY <1>1, <2>1
<1>3. s \in Bijection(1..Len(s), ToSet(s))
  <2>1. s \in [1..Len(s) -> ToSet(s)]
    BY <1>1 DEF ToSet
  <2>2. \A t \in ToSet(s) : \E i \in 1..Len(s) : s[i] = t
    BY <1>1 DEF ToSet
  <2>3. QED
    BY <2>1, <2>2 DEF Bijection, Injection, Surjection, IsInjective, Distinct
<1>4. QED
  BY <1>2, <1>3, FS_Bijection DEF ExistsBijection

-----------------------------------------------------------------------------
(* Every set of numbers that is not empty has a least one. *)
LEMMA Least ==
  ASSUME NEW T \in SUBSET Nat, T # {}
  PROVE  \E m \in T : \A n \in T : m <= n
<1> DEFINE R == OpToRel(<, Nat)
<1>1. IsWellFoundedOn(R, Nat)
  BY NatLessThanWellFounded
<1>2. R = {p \in Nat \X Nat : p[1] < p[2]}
  BY DEF OpToRel
<1> HIDE DEF R
<1>3. PICK m \in T : \A n \in T : ~(<<n, m>> \in R)
  BY <1>1, WFMin
<1>4. \A n \in T : <<n, m>> \in R <=> n < m
  BY <1>2
<1>5. \A n \in T : m \in Nat /\ n \in Nat /\ ~(n < m)
  BY <1>3, <1>4
<1>6. \A n \in T : m <= n
  BY <1>5
<1> QED
  BY <1>6

(* Induction up to n, with a set for the predicate. *)
LEMMA Steps ==
  ASSUME NEW n \in Nat, NEW T, 0 \in T,
         \A i \in 0..n-1 : i \in T => i+1 \in T
  PROVE  \A i \in 0..n : i \in T
<1> DEFINE B == {i \in 0..n : i \notin T}
<1> SUFFICES ASSUME B # {} PROVE FALSE
  OBVIOUS
<1>1. B \in SUBSET Nat
  OBVIOUS
<1>2. PICK m \in B : \A i \in B : m <= i
  BY <1>1, Least
<1>3. m # 0 /\ m-1 \in 0..n-1
  BY <1>2
<1>4. m-1 \in T
  BY <1>2, <1>3
<1> QED
  BY <1>2, <1>3, <1>4

(* Every set but {} has a member without which it may as well be in T. *)
Climbs(T, D, pick) ==
  \A s \in SUBSET D : s # {} =>
    pick[s] \in s /\ (s \ {pick[s]} \in T => s \in T)

(* Induction over the subsets of D, with a set of them for the predicate. *)
LEMMA SetSteps ==
  ASSUME NEW D, IsFiniteSet(D), NEW T, {} \in T, NEW pick, Climbs(T, D, pick)
  PROVE  \A s \in SUBSET D : s \in T
<1> DEFINE n == Cardinality(D)
           K == {k \in 0..n : \A s \in SUBSET D : Cardinality(s) = k => s \in T}
<1>1. /\ n \in Nat
      /\ \A s \in SUBSET D : /\ IsFiniteSet(s) /\ Cardinality(s) \in Nat
                             /\ Cardinality(s) <= n
                             /\ Cardinality(s) = 0 <=> s = {}
  BY FS_CardinalityType, FS_Subset, FS_EmptySet
<1>2. \A s \in SUBSET D : s # {} =>
        /\ s \ {pick[s]} \in SUBSET D
        /\ Cardinality(s \ {pick[s]}) = Cardinality(s) - 1
  BY <1>1, FS_RemoveElement DEF Climbs
<1> HIDE DEF n
<1>3. 0 \in K
  <2>1. \A s \in SUBSET D : Cardinality(s) = 0 => s \in T
    BY <1>1
  <2>2. 0 \in 0..n
    BY <1>1
  <2> QED
    BY <2>1, <2>2
<1>c. \A s \in SUBSET D : s # {} =>
        pick[s] \in s /\ (s \ {pick[s]} \in T => s \in T)
  BY DEF Climbs
<1>4. ASSUME NEW k \in 0..n-1, k \in K PROVE k+1 \in K
  <2>1. ASSUME NEW s \in SUBSET D, Cardinality(s) = k+1 PROVE s \in T
    <3>1. s # {} /\ Cardinality(s \ {pick[s]}) = k
      BY <1>1, <1>2, <2>1
    <3>2. s \ {pick[s]} \in T
      BY <1>2, <1>4, <3>1
    <3> QED
      BY <1>c, <3>1, <3>2
  <2>2. k+1 \in 0..n
    BY <1>1
  <2> QED
    BY <2>1, <2>2
<1>5. \A k \in 0..n : k \in K
  <2> HIDE DEF K
  <2> QED
    BY <1>1, <1>3, <1>4, Steps
<1> QED
  BY <1>1, <1>5

(* Two functions on sets that are built up alike agree. *)
GrowAlike(F, G, D, pick) ==
  /\ F[{}] = G[{}]
  /\ \A s \in SUBSET D : s # {} =>
       /\ pick[s] \in s
       /\ F[s \ {pick[s]}] = G[s \ {pick[s]}] => F[s] = G[s]

LEMMA AgreeOnSets ==
  ASSUME NEW D, IsFiniteSet(D), NEW F, NEW G, NEW pick,
         GrowAlike(F, G, D, pick)
  PROVE  \A s \in SUBSET D : F[s] = G[s]
<1> DEFINE T == {s \in SUBSET D : F[s] = G[s]}
<1>1. {} \in T
  BY DEF GrowAlike
<1>2. Climbs(T, D, pick)
  BY DEF GrowAlike, Climbs
<1> HIDE DEF T
<1>3. \A s \in SUBSET D : s \in T
  BY <1>1, <1>2, SetSteps
<1> QED
  BY <1>3 DEF T

(* The maximum of some of the first numbers is one of them. *)
LEMMA MaxIs ==
  ASSUME NEW n \in Nat, NEW S \in SUBSET (1..n), S # {}
  PROVE  Max(S) \in S /\ \A y \in S : y <= Max(S)
<1> DEFINE T == {m \in Nat : \A y \in S : y <= m}
<1>1. n \in T /\ T \in SUBSET Nat
  OBVIOUS
<1>2. PICK m \in T : \A k \in T : m <= k
  BY <1>1, Least
<1>3. m \in S
  <2> SUFFICES ASSUME m \notin S PROVE FALSE
    OBVIOUS
  <2>1. PICK y \in S : TRUE
    OBVIOUS
  <2>2. m >= 1 /\ m-1 \in Nat
    BY <2>1
  <2>3. \A z \in S : z <= m-1
    OBVIOUS
  <2>4. m-1 \in T
    BY <2>2, <2>3
  <2> QED
    BY <1>2, <2>4
<1>4. \E x \in S : \A y \in S : x >= y
  BY <1>3
<1> QED
  BY <1>4 DEF Max

(* The first numbers, and the last of them. *)
LEMMA MaxOfPrefix ==
  ASSUME NEW n \in Nat, NEW i \in 1..n
  PROVE  /\ 1..i \in SUBSET (1..n) /\ 1..i # {}
         /\ Max(1..i) = i /\ (1..i) \ {i} = 1..i-1
<1>1. 1..i \in SUBSET (1..n) /\ 1..i # {} /\ (1..i) \ {i} = 1..i-1
  OBVIOUS
<1>2. Max(1..i) \in 1..i /\ \A y \in 1..i : y <= Max(1..i)
  BY <1>1, MaxIs
<1> QED
  BY <1>1, <1>2

(* The same from the other end. *)
LEMMA MinIs ==
  ASSUME NEW n \in Nat, NEW S \in SUBSET (1..n), S # {}
  PROVE  Min(S) \in S /\ \A y \in S : Min(S) <= y
<1>1. S \in SUBSET Nat
  OBVIOUS
<1>2. \E x \in S : \A y \in S : x <= y
  BY <1>1, Least
<1> QED
  BY <1>2 DEF Min

LEMMA MinOfSuffix ==
  ASSUME NEW n \in Nat, NEW i \in 1..n
  PROVE  /\ i..n \in SUBSET (1..n) /\ i..n # {}
         /\ Min(i..n) = i /\ (i..n) \ {i} = i+1..n
<1>1. i..n \in SUBSET (1..n) /\ i..n # {} /\ (i..n) \ {i} = i+1..n
  OBVIOUS
<1>2. Min(i..n) \in i..n /\ \A y \in i..n : Min(i..n) <= y
  BY <1>1, MinIs
<1>3. i \in i..n
  OBVIOUS
<1> QED
  BY <1>1, <1>2, <1>3

(***************************************************************************)
(* The function that a fold is defined by, on the subsets of D: pick[s] is *)
(* the member of s that is folded last.  There is one, for a step that     *)
(* stays within U.                                                         *)
(***************************************************************************)
IsFold(F, D, base, g, pick) ==
  \A s \in SUBSET D :
    F[s] = IF s = {} THEN base ELSE g[<<F[s \ {pick[s]}], pick[s]>>]

LEMMA FoldExists ==
  ASSUME NEW D, IsFiniteSet(D), NEW U, NEW base \in U, NEW g \in [U \X D -> U],
         NEW pick, \A s \in SUBSET D : s # {} => pick[s] \in s
  PROVE  \E F \in [SUBSET D -> U] : IsFold(F, D, base, g, pick)
<1> DEFINE Up(F, k) ==
             /\ F \in [SUBSET D -> U]
             /\ \A s \in SUBSET D : Cardinality(s) <= k =>
                  F[s] = IF s = {} THEN base
                         ELSE g[<<F[s \ {pick[s]}], pick[s]>>]
           n == Cardinality(D)
           T == {k \in 0..n : \E F : Up(F, k)}
<1>1. /\ n \in Nat
      /\ \A s \in SUBSET D : /\ IsFiniteSet(s) /\ Cardinality(s) \in Nat
                             /\ Cardinality(s) <= n
                             /\ Cardinality(s) = 0 <=> s = {}
  BY FS_CardinalityType, FS_Subset, FS_EmptySet
<1>2. \A s \in SUBSET D : s # {} =>
        /\ s \ {pick[s]} \in SUBSET D
        /\ Cardinality(s \ {pick[s]}) = Cardinality(s) - 1
  BY <1>1, FS_RemoveElement
<1> HIDE DEF n
<1>3. 0 \in T
  <2>1. Up([s \in SUBSET D |-> base], 0)
    BY <1>1
  <2> HIDE DEF Up
  <2>2. 0 \in 0..n
    BY <1>1
  <2> QED
    BY <2>1, <2>2
<1>4. ASSUME NEW k \in 0..n-1, k \in T PROVE k+1 \in T
  <2>1. PICK F : Up(F, k)
    BY <1>4
  <2> DEFINE G == [s \in SUBSET D |->
                     IF s = {} THEN base ELSE g[<<F[s \ {pick[s]}], pick[s]>>]]
  <2>2. G \in [SUBSET D -> U]
    <3>1. ASSUME NEW s \in SUBSET D, s # {}
          PROVE  g[<<F[s \ {pick[s]}], pick[s]>>] \in U
      <4>1. F[s \ {pick[s]}] \in U /\ pick[s] \in D
        BY <1>2, <2>1, <3>1
      <4> QED
        BY <4>1
    <3> QED
      BY <3>1
  <2>3. \A s \in SUBSET D : Cardinality(s) <= k => G[s] = F[s]
    BY <2>1
  <2>4. ASSUME NEW s \in SUBSET D, Cardinality(s) <= k+1
        PROVE  G[s] = IF s = {} THEN base
                      ELSE g[<<G[s \ {pick[s]}], pick[s]>>]
    <3>1. CASE s = {}
      BY <3>1
    <3>2. CASE s # {}
      <4>1. Cardinality(s \ {pick[s]}) <= k /\ s \ {pick[s]} \in SUBSET D
        BY <1>1, <1>2, <2>4, <3>2
      <4>2. G[s \ {pick[s]}] = F[s \ {pick[s]}]
        BY <2>3, <4>1
      <4>3. G[s] = g[<<F[s \ {pick[s]}], pick[s]>>]
        BY <3>2
      <4> HIDE DEF G
      <4> QED
        BY <3>2, <4>2, <4>3
    <3> QED
      BY <3>1, <3>2
  <2>5. Up(G, k+1)
    BY <2>2, <2>4
  <2>6. k+1 \in 0..n
    BY <1>1
  <2> HIDE DEF Up, G
  <2> QED
    BY <2>5, <2>6
<1>5. \A i \in 0..n : i \in T
  <2> HIDE DEF T
  <2> QED
    BY <1>1, <1>3, <1>4, Steps
<1>6. PICK F : Up(F, n)
  <2>1. n \in 0..n
    BY <1>1
  <2> HIDE DEF Up
  <2> QED
    BY <1>5, <2>1
<1>7. IsFold(F, D, base, g, pick)
  BY <1>1, <1>6 DEF IsFold
<1> QED
  BY <1>6, <1>7

(***************************************************************************)
(* Of a sequence: along the subsets of 1..n, the greatest member last.     *)
(***************************************************************************)
Along(F, n, base, g) ==
  \A s \in SUBSET (1..n) :
    F[s] = IF s = {} THEN base ELSE g[<<F[s \ {Max(s)}], Max(s)>>]

LEMMA AlongExists ==
  ASSUME NEW n \in Nat, NEW U, NEW base \in U, NEW g \in [U \X (1..n) -> U]
  PROVE  \E F \in [SUBSET (1..n) -> U] : Along(F, n, base, g)
<1> DEFINE pick == [s \in SUBSET (1..n) |-> Max(s)]
<1>1. IsFiniteSet(1..n)
  BY FS_Interval
<1>2. \A s \in SUBSET (1..n) : s # {} => pick[s] \in s
  BY MaxIs
<1>3. \A s \in SUBSET (1..n) : pick[s] = Max(s)
  OBVIOUS
<1> HIDE DEF pick
<1>4. PICK F \in [SUBSET (1..n) -> U] : IsFold(F, 1..n, base, g, pick)
  BY <1>1, <1>2, FoldExists
<1>5. Along(F, n, base, g)
  BY <1>3, <1>4 DEF IsFold, Along
<1> QED
  BY <1>5

-----------------------------------------------------------------------------
(* What is without some members has the others, in the order they were. *)
LEMMA WithoutIs ==
  ASSUME NEW A, NEW s \in Seq(A), NEW S, Distinct(s)
  PROVE  /\ Without(s, S) \in Seq(A)
         /\ Distinct(Without(s, S))
         /\ ToSet(Without(s, S)) = ToSet(s) \ S
<1> DEFINE N == Len(s)
           Step(t, e) == IF e \in S THEN t ELSE Append(t, e)
           U == Seq(A)
           g == [p \in U \X (1..N) |-> Step(p[1], s[p[2]])]
           Is(F) == F = [t \in SUBSET (DOMAIN s) |->
                           IF t = {} THEN <<>>
                           ELSE Step(F[t \ {Max(t)}], s[Max(t)])]
           F == CHOOSE F : Is(F)
<1>1. /\ N \in Nat /\ DOMAIN s = 1..N /\ <<>> \in U
      /\ \A i \in 1..N : s[i] \in A
  BY LenProperties, ElementOfSeq, EmptySeq
<1>2. Without(s, S) = F[DOMAIN s]
  BY DEF Without, FoldLeft, MapThenFoldSet
<1>3. \A t \in U, e \in A : Step(t, e) \in U
  BY AppendProperties
<1>4. g \in [U \X (1..N) -> U]
  <2> HIDE DEF Step, U, N
  <2> QED
    BY <1>1, <1>3
<1>5. PICK E \in [SUBSET (1..N) -> U] : Along(E, N, <<>>, g)
  <2> HIDE DEF N, U, g
  <2> QED
    BY <1>1, <1>4, AlongExists
<1>6. ASSUME NEW t \in SUBSET (1..N)
      PROVE  E[t] = IF t = {} THEN <<>> ELSE Step(E[t \ {Max(t)}], s[Max(t)])
  <2>1. CASE t = {}
    BY <1>5, <2>1 DEF Along
  <2>2. CASE t # {}
    <3>1. Max(t) \in 1..N /\ t \ {Max(t)} \in SUBSET (1..N)
      BY <1>1, <2>2, MaxIs
    <3> HIDE DEF N, U, Step
    <3>2. E[t \ {Max(t)}] \in U
      BY <1>5, <3>1
    <3>3. g[<<E[t \ {Max(t)}], Max(t)>>] = Step(E[t \ {Max(t)}], s[Max(t)])
      BY <3>1, <3>2
    <3> QED
      BY <1>5, <2>2, <3>3 DEF Along
  <2> QED
    BY <2>1, <2>2
<1>7. Is(F)
  <2>1. Is(E)
    <3> HIDE DEF N, Step
    <3> QED
      BY <1>1, <1>5, <1>6
  <2> HIDE DEF Is
  <2> QED
    BY <2>1
<1> HIDE DEF F
<1>8. F[1..0] = <<>> /\ \A i \in 1..N : F[1..i] = Step(F[1..i-1], s[i])
  <2> HIDE DEF N, Step
  <2>1. 1..0 = {} /\ {} \in SUBSET (1..N)
    OBVIOUS
  <2>2. ASSUME NEW i \in 1..N PROVE F[1..i] = Step(F[1..i-1], s[i])
    <3>1. /\ 1..i \in SUBSET (1..N) /\ 1..i # {}
          /\ Max(1..i) = i /\ (1..i) \ {i} = 1..i-1
      BY <1>1, MaxOfPrefix
    <3> QED
      BY <1>1, <1>7, <3>1
  <2> QED
    BY <1>1, <1>7, <2>1, <2>2
<1> DEFINE Right(i, t) == /\ t \in Seq(A) /\ Distinct(t)
                          /\ ToSet(t) = {s[j] : j \in 1..i} \ S
           T == {i \in 0..N : Right(i, F[1..i])}
<1>9. 0 \in T
  <2>1. Right(0, <<>>)
    BY EmptySeq, LenProperties DEF Distinct, ToSet
  <2> HIDE DEF Right
  <2> QED
    BY <1>1, <1>8, <2>1
<1>10. ASSUME NEW i \in 0..N-1, i \in T PROVE i+1 \in T
  <2> DEFINE t == F[1..i]
             e == s[i+1]
  <2>1. /\ Right(i, t) /\ i+1 \in 1..N /\ F[1..i+1] = Step(t, e) /\ e \in A
    <3> HIDE DEF Right, Step
    <3>1. i+1 \in 1..N /\ (i+1)-1 = i
      BY <1>1
    <3> QED
      BY <1>1, <1>8, <1>10, <3>1
  <2>2. {s[j] : j \in 1..i+1} = {s[j] : j \in 1..i} \cup {e}
    <3>1. 1..i+1 = (1..i) \cup {i+1}
      OBVIOUS
    <3> QED
      BY <3>1
  <2> HIDE DEF F, t, e
  <2>3. CASE e \in S
    <3>1. Right(i+1, t)
      BY <2>1, <2>2, <2>3
    <3>2. F[1..i+1] = t /\ i+1 \in 0..N
      BY <1>1, <2>1, <2>3
    <3> HIDE DEF Right, Step, N
    <3> QED
      BY <3>1, <3>2
  <2>4. CASE e \notin S
    <3>1. \A k \in 1..Len(t) : t[k] # e
      <4>1. \A k \in 1..Len(t) : t[k] \in ToSet(t)
        BY <2>1, LenProperties DEF ToSet
      <4>2. e \notin {s[j] : j \in 1..i}
        <5>1. \A j \in 1..i : j \in 1..N /\ j # i+1
          BY <1>1
        <5> QED
          BY <2>1, <5>1 DEF Distinct, e
      <4> QED
        BY <2>1, <4>1, <4>2
    <3>2. /\ Append(t, e) \in Seq(A) /\ Distinct(Append(t, e))
          /\ ToSet(Append(t, e)) = ToSet(t) \cup {e}
      BY <2>1, <3>1, AppendProperties, AppendDistinct, AppendMembers
    <3>3. Right(i+1, Append(t, e))
      BY <2>1, <2>2, <2>4, <3>2
    <3>4. F[1..i+1] = Append(t, e) /\ i+1 \in 0..N
      BY <1>1, <2>1, <2>4
    <3> HIDE DEF Right, Step, N
    <3> QED
      BY <3>3, <3>4
  <2> QED
    BY <2>3, <2>4
<1>11. Right(N, F[1..N])
  <2> HIDE DEF T
  <2>1. \A i \in 0..N : i \in T
    BY <1>1, <1>9, <1>10, Steps
  <2>2. N \in 0..N
    BY <1>1
  <2> QED
    BY <2>1, <2>2 DEF T
<1> QED
  BY <1>1, <1>2, <1>11 DEF ToSet
=============================================================================
