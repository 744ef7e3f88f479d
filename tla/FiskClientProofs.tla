-------------------------- MODULE FiskClientProofs --------------------------
(***************************************************************************)
(* Proofs about FiskClient, for any output files, failures and number of   *)
(* heartbeats: the watchdog's stages are passed in order and the source is *)
(* not sent to a builder that has the client wait; a run that ends without *)
(* a local compile has every output file, whole; and the object cache is   *)
(* asked for the MD5 of the whole source.                                  *)
(*                                                                         *)
(* The handlers of the builder's messages are folds, over the messages     *)
(* that were read and, in fill(), over the files to come.  So the first    *)
(* part is what such a fold goes through; the second the stages and the    *)
(* order of what is sent; the third the files; the last the MD5.           *)
(***************************************************************************)
EXTENDS FiskClient, KeySequences

(* A websocket; the type of b. *)
Sockets ==
  [state : {"none", "connecting", "connected", "gone"},
   done : BOOLEAN, error : BOOLEAN, wait : BOOLEAN,
   files : Seq(Nat), total : Nat, f : BOOLEAN, intact : BOOLEAN]

-----------------------------------------------------------------------------
(* Files to come, of which some bytes of the first are written. *)
LEMMA FilesWritten ==
  ASSUME NEW fs \in Seq(Nat), fs # <<>>, NEW n \in Nat, n <= Head(fs)
  PROVE  /\ Head(fs) \in Nat /\ Tail(fs) \in Seq(Nat)
         /\ Len(fs) \in Nat /\ Len(fs) > 0 /\ Len(Tail(fs)) = Len(fs) - 1
         /\ <<Head(fs) - n>> \o Tail(fs) \in Seq(Nat)
         /\ <<Head(fs) - n>> \o Tail(fs) # <<>>
         /\ Tail(<<Head(fs) - n>> \o Tail(fs)) = Tail(fs)
<1> DEFINE x == Head(fs) - n
           t == Tail(fs)
           c == <<x>> \o t
<1>1. /\ Head(fs) \in Nat /\ t \in Seq(Nat) /\ Len(t) = Len(fs) - 1
      /\ Len(fs) \in Nat /\ Len(fs) > 0
  OBVIOUS
<1>2. x \in Nat
  BY <1>1
<1> HIDE DEF x, t
<1>3. <<x>> \in Seq(Nat) /\ Len(<<x>>) = 1
  BY <1>2
<1>4. /\ c \in Seq(Nat) /\ Len(c) = 1 + Len(t)
      /\ \A i \in 1..Len(c) : c[i] = IF i <= 1 THEN <<x>>[i] ELSE t[i-1]
  BY <1>1, <1>3, ConcatProperties
<1>5. c # <<>>
  BY <1>1, <1>4, LenProperties
<1>6. Tail(c) = t
  <2>1. /\ Tail(c) \in Seq(Nat) /\ Len(Tail(c)) = Len(t)
        /\ \A i \in 1..Len(t) : Tail(c)[i] = c[i+1]
    BY <1>1, <1>4, <1>5, LenProperties
  <2>2. \A i \in 1..Len(t) : c[i+1] = t[i]
    BY <1>1, <1>4, LenProperties
  <2> QED
    BY <1>1, <2>1, <2>2, SeqEqual
<1> QED
  BY <1>1, <1>4, <1>5, <1>6 DEF x, t

(* A websocket that fails. *)
LEMMA FailsTyped ==
  ASSUME NEW s \in Sockets
  PROVE  /\ Fails(s) \in Sockets /\ Fails(s).error
         /\ Fails(s).state = s.state /\ Fails(s).wait = s.wait
         /\ Fails(s).files = s.files
BY DEF Fails, Sockets

(* A round of fill(), while there are files. *)
Rounds(s) ==
  {r \in [s : Sockets, offset : Nat, stop : BOOLEAN] :
     /\ r.stop \/ r.s.files # <<>>
     /\ r.s.state = s.state /\ r.s.wait = s.wait /\ (s.error => r.s.error)}

LEMMA FillRoundTyped ==
  ASSUME NEW s \in Sockets, NEW m \in Messages, NEW io, NEW r \in Rounds(s)
  PROVE  FillRound(r, m, io) \in Rounds(s)
<1> DEFINE front == Head(r.s.files)
           n == IF front < m.bytes THEN front ELSE m.bytes
           at == r.s.total - Len(r.s.files) + 1
           intact == r.s.intact /\ (n > 0 => m.file = at /\ r.offset + n <= m.bytes)
           rest == <<front - n>> \o Tail(r.s.files)
           written == [r.s EXCEPT !.files = rest, !.intact = intact]
           more == Len(r.s.files) > 1
           next == [written EXCEPT !.files = Tail(@), !.f = more]
           used == r.offset + n
           spoiled == n > 0 /\ io = "write"
<1>1. CASE r.stop
  BY <1>1 DEF FillRound
<1>2. CASE ~r.stop
  <2>1. /\ r.s \in Sockets /\ r.offset \in Nat /\ r.s.files \in Seq(Nat)
        /\ r.s.files # <<>> /\ m.bytes \in Nat
        /\ r.s.state = s.state /\ r.s.wait = s.wait /\ (s.error => r.s.error)
    BY <1>2 DEF Rounds, Sockets, Messages
  <2>2. front \in Nat
    BY <2>1, FilesWritten
  <2>3. n \in Nat /\ n <= front /\ n <= m.bytes
    BY <2>1, <2>2
  <2>4. used \in Nat
    BY <2>1, <2>3
  <2>5. /\ spoiled =>
             FillRound(r, m, io) =
               [s |-> Fails(r.s), offset |-> m.bytes, stop |-> TRUE]
        /\ ~spoiled /\ n < front =>
             FillRound(r, m, io) =
               [s |-> written, offset |-> used, stop |-> used >= m.bytes]
        /\ ~spoiled /\ n = front /\ next.f /\ io = "open" =>
             FillRound(r, m, io) =
               [s |-> Fails([next EXCEPT !.f = FALSE]), offset |-> m.bytes,
                stop |-> TRUE]
        /\ ~spoiled /\ n = front /\ ~(next.f /\ io = "open") =>
             FillRound(r, m, io) =
               [s |-> next, offset |-> used,
                stop |-> ~next.f \/ used >= m.bytes]
    <3>1. spoiled => FillRound(r, m, io) =
                       [s |-> Fails(r.s), offset |-> m.bytes, stop |-> TRUE]
      BY <1>2 DEF FillRound
    <3>2. ~spoiled /\ n < front =>
            FillRound(r, m, io) =
              [s |-> written, offset |-> used, stop |-> used >= m.bytes]
      BY <1>2, <2>1, <2>2 DEF FillRound
    <3>3. ~spoiled /\ n = front =>
            FillRound(r, m, io) =
              IF next.f /\ io = "open"
              THEN [s |-> Fails([next EXCEPT !.f = FALSE]),
                    offset |-> m.bytes, stop |-> TRUE]
              ELSE [s |-> next, offset |-> used,
                    stop |-> ~next.f \/ used >= m.bytes]
      BY <1>2, <2>2 DEF FillRound
    <3> HIDE DEF n, front, used, written, next, spoiled
    <3> QED
      BY <3>1, <3>2, <3>3
  <2> HIDE DEF n, front, used
  <2>6. /\ rest \in Seq(Nat) /\ rest # <<>> /\ Tail(rest) \in Seq(Nat)
        /\ more => Tail(rest) # <<>>
    <3>1. /\ rest \in Seq(Nat) /\ rest # <<>> /\ Tail(rest) = Tail(r.s.files)
          /\ Tail(r.s.files) \in Seq(Nat)
          /\ Len(Tail(r.s.files)) = Len(r.s.files) - 1
      BY <2>1, <2>3, FilesWritten DEF front
    <3>2. more => Tail(r.s.files) # <<>>
      <4>1. Tail(r.s.files) = <<>> <=> Len(Tail(r.s.files)) = 0
        BY <3>1, EmptySeq
      <4>2. Len(r.s.files) \in Nat
        BY <2>1, LenProperties
      <4>3. \A k \in Nat : k > 1 => k - 1 # 0
        OBVIOUS
      <4> QED
        BY <3>1, <4>1, <4>2, <4>3 DEF more
    <3> QED
      BY <3>1, <3>2
  <2>7. intact \in BOOLEAN /\ more \in BOOLEAN /\ spoiled \in BOOLEAN
    BY <2>1, <2>3 DEF Sockets
  <2> HIDE DEF intact, rest, more, spoiled
  <2>8. /\ written \in Sockets /\ written.files = rest
        /\ written.state = s.state /\ written.wait = s.wait
        /\ s.error => written.error
    BY <2>1, <2>6, <2>7 DEF Sockets
  <2> HIDE DEF written
  <2>9. /\ next \in Sockets /\ next.files = Tail(rest) /\ next.f = more
        /\ next.state = s.state /\ next.wait = s.wait
        /\ s.error => next.error
    BY <2>6, <2>7, <2>8 DEF Sockets
  <2> HIDE DEF next
  <2>10. /\ [next EXCEPT !.f = FALSE] \in Sockets
         /\ [next EXCEPT !.f = FALSE].state = s.state
         /\ [next EXCEPT !.f = FALSE].wait = s.wait
    BY <2>9 DEF Sockets
  <2>11. CASE spoiled
    <3>1. [s |-> Fails(r.s), offset |-> m.bytes, stop |-> TRUE] \in Rounds(s)
      BY <2>1, FailsTyped DEF Rounds
    <3> QED
      BY <2>5, <2>11, <3>1
  <2>12. CASE ~spoiled /\ n < front
    <3>1. [s |-> written, offset |-> used, stop |-> used >= m.bytes] \in Rounds(s)
      BY <2>1, <2>4, <2>6, <2>8 DEF Rounds
    <3> QED
      BY <2>2, <2>3, <2>5, <2>12, <3>1
  <2>13. CASE ~spoiled /\ n = front /\ next.f /\ io = "open"
    <3>1. [s |-> Fails([next EXCEPT !.f = FALSE]), offset |-> m.bytes,
           stop |-> TRUE] \in Rounds(s)
      BY <2>1, <2>10, FailsTyped DEF Rounds
    <3> QED
      BY <2>2, <2>3, <2>5, <2>13, <3>1
  <2>14. CASE ~spoiled /\ n = front /\ ~(next.f /\ io = "open")
    <3>1. [s |-> next, offset |-> used, stop |-> ~next.f \/ used >= m.bytes]
            \in Rounds(s)
      BY <2>1, <2>4, <2>6, <2>9 DEF Rounds
    <3> QED
      BY <2>2, <2>3, <2>5, <2>14, <3>1
  <2> QED
    BY <2>2, <2>3, <2>11, <2>12, <2>13, <2>14
<1> QED
  BY <1>1, <1>2

(* What the loop of fill() goes through. *)
FillGoes(h, s, m, io) ==
  /\ h[0] = [s |-> s, offset |-> 0, stop |-> FALSE]
  /\ \A i \in 1..Len(s.files) : h[i] = FillRound(h[i-1], m, io)
  /\ Fill(s, m, io) = IF h[Len(s.files)].offset < m.bytes
                      THEN Fails(h[Len(s.files)].s)
                      ELSE h[Len(s.files)].s

LEMMA FillChain ==
  ASSUME NEW s \in Sockets, s.files # <<>>, NEW m \in Messages, NEW io
  PROVE  \E h \in [0..Len(s.files) -> Rounds(s)] : FillGoes(h, s, m, io)
<1> DEFINE N == Len(s.files)
           base == [s |-> s, offset |-> 0, stop |-> FALSE]
           U == Rounds(s)
           g == [p \in U \X (1..N) |-> FillRound(p[1], m, io)]
           seq == [i \in 1..N |-> i]
           Is(F) == F = [t \in SUBSET (DOMAIN seq) |->
                           IF t = {} THEN base
                           ELSE FillRound(F[t \ {Max(t)}], m, io)]
           F == CHOOSE F : Is(F)
           end == F[DOMAIN seq]
<1>1. N \in Nat /\ DOMAIN seq = 1..N
  BY LenProperties DEF Sockets
<1>2. base \in U
  BY DEF Rounds
<1>3. g \in [U \X (1..N) -> U]
  BY FillRoundTyped
<1>4. Fill(s, m, io) = IF end.offset < m.bytes THEN Fails(end.s) ELSE end.s
  BY DEF Fill, FoldLeft, MapThenFoldSet
<1>5. PICK E \in [SUBSET (1..N) -> U] : Along(E, N, base, g)
  <2> HIDE DEF N, base, U, g
  <2> QED
    BY <1>1, <1>2, <1>3, AlongExists
<1>6. ASSUME NEW t \in SUBSET (1..N)
      PROVE  E[t] = IF t = {} THEN base ELSE FillRound(E[t \ {Max(t)}], m, io)
  <2>1. CASE t = {}
    BY <1>5, <2>1 DEF Along
  <2>2. CASE t # {}
    <3>1. Max(t) \in 1..N /\ t \ {Max(t)} \in SUBSET (1..N)
      BY <1>1, <2>2, MaxIs
    <3> HIDE DEF N, U
    <3>2. E[t \ {Max(t)}] \in U
      BY <1>5, <3>1
    <3>3. g[<<E[t \ {Max(t)}], Max(t)>>] = FillRound(E[t \ {Max(t)}], m, io)
      BY <3>1, <3>2
    <3> QED
      BY <1>5, <2>2, <3>3 DEF Along
  <2> QED
    BY <2>1, <2>2
<1>7. Is(E)
  <2> HIDE DEF N, base
  <2> QED
    BY <1>1, <1>5, <1>6
<1>8. Is(F)
  <2> HIDE DEF Is
  <2> QED
    BY <1>7
<1> HIDE DEF F
<1>9. F[1..0] = base /\ \A i \in 1..N : F[1..i] = FillRound(F[1..i-1], m, io)
  <2> HIDE DEF N, base
  <2>1. 1..0 = {} /\ {} \in SUBSET (1..N)
    OBVIOUS
  <2>2. ASSUME NEW i \in 1..N PROVE F[1..i] = FillRound(F[1..i-1], m, io)
    <3>1. /\ 1..i \in SUBSET (1..N) /\ 1..i # {}
          /\ Max(1..i) = i /\ (1..i) \ {i} = 1..i-1
      BY <1>1, MaxOfPrefix
    <3> QED
      BY <1>1, <1>8, <3>1
  <2> QED
    BY <1>1, <1>8, <2>1, <2>2
<1> DEFINE h == [i \in 0..N |-> F[1..i]]
<1> HIDE DEF N, base, U
<1>10. h[0] = base /\ \A i \in 1..N : h[i] = FillRound(h[i-1], m, io)
  BY <1>1, <1>9
<1>11. \A i \in 0..N : i \in {k \in 0..N : h[k] \in U}
  <2> DEFINE T == {k \in 0..N : h[k] \in U}
  <2>1. 0 \in T
    BY <1>1, <1>2, <1>10
  <2>2. ASSUME NEW i \in 0..N-1, i \in T PROVE i+1 \in T
    <3>1. h[i] \in U /\ i+1 \in 1..N /\ (i+1)-1 = i
      BY <1>1, <2>2
    <3>2. h[i+1] = FillRound(h[i], m, io)
      BY <1>10, <3>1
    <3> HIDE DEF h
    <3>3. h[i+1] \in U
      BY <3>1, <3>2, FillRoundTyped DEF U
    <3> QED
      BY <3>1, <3>3
  <2> HIDE DEF T
  <2>3. \A i \in 0..N : i \in T
    BY <1>1, <2>1, <2>2, Steps
  <2> QED
    BY <2>3 DEF T
<1>12. h \in [0..N -> U]
  BY <1>11
<1>13. end = h[N]
  BY <1>1
<1>14. FillGoes(h, s, m, io)
  BY <1>4, <1>10, <1>13 DEF FillGoes, N, base
<1>15. h \in [0..Len(s.files) -> Rounds(s)]
  BY <1>12 DEF N, U
<1> HIDE DEF h
<1> QED
  BY <1>14, <1>15

(* fill() leaves a websocket, whatever goes wrong. *)
LEMMA FillTyped ==
  ASSUME NEW s \in Sockets, s.files # <<>>, NEW m \in Messages, NEW io
  PROVE  /\ Fill(s, m, io) \in Sockets
         /\ Fill(s, m, io).state = s.state /\ Fill(s, m, io).wait = s.wait
         /\ s.error => Fill(s, m, io).error
<1>1. PICK h \in [0..Len(s.files) -> Rounds(s)] : FillGoes(h, s, m, io)
  BY FillChain
<1>2. h[Len(s.files)] \in Rounds(s)
  BY LenProperties DEF Sockets
<1>3. /\ h[Len(s.files)].s \in Sockets
      /\ h[Len(s.files)].s.state = s.state /\ h[Len(s.files)].s.wait = s.wait
      /\ s.error => h[Len(s.files)].s.error
  BY <1>2 DEF Rounds
<1> QED
  BY <1>1, <1>3, FailsTyped DEF FillGoes

(* A message that is the next file is written as that file, or the         *)
(* websocket fails.                                                        *)
LEMMA FillOfFile ==
  ASSUME NEW s \in Sockets, s.files # <<>>, NEW m \in Messages, NEW io,
         m.bytes = Head(s.files), m.file = s.total - Len(s.files) + 1
  PROVE  \/ Fill(s, m, io).error
         \/ Fill(s, m, io) = [s EXCEPT !.files = Tail(s.files),
                                       !.f = Len(s.files) > 1]
<1> DEFINE N == Len(s.files)
           base == [s |-> s, offset |-> 0, stop |-> FALSE]
           next == [s EXCEPT !.files = Tail(s.files), !.f = N > 1]
           first == FillRound(base, m, io)
<1>1. N \in Nat /\ N > 0 /\ m.bytes \in Nat /\ s.files \in Seq(Nat)
  BY LenProperties DEF Sockets, Messages
<1>2. PICK h \in [0..N -> Rounds(s)] :
        /\ h[0] = base
        /\ \A i \in 1..N : h[i] = FillRound(h[i-1], m, io)
        /\ Fill(s, m, io) = IF h[N].offset < m.bytes
                            THEN Fails(h[N].s) ELSE h[N].s
  <2>1. PICK h \in [0..N -> Rounds(s)] : FillGoes(h, s, m, io)
    BY FillChain
  <2> QED
    BY <2>1 DEF FillGoes
<1>3. first.stop /\ (first.s.error \/ (first.s = next /\ first.offset = m.bytes))
  <2> DEFINE n == IF m.bytes < m.bytes THEN m.bytes ELSE m.bytes
             rest == <<m.bytes - n>> \o Tail(s.files)
             intact == s.intact /\ (n > 0 => m.file = s.total - N + 1
                                             /\ 0 + n <= m.bytes)
             written == [s EXCEPT !.files = rest, !.intact = intact]
             after == [written EXCEPT !.files = Tail(@), !.f = N > 1]
             spoiled == n > 0 /\ io = "write"
  <2>1. first = IF spoiled
                THEN [s |-> Fails(s), offset |-> m.bytes, stop |-> TRUE]
                ELSE IF after.f /\ io = "open"
                THEN [s |-> Fails([after EXCEPT !.f = FALSE]),
                      offset |-> m.bytes, stop |-> TRUE]
                ELSE [s |-> after, offset |-> 0 + n,
                      stop |-> ~after.f \/ 0 + n >= m.bytes]
    <3>1. spoiled => first = [s |-> Fails(s), offset |-> m.bytes, stop |-> TRUE]
      BY DEF FillRound
    <3>2. ~spoiled => first =
            IF after.f /\ io = "open"
            THEN [s |-> Fails([after EXCEPT !.f = FALSE]),
                  offset |-> m.bytes, stop |-> TRUE]
            ELSE [s |-> after, offset |-> 0 + n,
                  stop |-> ~after.f \/ 0 + n >= m.bytes]
      BY <1>1 DEF FillRound
    <3> HIDE DEF first, after, spoiled
    <3> QED
      BY <3>1, <3>2
  <2>2. n = m.bytes
    BY <1>1
  <2>3. Tail(rest) = Tail(s.files)
    <3>1. n \in Nat /\ n <= Head(s.files)
      BY <1>1, <2>2
    <3> HIDE DEF n
    <3>2. Tail(<<Head(s.files) - n>> \o Tail(s.files)) = Tail(s.files)
      BY <1>1, <3>1, FilesWritten
    <3> QED
      BY <3>2
  <2>4. intact = s.intact
    BY <1>1, <2>2 DEF Sockets
  <2> HIDE DEF n, rest, intact, spoiled
  <2>5. after = next
    BY <2>3, <2>4 DEF Sockets
  <2>6. after.f = (N > 1)
    BY <2>5 DEF Sockets
  <2> HIDE DEF after, next, first
  <2>7. [s |-> Fails(s), offset |-> m.bytes, stop |-> TRUE].s.error
        /\ [s |-> Fails([after EXCEPT !.f = FALSE]), offset |-> m.bytes,
            stop |-> TRUE].s.error
    BY <2>5 DEF next, Fails, Sockets
  <2>8. 0 + n >= m.bytes /\ 0 + n = m.bytes
    BY <1>1, <2>2
  <2> QED
    BY <2>1, <2>5, <2>7, <2>8
<1> HIDE DEF base, next, first
<1>4. h[N] = first
  <2> DEFINE T == {i \in 0..N : i > 0 => h[i] = first}
  <2>1. 0 \in T
    BY <1>1
  <2>2. ASSUME NEW i \in 0..N-1, i \in T PROVE i+1 \in T
    <3>1. h[i+1] = FillRound(h[i], m, io)
      BY <1>1, <1>2
    <3>2. CASE i = 0
      BY <1>1, <1>2, <3>1, <3>2 DEF first
    <3>3. CASE i # 0
      <4>1. h[i] = first
        BY <1>1, <2>2, <3>3
      <4>2. FillRound(first, m, io) = first
        BY <1>3 DEF FillRound
      <4> QED
        BY <1>1, <3>1, <4>1, <4>2
    <3> QED
      BY <3>2, <3>3
  <2> HIDE DEF T
  <2> HIDE DEF N
  <2>3. \A i \in 0..N : i \in T
    BY <1>1, <2>1, <2>2, Steps
  <2> QED
    BY <1>1, <2>3 DEF T
<1>5. CASE first.s.error
  BY <1>2, <1>4, <1>5 DEF Fails
<1>6. CASE first.s = next /\ first.offset = m.bytes
  BY <1>1, <1>2, <1>4, <1>6 DEF next
<1> QED
  BY <1>3, <1>5, <1>6

(* onMessage() leaves a websocket, of which an error remains, and only     *)
(* "resume" ends its waiting.                                              *)
LEMMA OnMessageTyped ==
  ASSUME NEW s \in Sockets, NEW m \in Messages, m.type # "eof", NEW io,
         FiskClientAssumption
  PROVE  /\ OnMessage(s, m, io) \in Sockets
         /\ OnMessage(s, m, io).state = s.state
         /\ m.type # "resume" => OnMessage(s, m, io).wait = s.wait
         /\ s.error => OnMessage(s, m, io).error
<1>1. CASE m.type = "resume"
  BY <1>1 DEF OnMessage, Sockets
<1>2. CASE m.type = "heartbeat"
  BY <1>2 DEF OnMessage
<1>3. CASE m.type = "bad"
  BY <1>3, FailsTyped DEF OnMessage
<1>4. CASE m.type = "ok"
  <2> DEFINE begun == [s EXCEPT !.files = m.index, !.total = Len(m.index)]
  <2>1. m.index \in Seq(Nat) /\ Len(m.index) \in Nat
    <3>1. m.index \in Indexes \cup {<<>>} /\ <<>> \in Seq(Nat)
      BY DEF Messages
    <3> QED
      BY <3>1, LenProperties DEF FiskClientAssumption
  <2>2. /\ begun \in Sockets /\ begun.state = s.state /\ begun.wait = s.wait
        /\ s.error => begun.error
    BY <2>1 DEF Sockets
  <2>3. /\ [begun EXCEPT !.f = TRUE] \in Sockets
        /\ [begun EXCEPT !.f = TRUE].state = s.state
        /\ [begun EXCEPT !.f = TRUE].wait = s.wait
        /\ s.error => [begun EXCEPT !.f = TRUE].error
    BY <2>2 DEF Sockets
  <2>4. /\ [s EXCEPT !.done = TRUE] \in Sockets
        /\ [s EXCEPT !.done = TRUE].state = s.state
        /\ [s EXCEPT !.done = TRUE].wait = s.wait
        /\ s.error => [s EXCEPT !.done = TRUE].error
    BY DEF Sockets
  <2>5. OnMessage(s, m, io) = Response(s, m, io)
    BY <1>4 DEF OnMessage
  <2>6. Response(s, m, io) \in {[s EXCEPT !.done = TRUE], Fails(begun),
                                [begun EXCEPT !.f = TRUE]}
    BY DEF Response
  <2> HIDE DEF begun
  <2>7. /\ Fails(begun) \in Sockets
        /\ Fails(begun).state = s.state /\ Fails(begun).wait = s.wait
        /\ Fails(begun).error
    BY <2>2, FailsTyped
  <2> QED
    BY <2>3, <2>4, <2>5, <2>6, <2>7
<1>5. CASE m.type = "data"
  <2> DEFINE after == Fill(s, m, io)
  <2>1. OnMessage(s, m, io) = Binary(s, m, io)
    BY <1>5 DEF OnMessage
  <2>2. CASE s.files = <<>>
    BY <2>1, <2>2, FailsTyped DEF Binary
  <2>3. CASE s.files # <<>>
    <3>1. /\ after \in Sockets /\ after.state = s.state /\ after.wait = s.wait
          /\ s.error => after.error
      BY <2>3, FillTyped
    <3> DEFINE done == after.done \/ after.files = <<>>
    <3>2. Binary(s, m, io) = [after EXCEPT !.done = done]
      BY <2>3 DEF Binary
    <3>3. done \in BOOLEAN
      BY <3>1 DEF Sockets
    <3> HIDE DEF after, done
    <3>4. /\ [after EXCEPT !.done = done] \in Sockets
          /\ [after EXCEPT !.done = done].state = after.state
          /\ [after EXCEPT !.done = done].wait = after.wait
          /\ [after EXCEPT !.done = done].error = after.error
      BY <3>1, <3>3 DEF Sockets
    <3> QED
      BY <2>1, <3>1, <3>2, <3>4
  <2> QED
    BY <2>2, <2>3
<1> QED
  BY <1>1, <1>2, <1>3, <1>4, <1>5 DEF Messages

(* One message of a batch. *)
HandleStep(r, m, io) ==
  IF r.failed \/ NoFile(r.s, m) THEN [r EXCEPT !.failed = TRUE]
  ELSE [r EXCEPT !.s = OnMessage(r.s, m, io)]

(* What a batch goes through. *)
Handlings == [s : {s \in Sockets : s.state = b.state}, failed : BOOLEAN]

LEMMA HandleStepTyped ==
  ASSUME FiskClientAssumption, NEW r \in Handlings, NEW m \in Messages,
         m.type # "eof", NEW io
  PROVE  HandleStep(r, m, io) \in Handlings
<1>1. OnMessage(r.s, m, io) \in {s \in Sockets : s.state = b.state}
  BY OnMessageTyped DEF Handlings
<1>2. [r EXCEPT !.s = OnMessage(r.s, m, io)] \in Handlings
  BY <1>1 DEF Handlings
<1>3. [r EXCEPT !.failed = TRUE] \in Handlings
  BY DEF Handlings
<1> QED
  BY <1>2, <1>3 DEF HandleStep

LEMMA HandleChain ==
  ASSUME FiskClientAssumption, b \in Sockets, NEW batch \in Seq(Messages),
         \A i \in 1..Len(batch) : batch[i].type # "eof", NEW io
  PROVE  \E h \in [0..Len(batch) -> Handlings] :
           /\ h[0] = [s |-> b, failed |-> FALSE]
           /\ \A i \in 1..Len(batch) : h[i] = HandleStep(h[i-1], batch[i], io)
           /\ Handle(batch, io) = h[Len(batch)]
<1> DEFINE N == Len(batch)
           base == [s |-> b, failed |-> FALSE]
           U == Handlings
           g == [p \in U \X (1..N) |-> HandleStep(p[1], batch[p[2]], io)]
           Is(F) == F = [t \in SUBSET (DOMAIN batch) |->
                           IF t = {} THEN base
                           ELSE LET r == F[t \ {Max(t)}]
                                    m == batch[Max(t)]
                                IN IF r.failed \/ NoFile(r.s, m)
                                   THEN [r EXCEPT !.failed = TRUE]
                                   ELSE [r EXCEPT !.s = OnMessage(r.s, m, io)]]
           F == CHOOSE F : Is(F)
           end == F[DOMAIN batch]
<1>1. N \in Nat /\ DOMAIN batch = 1..N /\ \A i \in 1..N : batch[i] \in Messages
  BY LenProperties, ElementOfSeq
<1>2. base \in U
  BY DEF Handlings
<1>3. g \in [U \X (1..N) -> U]
  BY <1>1, HandleStepTyped
<1>4. Handle(batch, io) = end
  BY DEF Handle, FoldLeft, MapThenFoldSet
<1>5. PICK E \in [SUBSET (1..N) -> U] : Along(E, N, base, g)
  <2> HIDE DEF N, base, U, g
  <2> QED
    BY <1>1, <1>2, <1>3, AlongExists
<1>6. ASSUME NEW t \in SUBSET (1..N)
      PROVE  E[t] = IF t = {} THEN base
                    ELSE HandleStep(E[t \ {Max(t)}], batch[Max(t)], io)
  <2>1. CASE t = {}
    BY <1>5, <2>1 DEF Along
  <2>2. CASE t # {}
    <3>1. Max(t) \in 1..N /\ t \ {Max(t)} \in SUBSET (1..N)
      BY <1>1, <2>2, MaxIs
    <3> HIDE DEF N, U
    <3>2. E[t \ {Max(t)}] \in U
      BY <1>5, <3>1
    <3>3. g[<<E[t \ {Max(t)}], Max(t)>>]
            = HandleStep(E[t \ {Max(t)}], batch[Max(t)], io)
      BY <3>1, <3>2
    <3> QED
      BY <1>5, <2>2, <3>3 DEF Along
  <2> QED
    BY <2>1, <2>2
<1>7. Is(E)
  <2> HIDE DEF N, base
  <2> QED
    BY <1>1, <1>5, <1>6 DEF HandleStep
<1>8. Is(F)
  <2> HIDE DEF Is
  <2> QED
    BY <1>7
<1> HIDE DEF F
<1>9. F[1..0] = base
      /\ \A i \in 1..N : F[1..i] = HandleStep(F[1..i-1], batch[i], io)
  <2> HIDE DEF N, base
  <2>1. 1..0 = {} /\ {} \in SUBSET (1..N)
    OBVIOUS
  <2>2. ASSUME NEW i \in 1..N
        PROVE  F[1..i] = HandleStep(F[1..i-1], batch[i], io)
    <3>1. /\ 1..i \in SUBSET (1..N) /\ 1..i # {}
          /\ Max(1..i) = i /\ (1..i) \ {i} = 1..i-1
      BY <1>1, MaxOfPrefix
    <3> QED
      BY <1>1, <1>8, <3>1 DEF HandleStep
  <2> QED
    BY <1>1, <1>8, <2>1, <2>2
<1> DEFINE h == [i \in 0..N |-> F[1..i]]
<1> HIDE DEF N, base, U
<1>10. h[0] = base
       /\ \A i \in 1..N : h[i] = HandleStep(h[i-1], batch[i], io)
  BY <1>1, <1>9
<1>11. \A i \in 0..N : i \in {k \in 0..N : h[k] \in U}
  <2> DEFINE T == {k \in 0..N : h[k] \in U}
  <2>1. 0 \in T
    BY <1>1, <1>2, <1>10
  <2>2. ASSUME NEW i \in 0..N-1, i \in T PROVE i+1 \in T
    <3>1. h[i] \in U /\ i+1 \in 1..N /\ (i+1)-1 = i
      BY <1>1, <2>2
    <3>2. h[i+1] = HandleStep(h[i], batch[i+1], io)
      BY <1>10, <3>1
    <3>3. batch[i+1] \in Messages /\ batch[i+1].type # "eof"
      BY <1>1, <3>1 DEF N
    <3> HIDE DEF h
    <3>4. h[i+1] \in U
      BY <3>1, <3>2, <3>3, HandleStepTyped DEF U
    <3> QED
      BY <3>1, <3>4
  <2> HIDE DEF T
  <2>3. \A i \in 0..N : i \in T
    BY <1>1, <2>1, <2>2, Steps
  <2> QED
    BY <2>3 DEF T
<1>12. h \in [0..N -> U]
  BY <1>11
<1>13. end = h[N]
  BY <1>1
<1> QED
  BY <1>4, <1>10, <1>12, <1>13 DEF N, base, U

(* A batch leaves a websocket, which waits as before if nothing resumes it. *)
LEMMA HandleTyped ==
  ASSUME FiskClientAssumption, b \in Sockets, NEW batch \in Seq(Messages),
         \A i \in 1..Len(batch) : batch[i].type # "eof", NEW io
  PROVE  /\ Handle(batch, io) \in Handlings
         /\ (\A i \in 1..Len(batch) : batch[i].type # "resume")
              => Handle(batch, io).s.wait = b.wait
<1> DEFINE N == Len(batch)
<1>1. PICK h \in [0..N -> Handlings] :
        /\ h[0] = [s |-> b, failed |-> FALSE]
        /\ \A i \in 1..N : h[i] = HandleStep(h[i-1], batch[i], io)
        /\ Handle(batch, io) = h[N]
  BY HandleChain
<1>2. N \in Nat /\ \A i \in 1..N : batch[i] \in Messages
  BY LenProperties, ElementOfSeq
<1>3. ASSUME \A i \in 1..N : batch[i].type # "resume"
      PROVE  h[N].s.wait = b.wait
  <2> DEFINE T == {i \in 0..N : h[i].s.wait = b.wait}
  <2>1. 0 \in T
    BY <1>1, <1>2
  <2>2. ASSUME NEW i \in 0..N-1, i \in T PROVE i+1 \in T
    <3>1. h[i] \in Handlings /\ i+1 \in 1..N /\ (i+1)-1 = i
      BY <1>1, <1>2
    <3>2. h[i+1] = HandleStep(h[i], batch[i+1], io) /\ h[i].s.wait = b.wait
      <4>1. \A j \in 1..N : h[j] = HandleStep(h[j-1], batch[j], io)
        BY <1>1
      <4>2. h[i+1] = HandleStep(h[(i+1)-1], batch[i+1], io)
        BY <3>1, <4>1
      <4>3. h[i].s.wait = b.wait
        BY <2>2
      <4> QED
        BY <3>1, <4>2, <4>3
    <3>3. /\ batch[i+1] \in Messages /\ batch[i+1].type # "eof"
          /\ batch[i+1].type # "resume"
      BY <1>2, <1>3, <3>1
    <3>4. OnMessage(h[i].s, batch[i+1], io).wait = h[i].s.wait
      BY <3>1, <3>3, OnMessageTyped DEF Handlings
    <3>5. h[i+1].s.wait = b.wait
      BY <3>1, <3>2, <3>4 DEF HandleStep, Handlings
    <3> QED
      BY <3>1, <3>5
  <2> HIDE DEF T
  <2> HIDE DEF N
  <2>3. \A i \in 0..N : i \in T
    BY <1>2, <2>1, <2>2, Steps
  <2> QED
    BY <1>2, <2>3 DEF T
<1> QED
  BY <1>1, <1>2, <1>3

-----------------------------------------------------------------------------
(* What main() is in before it has sent the description of the job, and    *)
(* before it knows a builder.                                              *)
Unsent == pc \in {"daemon", "preprocess", "scheduler", "builder", "send"}
NoBuilder ==
  pc \in {"daemon", "scheduler", "environment"} \/ (cached /\ pc = "preprocess")

Base == IF cached THEN 3 ELSE 2

(* The stage the watchdog is in, by where main() is. *)
StageFits ==
  /\ wd = "running" =>
       /\ pc = "daemon" => stage = 1
       /\ pc = "preprocess" => stage = IF cached THEN 2 ELSE 5
       /\ pc = "scheduler" =>
            /\ stage \in {Base, Base + 1}
            /\ sched = "connecting" => stage = Base
            /\ sched = "connected" \/ answer = "builder" => stage = Base + 1
       /\ pc = "builder" => stage = Base + 2
       /\ pc \in {"send", "wait", "upload"} => stage = 6
       /\ pc = "response" => stage = 7
  /\ pc \in {"environment", "slot"} => wd # "running"
  /\ sched = "connecting" => pc \in {"scheduler", "slot", "exit"} /\ answer = "none"
  /\ pc = "daemon" \/ (cached /\ pc = "preprocess") =>
       sched = "none" /\ answer = "none"
  /\ failed # "stage"

In(s, x) == \E i \in 1..Len(s) : s[i] = x
Resumes(w) == \E i \in 1..Len(w) : w[i].type = "resume"

(* The description is sent once and the source once, and the source not as *)
(* long as the client was told to wait and the job is queued.              *)
SentInTurn ==
  /\ Unsent => out = <<>> /\ job \in {"none", "gone"} /\ ~fed /\ wire = <<>>
  /\ NoBuilder => b.state = "none"
  /\ b.state = "connecting" =>
       /\ pc \in {"builder", "slot", "exit"}
       /\ out = <<>> /\ job \in {"none", "gone"} /\ ~fed /\ wire = <<>>
  /\ pc \in {"wait", "upload"} => out \in {<<>>, <<"json">>}
  /\ In(out, "json") => job \in {"none", "gone"}
  /\ told /\ (job = "queued" \/ In(out, "json")) =>
       b.wait /\ ~fed /\ ~In(out, "source") /\ ~Resumes(wire)
  /\ pc = "upload" => ~b.wait
  /\ failed # "wait"

(* What the builder can have sent by now; the end of the stream is last. *)
WireFits ==
  /\ job = "none" => wire = <<>>
  /\ job \in {"queued", "started"} =>
       \A i \in 1..Len(wire) : wire[i].type \in {"resume", "heartbeat"}
  /\ \A i \in 1..Len(wire) :
       wire[i].type = "eof" => i = Len(wire) /\ job = "gone"

(* TypeOK, by who changes the variables. *)
MainTyped ==
  /\ pc \in Loops \cup {"send", "upload", "exit"}
  /\ wd \in {"running", "stopped", "timedOut"} /\ stage \in 1..8
  /\ failed \in {"none", "stage", "wait", "file"}
  /\ exit \in {"none", "local", "remote", "cachehit", "mismatch", "aborted"}
PeersTyped ==
  /\ cached \in BOOLEAN /\ given \in {"source", "preprocessed"}
  /\ daemon \in {"connecting", "connected", "lost"}
  /\ thread \in {"none", "running", "output", "done", "failed"}
  /\ key \in {"none", "arguments", "part", "whole"}
  /\ sched \in {"none", "connecting", "connected", "gone"}
  /\ answer \in {"none", "builder", "nobody", "needsEnvironment", "error"}
BuilderTyped ==
  /\ told \in BOOLEAN
  /\ out \in {<<>>, <<"json">>, <<"source">>, <<"json", "source">>}
  /\ wire \in Seq(Messages)
  /\ job \in {"none", "queued", "started", "answered", "gone"} /\ fed \in BOOLEAN
  /\ beats \in 0..MaxBeats /\ sizes \in Indexes \cup {<<>>}
Types == MainTyped /\ PeersTyped /\ BuilderTyped /\ b \in Sockets

OrderInv == Types /\ StageFits /\ SentInTurn /\ WireFits

(* The watchdog knows eight stages; those of the loops, in both modes. *)
LEMMA StagesKnown ==
  /\ Len(Stages) = 8
  /\ Stages[2] = "ConnectedToDaemon" /\ Stages[7] = "UploadedJob"
  /\ Stages[8] = "Finished"
  /\ cached => /\ Stages[3] = "PreprocessFinished"
               /\ Stages[4] = "ConnectedToScheduler"
               /\ Stages[5] = "AcquiredBuilder"
               /\ Stages[6] = "ConnectedToBuilder"
  /\ ~cached => /\ Stages[3] = "ConnectedToScheduler"
                /\ Stages[4] = "AcquiredBuilder"
                /\ Stages[5] = "ConnectedToBuilder"
                /\ Stages[6] = "PreprocessFinished"
BY DEF Stages

LEMMA TypesGiven == Types => TypeOK
BY StagesKnown DEF Types, TypeOK, MainTyped, PeersTyped, BuilderTyped, Sockets

(* A websocket in another state, or that waits. *)
LEMMA SocketsWith ==
  ASSUME NEW s \in Sockets
  PROVE  /\ \A x \in {"none", "connecting", "connected", "gone"} :
              /\ [s EXCEPT !.state = x] \in Sockets
              /\ [s EXCEPT !.state = x].state = x
              /\ [s EXCEPT !.state = x].wait = s.wait
         /\ \A x \in BOOLEAN :
              /\ [s EXCEPT !.wait = x] \in Sockets
              /\ [s EXCEPT !.wait = x].state = s.state
              /\ [s EXCEPT !.wait = x].wait = x
BY DEF Sockets

LEMMA OrderInit == ASSUME FiskClientAssumption, Init PROVE OrderInv
<1> USE DEF Init
<1>1. Types
  <2>1. b \in Sockets
    BY DEF Sockets
  <2>2. MainTyped /\ PeersTyped
    BY DEF MainTyped, PeersTyped, Loops
  <2>3. BuilderTyped
    <3>1. <<>> \in Seq(Messages)
      OBVIOUS
    <3>2. 0 \in 0..MaxBeats
      BY DEF FiskClientAssumption
    <3> QED
      BY <3>1, <3>2 DEF BuilderTyped
  <2> QED
    BY <2>1, <2>2, <2>3 DEF Types
<1>2. StageFits
  BY DEF StageFits
<1>3. SentInTurn
  BY DEF SentInTurn, Unsent, NoBuilder, In
<1>4. WireFits
  BY DEF WireFits
<1> QED
  BY <1>1, <1>2, <1>3, <1>4 DEF OrderInv

(* The send buffer, and what can be in it. *)
LEMMA OutHas ==
  /\ \A x : ~In(<<>>, x)
  /\ In(<<"json">>, "json") /\ ~In(<<"json">>, "source")
  /\ In(<<"source">>, "source") /\ ~In(<<"source">>, "json")
  /\ In(<<"json", "source">>, "json") /\ In(<<"json", "source">>, "source")
BY DEF In

LEMMA JsonThenSource == Append(<<"json">>, "source") = <<"json", "source">>
<1> DEFINE s == <<"json">>
           t == Append(s, "source")
<1>0. s \in Seq({"json", "source"})
  OBVIOUS
<1>1. Len(s) = 1 /\ s[1] = "json"
  OBVIOUS
<1> HIDE DEF s
<1>2. /\ t \in Seq({"json", "source"}) /\ Len(t) = 2
      /\ t[1] = "json" /\ t[2] = "source"
  <2> DEFINE S == {"json", "source"}
             e == "source"
  <2>1. s \in Seq(S) /\ e \in S
    BY <1>0
  <2> HIDE DEF S, e
  <2>2. /\ Append(s, e) \in Seq(S) /\ Len(Append(s, e)) = Len(s) + 1
        /\ \A i \in 1..Len(s) : Append(s, e)[i] = s[i]
        /\ Append(s, e)[Len(s) + 1] = e
    BY <2>1, AppendProperties
  <2>3. Len(s) + 1 = 2 /\ 1 \in 1..Len(s)
    BY <1>1
  <2> QED
    BY <1>1, <2>2, <2>3 DEF S, e
<1>3. t = <<"json", "source">>
  <2> HIDE DEF t
  <2> QED
    BY <1>2
<1> QED
  BY <1>3 DEF s

(* All that was read, and what is left. *)
LEMMA BatchRead ==
  ASSUME wire \in Seq(Messages), NEW n \in 1..Len(wire)
  PROVE  /\ SubSeq(wire, 1, n) \in Seq(Messages)
         /\ Len(SubSeq(wire, 1, n)) = n /\ n \in Nat /\ Len(wire) \in Nat
         /\ \A i \in 1..n : SubSeq(wire, 1, n)[i] = wire[i]
         /\ Last(SubSeq(wire, 1, n)) = wire[n]
         /\ SubSeq(wire, n + 1, Len(wire)) \in Seq(Messages)
         /\ Len(SubSeq(wire, n + 1, Len(wire))) = Len(wire) - n
         /\ \A i \in 1..Len(wire) - n :
              SubSeq(wire, n + 1, Len(wire))[i] = wire[n + i]
<1>1. Len(wire) \in Nat /\ \A i \in 1..Len(wire) : wire[i] \in Messages
  BY LenProperties, ElementOfSeq
<1>2. /\ SubSeq(wire, 1, n) \in Seq(Messages)
      /\ Len(SubSeq(wire, 1, n)) = n
      /\ \A i \in 1..n : SubSeq(wire, 1, n)[i] = wire[i]
  BY <1>1, SubSeqProperties
<1>3. Last(SubSeq(wire, 1, n)) = wire[n]
  BY <1>1, <1>2 DEF Last
<1>4. /\ SubSeq(wire, n + 1, Len(wire)) \in Seq(Messages)
      /\ Len(SubSeq(wire, n + 1, Len(wire))) = Len(wire) - n
      /\ \A i \in 1..Len(wire) - n :
           SubSeq(wire, n + 1, Len(wire))[i] = wire[n + i]
  <2>1. \A i \in n+1..Len(wire) : wire[i] \in Messages
    BY <1>1
  <2>2. /\ SubSeq(wire, n+1, Len(wire)) \in Seq(Messages)
        /\ Len(SubSeq(wire, n+1, Len(wire)))
             = IF n+1 <= Len(wire) THEN Len(wire)-(n+1)+1 ELSE 0
        /\ \A i \in 1..Len(wire)-(n+1)+1 :
             SubSeq(wire, n+1, Len(wire))[i] = wire[n+1+i-1]
    BY <1>1, <2>1, SubSeqProperties
  <2> QED
    BY <1>1, <2>2
<1> QED
  BY <1>1, <1>2, <1>3, <1>4

(* The first n files of a response, sent. *)
Ok(index) == [Message("ok") EXCEPT !.index = index]
Datum(index, i) == [Message("data") EXCEPT !.file = i, !.bytes = index[i]]

LEMMA AnswerSent ==
  ASSUME FiskClientAssumption, wire \in Seq(Messages), NEW index \in Indexes,
         NEW n \in 0..Len(index)
  PROVE  LET sent == wire \o <<Ok(index)>> \o SubSeq(Contents(index), 1, n)
         IN /\ sent \in Seq(Messages) /\ Len(sent) = Len(wire) + 1 + n
            /\ Len(wire) \in Nat /\ n \in Nat
            /\ \A i \in 1..Len(wire) : sent[i] = wire[i]
            /\ sent[Len(wire) + 1] = Ok(index)
            /\ \A i \in 1..n : sent[Len(wire) + 1 + i] = Datum(index, i)
            /\ SubSeq(Contents(index), 1, Len(index)) = Contents(index)
<1> DEFINE some == SubSeq(Contents(index), 1, n)
           begun == wire \o <<Ok(index)>>
           sent == begun \o some
<1>1. /\ Len(wire) \in Nat /\ Len(index) \in Nat /\ n \in Nat
      /\ \A i \in 1..Len(index) : index[i] \in Nat
  BY LenProperties, ElementOfSeq DEF FiskClientAssumption
<1>2. Ok(index) \in Messages
  <2>1. Ok(index) = [type |-> "ok", index |-> index, file |-> 0, bytes |-> 0]
    BY DEF Ok, Message
  <2> QED
    BY <2>1 DEF Messages
<1>3. ASSUME NEW i \in 1..Len(index) PROVE Datum(index, i) \in Messages
  <2>1. Datum(index, i)
          = [type |-> "data", index |-> <<>>, file |-> i, bytes |-> index[i]]
    <3> DEFINE m == [Message("data") EXCEPT !.file = i]
               size == index[i]
    <3>1. m = [type |-> "data", index |-> <<>>, file |-> i, bytes |-> 0]
      BY DEF Message
    <3>2. Datum(index, i) = [m EXCEPT !.bytes = size]
      BY DEF Datum
    <3> HIDE DEF m, size
    <3>3. [m EXCEPT !.bytes = size]
            = [type |-> "data", index |-> <<>>, file |-> i, bytes |-> size]
      BY <3>1
    <3> QED
      BY <3>2, <3>3 DEF size
  <2>2. i \in Nat /\ index[i] \in Nat
    BY <1>1
  <2> QED
    BY <2>1, <2>2 DEF Messages
<1>4. /\ Contents(index) \in Seq(Messages) /\ Len(Contents(index)) = Len(index)
      /\ \A i \in 1..Len(index) : Contents(index)[i] = Datum(index, i)
  <2>1. Contents(index) = [i \in 1..Len(index) |-> Datum(index, i)]
    BY DEF Contents, Datum
  <2> QED
    BY <1>1, <1>3, <2>1, IsASeq, LenProperties
<1>5. /\ some \in Seq(Messages) /\ Len(some) = n
      /\ \A i \in 1..n : some[i] = Datum(index, i)
      /\ SubSeq(Contents(index), 1, Len(index)) = Contents(index)
  <2>1. \A i \in 1..n : Contents(index)[i] \in Messages
    BY <1>1, <1>3, <1>4
  <2>2. /\ some \in Seq(Messages) /\ Len(some) = IF 1 <= n THEN n - 1 + 1 ELSE 0
        /\ \A i \in 1..n - 1 + 1 : some[i] = Contents(index)[1 + i - 1]
    BY <1>1, <2>1, SubSeqProperties
  <2>3. SubSeq(Contents(index), 1, Len(index)) = Contents(index)
    BY <1>4, SubSeqFull
  <2> QED
    BY <1>1, <1>4, <2>2, <2>3
<1> HIDE DEF some
<1>6. /\ begun \in Seq(Messages) /\ Len(begun) = Len(wire) + 1
      /\ \A i \in 1..Len(wire) : begun[i] = wire[i]
      /\ begun[Len(wire) + 1] = Ok(index)
  BY <1>1, <1>2
<1> HIDE DEF begun
<1>7. /\ sent \in Seq(Messages) /\ Len(sent) = Len(begun) + Len(some)
      /\ \A i \in 1..Len(begun) + Len(some) :
           sent[i] = IF i <= Len(begun) THEN begun[i] ELSE some[i - Len(begun)]
  BY <1>5, <1>6, ConcatProperties
<1> HIDE DEF sent
<1>8. ASSUME NEW i \in 1..n PROVE sent[Len(wire) + 1 + i] = Datum(index, i)
  <2>1. /\ Len(wire) + 1 + i \in 1..Len(begun) + Len(some)
        /\ ~(Len(wire) + 1 + i <= Len(begun))
        /\ Len(wire) + 1 + i - Len(begun) = i
    BY <1>1, <1>5, <1>6
  <2> QED
    BY <1>5, <1>7, <2>1
<1>9. /\ \A i \in 1..Len(wire) : sent[i] = wire[i]
      /\ sent[Len(wire) + 1] = Ok(index)
  BY <1>1, <1>5, <1>6, <1>7
<1> QED
  BY <1>1, <1>5, <1>6, <1>7, <1>8, <1>9 DEF sent, begun, some

LEMMA LeaveDaemonKeepsOrder ==
  ASSUME FiskClientAssumption, OrderInv, LeaveDaemon PROVE OrderInv'
<1> USE DEF OrderInv, LeaveDaemon, Between, InLoop, Loops, RunLocal, Compile,
            Stop, TransitionTo, config, builderVars
<1>1. Types'
  BY StagesKnown DEF Types, MainTyped, PeersTyped, BuilderTyped, StageFits, Base
<1>2. StageFits'
  BY StagesKnown DEF StageFits, Base, Types, MainTyped
<1>3. SentInTurn'
  BY DEF SentInTurn, Unsent, NoBuilder, In, Resumes, Types, BuilderTyped, Sockets
<1>4. WireFits'
  BY DEF WireFits
<1> QED
  BY <1>1, <1>2, <1>3, <1>4

LEMMA LeavePreprocessKeepsOrder ==
  ASSUME FiskClientAssumption, OrderInv, LeavePreprocess PROVE OrderInv'
<1> USE DEF OrderInv, LeavePreprocess, Preprocessed, Digest, Between, InLoop,
            Loops, RunLocal, Stop, TransitionTo, config, builderVars
<1>1. Types'
  BY StagesKnown DEF Types, MainTyped, PeersTyped, BuilderTyped, StageFits, Base
<1>2. StageFits'
  BY StagesKnown DEF StageFits, Base, Types, MainTyped
<1>3. SentInTurn'
  BY DEF SentInTurn, Unsent, NoBuilder, In, Resumes, Types, BuilderTyped, Sockets
<1>4. WireFits'
  BY DEF WireFits
<1> QED
  BY <1>1, <1>2, <1>3, <1>4

LEMMA LeaveSchedulerKeepsOrder ==
  ASSUME FiskClientAssumption, OrderInv, LeaveScheduler PROVE OrderInv'
<1>0. b' \in Sockets
  <2>1. b \in Sockets
    BY DEF OrderInv, Types
  <2>2. UNCHANGED b \/ b' = [b EXCEPT !.state = "connecting"]
    BY DEF LeaveScheduler
  <2>3. CASE UNCHANGED b
    BY <2>1, <2>3
  <2>4. CASE b' = [b EXCEPT !.state = "connecting"]
    BY <2>1, <2>4, SocketsWith
  <2> QED
    BY <2>2, <2>3, <2>4
<1> USE DEF OrderInv, LeaveScheduler, Between, InLoop, Loops, RunLocal, Stop,
            TransitionTo, config, builderVars
<1>1. Types'
  BY <1>0, StagesKnown DEF Types, MainTyped, PeersTyped, BuilderTyped,
     StageFits, Base
<1>2. StageFits'
  BY StagesKnown DEF StageFits, Base, Types, MainTyped
<1>3. SentInTurn'
  BY SocketsWith DEF SentInTurn, Unsent, NoBuilder, In, Resumes, Types, BuilderTyped
<1>4. WireFits'
  BY DEF WireFits
<1> QED
  BY <1>1, <1>2, <1>3, <1>4

LEMMA LeaveBuilderKeepsOrder ==
  ASSUME FiskClientAssumption, OrderInv, LeaveBuilder PROVE OrderInv'
<1> USE DEF OrderInv, LeaveBuilder, Between, InLoop, Loops, RunLocal, Stop,
            TransitionTo, config, builderVars
<1>1. Types'
  BY StagesKnown DEF Types, MainTyped, PeersTyped, BuilderTyped, StageFits, Base
<1>2. StageFits'
  BY StagesKnown DEF StageFits, Base, Types, MainTyped
<1>3. SentInTurn'
  BY DEF SentInTurn, Unsent, NoBuilder, In, Resumes, Types, BuilderTyped, Sockets
<1>4. WireFits'
  BY DEF WireFits
<1> QED
  BY <1>1, <1>2, <1>3, <1>4

LEMMA SendKeepsOrder ==
  ASSUME FiskClientAssumption, OrderInv, Send PROVE OrderInv'
<1>a. b' \in Sockets /\ b'.state = b.state /\ b'.wait = told
  <2>1. b \in Sockets /\ told \in BOOLEAN
    BY DEF OrderInv, Types, BuilderTyped
  <2>2. b' = [b EXCEPT !.wait = told]
    BY DEF Send
  <2>3. b' \in Sockets
    BY <2>1, <2>2 DEF Sockets
  <2>4. b'.state = b.state /\ b'.wait = told
    BY <2>1, <2>2 DEF Sockets
  <2> QED
    BY <2>3, <2>4
<1> USE DEF OrderInv, Send, Between, InLoop, Loops, RunLocal, Stop,
            TransitionTo, config, builderVars
<1>0. out' = <<"json">> /\ wire = <<>> /\ ~fed /\ job \in {"none", "gone"}
  BY DEF SentInTurn, Unsent
<1>1. Types'
  <2>1. BuilderTyped'
    BY <1>0 DEF Types, BuilderTyped
  <2>2. MainTyped' /\ PeersTyped'
    BY DEF Types, MainTyped, PeersTyped
  <2> QED
    BY <1>a, <2>1, <2>2 DEF Types
<1>2. StageFits'
  BY StagesKnown DEF StageFits, Base, Types, MainTyped
<1>3. SentInTurn'
  <2>1. ~In(out', "source") /\ ~Resumes(wire')
    <3>1. wire' = <<>> /\ Len(<<>>) = 0
      BY <1>0
    <3>2. ~Resumes(wire')
      BY <3>1 DEF Resumes
    <3> QED
      BY <1>0, <3>2, OutHas
  <2> QED
    BY <1>a, <1>0, <2>1, OutHas DEF SentInTurn, Unsent, NoBuilder
<1>4. WireFits'
  BY DEF WireFits
<1> QED
  BY <1>1, <1>2, <1>3, <1>4

LEMMA LeaveWaitKeepsOrder ==
  ASSUME FiskClientAssumption, OrderInv, LeaveWait PROVE OrderInv'
<1> USE DEF OrderInv, LeaveWait, Between, InLoop, Loops, RunLocal, Stop,
            TransitionTo, config, builderVars
<1>1. Types'
  BY StagesKnown DEF Types, MainTyped, PeersTyped, BuilderTyped, StageFits, Base
<1>2. StageFits'
  BY StagesKnown DEF StageFits, Base, Types, MainTyped
<1>3. SentInTurn'
  BY DEF SentInTurn, Unsent, NoBuilder, In, Resumes, Types, BuilderTyped, Sockets
<1>4. WireFits'
  BY DEF WireFits
<1> QED
  BY <1>1, <1>2, <1>3, <1>4

LEMMA UploadKeepsOrder ==
  ASSUME FiskClientAssumption, OrderInv, Upload PROVE OrderInv'
<1> USE DEF OrderInv, Upload, Between, InLoop, Loops, RunLocal, Stop,
            TransitionTo, config, builderVars
<1>0. /\ out \in {<<>>, <<"json">>}
      /\ out' \in {<<>>, <<"json">>, <<"source">>, <<"json", "source">>}
      /\ In(out', "json") <=> In(out, "json")
  <2>1. out \in {<<>>, <<"json">>}
    BY DEF SentInTurn
  <2>2. /\ Append(<<>>, "source") = <<"source">>
        /\ Append(<<"json">>, "source") = <<"json", "source">>
    BY JsonThenSource
  <2> QED
    BY <2>1, <2>2, OutHas
<1>1. Types'
  BY <1>0, StagesKnown DEF Types, MainTyped, PeersTyped, BuilderTyped, StageFits
<1>2. StageFits'
  BY StagesKnown, <1>0 DEF StageFits, Base, Types, MainTyped
<1>3. SentInTurn'
  BY <1>0 DEF SentInTurn, Unsent, NoBuilder, Types, BuilderTyped
<1>4. WireFits'
  BY DEF WireFits
<1> QED
  BY <1>1, <1>2, <1>3, <1>4

LEMMA LeaveResponseKeepsOrder ==
  ASSUME FiskClientAssumption, OrderInv, LeaveResponse PROVE OrderInv'
<1> USE DEF OrderInv, LeaveResponse, Between, InLoop, Loops, RunLocal, Stop,
            TransitionTo, config, builderVars
<1>1. Types'
  BY StagesKnown DEF Types, MainTyped, PeersTyped, BuilderTyped, StageFits, Base
<1>2. StageFits'
  BY StagesKnown DEF StageFits, Base, Types, MainTyped
<1>3. SentInTurn'
  BY DEF SentInTurn, Unsent, NoBuilder, In, Resumes, Types, BuilderTyped, Sockets
<1>4. WireFits'
  BY DEF WireFits
<1> QED
  BY <1>1, <1>2, <1>3, <1>4

(* The loops without a watchdog end. *)
LEMMA LocalKeepsOrder ==
  ASSUME FiskClientAssumption, OrderInv, Uploaded \/ GoLocal PROVE OrderInv'
<1> USE DEF OrderInv, Uploaded, GoLocal, RunLocal, Compile, Stop, Loops, config,
            builderVars
<1>1. Types'
  BY DEF Types, MainTyped, PeersTyped, BuilderTyped
<1>2. StageFits'
  BY DEF StageFits, Base
<1>3. SentInTurn'
  BY DEF SentInTurn, Unsent, NoBuilder, In, Resumes
<1>4. WireFits'
  BY DEF WireFits
<1> QED
  BY <1>1, <1>2, <1>3, <1>4

LEMMA PeersKeepOrder ==
  ASSUME FiskClientAssumption, OrderInv,
         \/ Timeout \/ DaemonConnects \/ DaemonLost \/ ThreadRuns \/ ThreadDone
         \/ SchedulerGone
  PROVE  OrderInv'
<1> USE DEF OrderInv
<1>1. /\ UNCHANGED <<pc, stage, failed, exit, key, answer, b, told, out>>
      /\ UNCHANGED config /\ UNCHANGED builderVars
      /\ wd' \in {wd, "timedOut"} /\ sched' \in {sched, "gone"}
      /\ daemon' \in {daemon, "connected", "lost"}
      /\ thread' \in {thread, "output", "done", "failed"}
  BY DEF Timeout, DaemonConnects, DaemonLost, ThreadRuns, ThreadDone,
         SchedulerGone, mainVars
<1>2. Types'
  <2>1. MainTyped'
    BY <1>1 DEF Types, MainTyped
  <2>2. PeersTyped'
    BY <1>1 DEF Types, PeersTyped, config
  <2>3. BuilderTyped' /\ b' \in Sockets
    BY <1>1 DEF Types, BuilderTyped, builderVars
  <2> QED
    BY <2>1, <2>2, <2>3 DEF Types
<1>3. StageFits'
  <2>1. /\ wd' = "running" => wd = "running"
        /\ sched' \in {"none", "connecting", "connected"} => sched' = sched
    BY <1>1
  <2>2. sched = "none" => sched' = "none"
    BY <1>1 DEF Timeout, DaemonConnects, DaemonLost, ThreadRuns, ThreadDone,
                SchedulerGone
  <2>3. UNCHANGED <<pc, stage, failed, answer, cached>>
    BY <1>1 DEF config
  <2> QED
    BY <2>1, <2>2, <2>3 DEF StageFits, Base
<1>4. SentInTurn'
  BY <1>1
  DEF SentInTurn, Unsent, NoBuilder, In, Resumes, config, builderVars
<1>5. WireFits'
  BY <1>1 DEF WireFits, builderVars
<1> QED
  BY <1>2, <1>3, <1>4, <1>5

LEMMA SchedulerConnectsKeepsOrder ==
  ASSUME FiskClientAssumption, OrderInv, SchedulerConnects PROVE OrderInv'
<1> USE DEF OrderInv, SchedulerConnects, InLoop, Loops, mainVars, config,
            builderVars, TransitionTo
<1>1. Types'
  BY StagesKnown DEF Types, MainTyped, PeersTyped, BuilderTyped, StageFits, Base
<1>2. StageFits'
  BY StagesKnown DEF StageFits, Base, Types, MainTyped
<1>3. SentInTurn'
  BY DEF SentInTurn, Unsent, NoBuilder, In, Resumes, Types, BuilderTyped, Sockets
<1>4. WireFits'
  BY DEF WireFits
<1> QED
  BY <1>1, <1>2, <1>3, <1>4

LEMMA SchedulerAnswersKeepsOrder ==
  ASSUME FiskClientAssumption, OrderInv, SchedulerAnswers PROVE OrderInv'
<1> USE DEF OrderInv, SchedulerAnswers, InLoop, Loops, mainVars, config,
            builderVars, Stop
<1>1. Types'
  BY StagesKnown DEF Types, MainTyped, PeersTyped, BuilderTyped, StageFits, Base
<1>2. StageFits'
  BY StagesKnown DEF StageFits, Base, Types, MainTyped
<1>3. SentInTurn'
  BY DEF SentInTurn, Unsent, NoBuilder, In, Resumes, Types, BuilderTyped, Sockets
<1>4. WireFits'
  BY DEF WireFits
<1> QED
  BY <1>1, <1>2, <1>3, <1>4

LEMMA BuilderConnectsKeepsOrder ==
  ASSUME FiskClientAssumption, OrderInv, BuilderConnects PROVE OrderInv'
<1>0. b' \in Sockets
  <2>1. b \in Sockets
    BY DEF OrderInv, Types
  <2>2. b' = [b EXCEPT !.state = "connected"]
    BY DEF BuilderConnects
  <2> QED
    BY <2>1, <2>2, SocketsWith
<1> USE DEF OrderInv, BuilderConnects, InLoop, Loops, mainVars, config,
            builderVars
<1>1. Types'
  BY <1>0, StagesKnown DEF Types, MainTyped, PeersTyped, BuilderTyped,
     StageFits, Base
<1>2. StageFits'
  BY StagesKnown DEF StageFits, Base, Types, MainTyped
<1>3. SentInTurn'
  BY SocketsWith DEF SentInTurn, Unsent, NoBuilder, In, Resumes, Types, BuilderTyped
<1>4. WireFits'
  BY DEF WireFits
<1> QED
  BY <1>1, <1>2, <1>3, <1>4

LEMMA BuilderGoneKeepsOrder ==
  ASSUME FiskClientAssumption, OrderInv, BuilderGone PROVE OrderInv'
<1>0. b' \in Sockets
  <2>1. b \in Sockets
    BY DEF OrderInv, Types
  <2>2. b' = [b EXCEPT !.state = "gone"]
    BY DEF BuilderGone
  <2> QED
    BY <2>1, <2>2, SocketsWith
<1> USE DEF OrderInv, BuilderGone, InLoop, Loops, mainVars, config, builderVars
<1>1. Types'
  BY <1>0, StagesKnown DEF Types, MainTyped, PeersTyped, BuilderTyped,
     StageFits, Base
<1>2. StageFits'
  BY StagesKnown DEF StageFits, Base, Types, MainTyped
<1>3. SentInTurn'
  BY SocketsWith DEF SentInTurn, Unsent, NoBuilder, In, Resumes, Types, BuilderTyped
<1>4. WireFits'
  BY DEF WireFits
<1> QED
  BY <1>1, <1>2, <1>3, <1>4

LEMMA FlushKeepsOrder ==
  ASSUME FiskClientAssumption, OrderInv, Flush PROVE OrderInv'
<1> USE DEF OrderInv
<1>0. /\ out' \in {<<>>, <<"json">>, <<"source">>, <<"json", "source">>}
      /\ ~In(out', "json")
      /\ In(out', "source") => In(out, "source")
      /\ Head(out) = "json" => In(out, "json")
      /\ Head(out) = "source" => In(out, "source") /\ ~In(out, "json")
      /\ In(out, "json") => out \notin {<<>>, <<"source">>}
  <2>1. out \in {<<"json">>, <<"source">>, <<"json", "source">>}
    BY DEF Flush, Types, BuilderTyped
  <2>2. /\ Head(<<"json">>) = "json" /\ Tail(<<"json">>) = <<>>
        /\ Head(<<"source">>) = "source" /\ Tail(<<"source">>) = <<>>
        /\ Head(<<"json", "source">>) = "json"
        /\ Tail(<<"json", "source">>) = <<"source">>
    OBVIOUS
  <2> QED
    BY <2>1, <2>2, OutHas DEF Flush
<1>1. /\ \/ /\ In(out, "json") /\ fed' = fed
            /\ job' = IF job = "gone" THEN job ELSE "queued"
         \/ In(out, "source") /\ ~In(out, "json") /\ fed' = TRUE /\ job' = job
      /\ pc \in Loops /\ b.state = "connected"
      /\ UNCHANGED <<mainVars, config, daemon, thread, key, sched, answer, b, told>>
      /\ UNCHANGED <<wire, beats, sizes>>
  BY <1>0 DEF Flush, InLoop
<1>2. Types'
  <2>1. job' \in {"none", "queued", "started", "answered", "gone"} /\ fed' \in BOOLEAN
    BY <1>1 DEF Types, BuilderTyped
  <2>2. MainTyped' /\ PeersTyped' /\ b' \in Sockets
    BY <1>1 DEF Types, MainTyped, PeersTyped, mainVars, config
  <2>3. BuilderTyped'
    BY <1>0, <1>1, <2>1 DEF Types, BuilderTyped
  <2> QED
    BY <2>2, <2>3 DEF Types
<1>3. StageFits'
  BY <1>1 DEF StageFits, Base, mainVars, config
<1>4. SentInTurn'
  <2>1. ~Unsent /\ Unsent' = Unsent /\ NoBuilder' = NoBuilder
    BY <1>1, OutHas DEF SentInTurn, Unsent, NoBuilder, mainVars, config
  <2>2. out \in {<<>>, <<"json">>} => out' = <<>>
    BY DEF Flush
  <2> QED
    BY <1>0, <1>1, <2>1, <2>2 DEF SentInTurn, Loops, mainVars, config
<1>5. WireFits'
  BY <1>1 DEF WireFits, SentInTurn
<1> QED
  BY <1>2, <1>3, <1>4, <1>5

LEMMA StartKeepsOrder ==
  ASSUME FiskClientAssumption, OrderInv, Start PROVE OrderInv'
<1> USE DEF OrderInv, Start, Client, mainVars, config
<1>0. Message("resume") \in Messages /\ Message("resume").type = "resume"
  BY DEF Message, Messages
<1>a. /\ Append(wire, Message("resume")) \in Seq(Messages)
      /\ Len(Append(wire, Message("resume"))) = Len(wire) + 1 /\ Len(wire) \in Nat
      /\ \A i \in 1..Len(wire) : Append(wire, Message("resume"))[i] = wire[i]
      /\ Append(wire, Message("resume"))[Len(wire) + 1] = Message("resume")
  BY <1>0, AppendProperties, LenProperties DEF Types, BuilderTyped
<1>1. Types'
  BY <1>0, <1>a DEF Types, MainTyped, PeersTyped, BuilderTyped
<1>2. StageFits'
  BY StagesKnown DEF StageFits, Base, Types, MainTyped
<1>3. SentInTurn'
  BY <1>0, <1>a DEF SentInTurn, Unsent, NoBuilder, Resumes, Types, BuilderTyped
<1>4. WireFits'
  BY <1>0, <1>a DEF WireFits
<1> QED
  BY <1>1, <1>2, <1>3, <1>4

LEMMA HeartbeatKeepsOrder ==
  ASSUME FiskClientAssumption, OrderInv, Heartbeat PROVE OrderInv'
<1> USE DEF OrderInv, Heartbeat, Client, mainVars, config
<1>0. Message("heartbeat") \in Messages /\ Message("heartbeat").type = "heartbeat"
  BY DEF Message, Messages
<1>a. /\ Append(wire, Message("heartbeat")) \in Seq(Messages)
      /\ Len(Append(wire, Message("heartbeat"))) = Len(wire) + 1 /\ Len(wire) \in Nat
      /\ \A i \in 1..Len(wire) : Append(wire, Message("heartbeat"))[i] = wire[i]
      /\ Append(wire, Message("heartbeat"))[Len(wire) + 1] = Message("heartbeat")
  BY <1>0, AppendProperties, LenProperties DEF Types, BuilderTyped
<1>1. Types'
  BY <1>0, <1>a DEF Types, MainTyped, PeersTyped, BuilderTyped
<1>2. StageFits'
  BY StagesKnown DEF StageFits, Base, Types, MainTyped
<1>3. SentInTurn'
  BY <1>0, <1>a DEF SentInTurn, Unsent, NoBuilder, Resumes, Types, BuilderTyped
<1>4. WireFits'
  BY <1>0, <1>a DEF WireFits
<1> QED
  BY <1>1, <1>2, <1>3, <1>4

LEMMA HangUpKeepsOrder ==
  ASSUME FiskClientAssumption, OrderInv, HangUp PROVE OrderInv'
<1> USE DEF OrderInv, HangUp, Client, mainVars, config
<1>0. Message("eof") \in Messages /\ Message("eof").type = "eof"
  BY DEF Message, Messages
<1>a. /\ Append(wire, Message("eof")) \in Seq(Messages)
      /\ Len(Append(wire, Message("eof"))) = Len(wire) + 1 /\ Len(wire) \in Nat
      /\ \A i \in 1..Len(wire) : Append(wire, Message("eof"))[i] = wire[i]
      /\ Append(wire, Message("eof"))[Len(wire) + 1] = Message("eof")
  BY <1>0, AppendProperties, LenProperties DEF Types, BuilderTyped
<1>1. Types'
  BY <1>0, <1>a DEF Types, MainTyped, PeersTyped, BuilderTyped
<1>2. StageFits'
  BY StagesKnown DEF StageFits, Base, Types, MainTyped
<1>3. SentInTurn'
  BY <1>0, <1>a DEF SentInTurn, Unsent, NoBuilder, Resumes, Types, BuilderTyped
<1>4. WireFits'
  BY <1>0, <1>a DEF WireFits
<1> QED
  BY <1>1, <1>2, <1>3, <1>4

LEMMA RefuseKeepsOrder ==
  ASSUME FiskClientAssumption, OrderInv, Refuse PROVE OrderInv'
<1> USE DEF OrderInv, Refuse, Client, mainVars, config
<1>0. /\ Message("bad") \in Messages /\ Message("bad").type = "bad"
      /\ Message("eof") \in Messages /\ Message("eof").type = "eof"
  BY DEF Message, Messages
<1>a. LET sent == wire \o <<Message("bad"), Message("eof")>>
      IN /\ sent \in Seq(Messages)
         /\ Len(sent) = Len(wire) + 2 /\ Len(wire) \in Nat
         /\ \A i \in 1..Len(wire) : sent[i] = wire[i]
         /\ sent[Len(wire) + 1] = Message("bad")
         /\ sent[Len(wire) + 2] = Message("eof")
  BY <1>0 DEF Types, BuilderTyped
<1>1. Types'
  BY <1>0, <1>a DEF Types, MainTyped, PeersTyped, BuilderTyped
<1>2. StageFits'
  BY StagesKnown DEF StageFits, Base, Types, MainTyped
<1>3. SentInTurn'
  BY <1>0, <1>a DEF SentInTurn, Unsent, NoBuilder, Resumes, Types, BuilderTyped
<1>4. WireFits'
  BY <1>0, <1>a DEF WireFits
<1> QED
  BY <1>1, <1>2, <1>3, <1>4

LEMMA AnswerKeepsOrder ==
  ASSUME FiskClientAssumption, OrderInv, Answer PROVE OrderInv'
<1> USE DEF OrderInv
<1>1. PICK index \in Indexes :
        /\ sizes' = index
        /\ \/ /\ job' = "answered"
              /\ wire' = wire \o <<Ok(index)>> \o Contents(index)
           \/ /\ job = "queued" /\ job' = "gone"
              /\ \E n \in 0..Len(index) :
                   wire' = wire \o <<Ok(index)>> \o SubSeq(Contents(index), 1, n)
                                \o <<Message("eof")>>
  BY DEF Answer, Ok
<1>2. /\ job = "queued" \/ (job = "started" /\ fed)
      /\ UNCHANGED <<Client, fed, beats>>
  BY DEF Answer
<1>3. Len(index) \in Nat /\ wire \in Seq(Messages) /\ Len(wire) \in Nat
  BY LenProperties DEF FiskClientAssumption, Types, BuilderTyped
<1>4. /\ wire' \in Seq(Messages) /\ Len(wire') >= Len(wire) + 1
      /\ \A i \in 1..Len(wire) : wire'[i] = wire[i]
      /\ \A i \in 1..Len(wire') :
           i > Len(wire) =>
             \/ wire'[i].type \in {"ok", "data"}
             \/ wire'[i].type = "eof" /\ i = Len(wire') /\ job' = "gone"
  <2>1. \A i : Ok(index).type = "ok" /\ Datum(index, i).type = "data"
    BY DEF Ok, Datum, Message
  <2>2. Message("eof") \in Messages /\ Message("eof").type = "eof"
    BY DEF Message, Messages
  <2>3. ASSUME NEW n \in 0..Len(index)
        PROVE  LET sent == wire \o <<Ok(index)>> \o SubSeq(Contents(index), 1, n)
               IN /\ sent \in Seq(Messages) /\ Len(sent) >= Len(wire) + 1
                  /\ \A i \in 1..Len(wire) : sent[i] = wire[i]
                  /\ \A i \in 1..Len(sent) :
                       i > Len(wire) => sent[i].type \in {"ok", "data"}
    <3> DEFINE sent == wire \o <<Ok(index)>> \o SubSeq(Contents(index), 1, n)
    <3>1. /\ sent \in Seq(Messages) /\ Len(sent) = Len(wire) + 1 + n /\ n \in Nat
          /\ \A i \in 1..Len(wire) : sent[i] = wire[i]
          /\ sent[Len(wire) + 1] = Ok(index)
          /\ \A i \in 1..n : sent[Len(wire) + 1 + i] = Datum(index, i)
      BY <1>3, AnswerSent
    <3> HIDE DEF sent
    <3>2. ASSUME NEW i \in 1..Len(sent), i > Len(wire)
          PROVE  sent[i].type \in {"ok", "data"}
      <4>1. CASE i = Len(wire) + 1
        BY <2>1, <3>1, <4>1
      <4>2. CASE i # Len(wire) + 1
        <5>1. PICK k \in 1..n : i = Len(wire) + 1 + k
          <6>1. /\ i - Len(wire) - 1 \in 1..n
                /\ i = Len(wire) + 1 + (i - Len(wire) - 1)
            BY <1>3, <3>1, <3>2, <4>2
          <6> QED
            BY <6>1
        <5>2. sent[i] = Datum(index, k)
          BY <3>1, <5>1
        <5> QED
          BY <2>1, <5>2
      <4> QED
        BY <4>1, <4>2
    <3> QED
      BY <1>3, <3>1, <3>2 DEF sent
  <2>4. CASE wire' = wire \o <<Ok(index)>> \o Contents(index)
    <3>0. Len(index) \in 0..Len(index)
      BY <1>3
    <3>1. SubSeq(Contents(index), 1, Len(index)) = Contents(index)
      BY <1>3, <3>0, AnswerSent
    <3> QED
      BY <2>3, <2>4, <3>0, <3>1
  <2>5. ASSUME NEW n \in 0..Len(index), job' = "gone",
               wire' = wire \o <<Ok(index)>> \o SubSeq(Contents(index), 1, n)
                            \o <<Message("eof")>>
        PROVE  /\ wire' \in Seq(Messages) /\ Len(wire') >= Len(wire) + 1
               /\ \A i \in 1..Len(wire) : wire'[i] = wire[i]
               /\ \A i \in 1..Len(wire') :
                    i > Len(wire) =>
                      \/ wire'[i].type \in {"ok", "data"}
                      \/ wire'[i].type = "eof" /\ i = Len(wire') /\ job' = "gone"
    <3> DEFINE sent == wire \o <<Ok(index)>> \o SubSeq(Contents(index), 1, n)
    <3>1. /\ sent \in Seq(Messages) /\ Len(sent) >= Len(wire) + 1
          /\ \A i \in 1..Len(wire) : sent[i] = wire[i]
          /\ \A i \in 1..Len(sent) :
               i > Len(wire) => sent[i].type \in {"ok", "data"}
      BY <2>3
    <3>2. wire' = sent \o <<Message("eof")>>
      BY <2>5
    <3> HIDE DEF sent
    <3>3. /\ wire' \in Seq(Messages) /\ Len(wire') = Len(sent) + 1
          /\ Len(sent) \in Nat /\ wire'[Len(sent) + 1] = Message("eof")
          /\ \A i \in 1..Len(sent) : wire'[i] = sent[i]
      BY <2>2, <3>1, <3>2
    <3>4. ASSUME NEW i \in 1..Len(wire'), i > Len(wire)
          PROVE  \/ wire'[i].type \in {"ok", "data"}
                 \/ wire'[i].type = "eof" /\ i = Len(wire') /\ job' = "gone"
      <4>1. i \in 1..Len(sent) \/ i = Len(sent) + 1
        BY <3>3
      <4> QED
        BY <2>2, <2>5, <3>1, <3>3, <3>4, <4>1
    <3>5. \A i \in 1..Len(wire) : i \in 1..Len(sent) /\ wire'[i] = wire[i]
      BY <1>3, <3>1, <3>3
    <3>6. Len(wire') >= Len(wire) + 1
      BY <1>3, <3>1, <3>3
    <3> QED
      BY <3>3, <3>4, <3>5, <3>6
  <2> QED
    BY <1>1, <2>4, <2>5
<1>5. /\ UNCHANGED <<mainVars, config, daemon, thread, key, sched, answer, b>>
      /\ UNCHANGED <<told, out, fed, beats>>
  BY <1>2 DEF Client
<1>6. Types'
  BY <1>1, <1>4, <1>5 DEF Types, MainTyped, PeersTyped, BuilderTyped,
     mainVars, config
<1>7. StageFits'
  BY <1>5 DEF StageFits, Base, mainVars, config
<1>8. SentInTurn'
  <2>1. job' \in {"answered", "gone"} /\ ~Unsent
    BY <1>1, <1>2 DEF SentInTurn
  <2>2. ~In(out, "json") /\ b.state # "connecting"
    BY <1>2 DEF SentInTurn
  <2>3. /\ Unsent' = Unsent /\ NoBuilder' = NoBuilder
        /\ UNCHANGED <<pc, b, out, told, fed, failed>>
    BY <1>5 DEF Unsent, NoBuilder, mainVars, config
  <2>4. ~In(out', "json") /\ In(out', "source") = In(out, "source")
    BY <2>2, <2>3 DEF In
  <2> QED
    BY <2>1, <2>2, <2>3, <2>4 DEF SentInTurn
<1>9. WireFits'
  <2>1. job' \in {"answered", "gone"}
    BY <1>1
  <2>2. ASSUME NEW i \in 1..Len(wire'), wire'[i].type = "eof"
        PROVE  i = Len(wire') /\ job' = "gone"
    <3>1. CASE i > Len(wire)
      BY <1>4, <2>2, <3>1
    <3>2. CASE ~(i > Len(wire))
      <4>1. i \in 1..Len(wire) /\ wire'[i] = wire[i]
        BY <1>3, <1>4, <3>2
      <4> QED
        BY <1>2, <2>2, <4>1 DEF WireFits
    <3> QED
      BY <3>1, <3>2
  <2> QED
    BY <2>1, <2>2 DEF WireFits
<1> QED
  BY <1>6, <1>7, <1>8, <1>9

LEMMA OnReadKeepsOrder ==
  ASSUME FiskClientAssumption, OrderInv, OnRead PROVE OrderInv'
<1> USE DEF OrderInv
<1>1. PICK n \in 1..Len(wire), io \in Failures \cup {"none"} :
        LET batch == SubSeq(wire, 1, n)
            r == Handle(batch, io)
        IN /\ wire' = SubSeq(wire, n + 1, Len(wire))
           /\ \/ /\ Last(batch).type = "eof"
                 /\ b' = [b EXCEPT !.state = "gone"]
                 /\ UNCHANGED mainVars
              \/ /\ Last(batch).type # "eof" /\ ~r.failed
                 /\ b' = r.s
                 /\ wd' = IF r.s.error THEN Stop ELSE wd
                 /\ UNCHANGED <<pc, stage, failed, exit>>
              \/ /\ Last(batch).type # "eof" /\ r.failed
                 /\ failed' = "file" /\ exit' = "aborted" /\ pc' = "exit"
                 /\ UNCHANGED <<b, wd, stage>>
  BY DEF OnRead
<1>2. /\ pc \in Loops /\ b.state = "connected"
      /\ UNCHANGED <<config, daemon, thread, key, sched, answer, told, out>>
      /\ UNCHANGED <<job, fed, beats, sizes>>
  BY DEF OnRead, InLoop
<1> DEFINE batch == SubSeq(wire, 1, n)
           r == Handle(batch, io)
<1>3. /\ batch \in Seq(Messages) /\ Len(batch) = n
      /\ n \in Nat /\ Len(wire) \in Nat
      /\ \A i \in 1..n : batch[i] = wire[i]
      /\ Last(batch) = wire[n]
      /\ wire' \in Seq(Messages) /\ Len(wire') = Len(wire) - n
      /\ \A i \in 1..Len(wire) - n : wire'[i] = wire[n + i]
  BY <1>1, BatchRead DEF Types, BuilderTyped
<1>4. /\ b' \in Sockets /\ b'.state \in {"connected", "gone"}
      /\ ~Resumes(wire) => b'.wait = b.wait
  <2>1. CASE b' = [b EXCEPT !.state = "gone"] \/ b' = b
    BY <1>2, <2>1 DEF Types, Sockets
  <2>2. CASE wire[n].type # "eof" /\ b' = r.s
    <3>1. \A i \in 1..Len(batch) : batch[i].type # "eof"
      BY <1>3, <2>2 DEF WireFits
    <3>2. /\ r \in Handlings
          /\ (\A i \in 1..Len(batch) : batch[i].type # "resume")
               => r.s.wait = b.wait
      BY <1>3, <3>1, HandleTyped DEF Types
    <3>3. ~Resumes(wire) => \A i \in 1..Len(batch) : batch[i].type # "resume"
      BY <1>3 DEF Resumes
    <3> HIDE DEF r
    <3> QED
      BY <1>2, <2>2, <3>2, <3>3 DEF Handlings
  <2> HIDE DEF r, batch
  <2> QED
    BY <1>1, <1>3, <2>1, <2>2 DEF r, batch
<1>5. /\ pc' \in {pc, "exit"} /\ wd' \in {wd, "stopped"} /\ stage' = stage
      /\ wd' = "running" => wd = "running"
      /\ failed' \in {failed, "file"} /\ exit' \in {exit, "aborted"}
  BY <1>1 DEF mainVars, Stop
<1>6. Types'
  BY <1>2, <1>3, <1>4, <1>5 DEF Types, MainTyped, PeersTyped, BuilderTyped,
     config
<1>7. StageFits'
  BY <1>2, <1>5 DEF StageFits, Base, Loops, config
<1>8. SentInTurn'
  <2>1. Resumes(wire') => Resumes(wire)
    <3>1. ASSUME NEW i \in 1..Len(wire')
          PROVE  n + i \in 1..Len(wire) /\ wire'[i] = wire[n + i]
      <4> HIDE DEF batch, r
      <4> QED
        BY <1>3
    <3> HIDE DEF batch, r
    <3> QED
      BY <3>1 DEF Resumes
  <2>2. Unsent' => Unsent /\ wire = <<>>
    BY <1>5 DEF Unsent, SentInTurn
  <2>3. ~Unsent'
    BY <1>3, <2>2
  <2>4. ~NoBuilder' /\ b'.state # "connecting"
    BY <1>2, <1>4, <1>5 DEF SentInTurn, NoBuilder, Loops, config
  <2>5. /\ pc' \in {"wait", "upload"} => pc = pc'
        /\ pc' # "upload" /\ failed' # "wait"
    BY <1>2, <1>5 DEF SentInTurn, Loops
  <2>6. UNCHANGED out /\ UNCHANGED told /\ UNCHANGED job /\ UNCHANGED fed
    BY <1>2
  <2> QED
    BY <1>4, <2>1, <2>3, <2>4, <2>5, <2>6 DEF SentInTurn, In
<1>9. WireFits'
  BY <1>2, <1>3 DEF WireFits
<1> QED
  BY <1>6, <1>7, <1>8, <1>9

LEMMA OrderKeepsInv ==
  ASSUME FiskClientAssumption, OrderInv, [Next]_vars PROVE OrderInv'
<1>1. CASE Main
  BY <1>1, LeaveDaemonKeepsOrder, LeavePreprocessKeepsOrder,
     LeaveSchedulerKeepsOrder, LeaveBuilderKeepsOrder, SendKeepsOrder,
     LeaveWaitKeepsOrder, UploadKeepsOrder, LeaveResponseKeepsOrder,
     LocalKeepsOrder DEF Main, LeaveEnvironment, LeaveSlot
<1>2. CASE Next /\ ~Main
  BY <1>2, PeersKeepOrder, SchedulerConnectsKeepsOrder,
     SchedulerAnswersKeepsOrder, BuilderConnectsKeepsOrder,
     BuilderGoneKeepsOrder, FlushKeepsOrder, OnReadKeepsOrder, StartKeepsOrder,
     AnswerKeepsOrder, RefuseKeepsOrder, HeartbeatKeepsOrder,
     HangUpKeepsOrder, LocalKeepsOrder
  DEF Next, EnvironmentTaken, SlotComes
<1>3. CASE UNCHANGED vars
  BY <1>3 DEF OrderInv, Types, MainTyped, PeersTyped, BuilderTyped, StageFits,
              Base, SentInTurn, Unsent, NoBuilder, In, Resumes, WireFits, vars,
              mainVars, config, builderVars
<1> QED
  BY <1>1, <1>2, <1>3

(* main() and its watchdog, for any output files and failures: the stages   *)
(* are passed in order in both modes, whoever hangs up and whatever comes   *)
(* together, and a client that was told to wait sends its source only when *)
(* the job is started (main.cpp:551, Watchdog.cpp:26).                     *)
THEOREM OrderIsKept == Spec => []OrderHolds
<1>1. Init => OrderInv
  BY FiskClientAssumption, OrderInit
<1>2. OrderInv /\ [Next]_vars => OrderInv'
  BY FiskClientAssumption, OrderKeepsInv
<1>3. OrderInv => OrderHolds
  <2>1. SUFFICES ASSUME OrderInv PROVE OrderHolds
    OBVIOUS
  <2>2. failed \notin {"stage", "wait"} /\ TypeOK
    BY <2>1, TypesGiven DEF OrderInv, StageFits, SentInTurn
  <2> QED
    BY <2>1, <2>2 DEF OrderInv, SentInTurn, In, OrderHolds
<1> QED
  BY <1>1, <1>2, <1>3, PTL DEF Spec

-----------------------------------------------------------------------------
(* From place i on, wire has the files from k on, as far as it goes. *)
InTurn(i, k) ==
  \A j \in i..Len(wire) :
    \/ wire[j].type = "eof"
    \/ k + (j - i) <= Len(sizes) /\ wire[j] = Datum(sizes, k + (j - i))

(* Nothing of the response was read: nothing, or what precedes it. *)
Fresh(s) ==
  /\ s.files = <<>> /\ s.total = 0 /\ ~s.f /\ s.intact /\ ~s.done /\ ~s.error
Unread ==
  \A i \in 1..Len(wire) :
    \/ wire[i].type \in {"resume", "heartbeat", "bad", "eof"}
    \/ wire[i].type = "ok" /\ wire[i].index = sizes /\ InTurn(i + 1, 1)
    \/ wire[i].type = "data" /\ \E k \in 1..i-1 : wire[k].type = "ok"

(* The first files of the response were read, and the others are to come. *)
Coming(s) == s.total - Len(s.files) + 1
Begun(s) ==
  /\ ~s.error /\ s.intact
  /\ s.total = Len(sizes) /\ Len(s.files) <= s.total
  /\ \A i \in 1..Len(s.files) : s.files[i] = sizes[s.total - Len(s.files) + i]
  /\ s.f <=> s.files # <<>>
  /\ s.done <=> s.files = <<>>

NoMoreRead == b.state = "gone" \/ pc = "exit"
Answered == job \in {"answered", "gone"}

FilesInv ==
  /\ \/ b.error
     \/ Fresh(b) /\ (Unread \/ NoMoreRead)
     \/ Begun(b) /\ (InTurn(1, Coming(b)) \/ NoMoreRead) /\ Answered
  /\ exit \in {"remote", "cachehit"} => pc = "exit" /\ b.done /\ ~b.error

LEMMA FilesInit == Init => FilesInv
BY DEF Init, FilesInv, Fresh, Unread

(* The response read, the first file is to come if there is one. *)
LEMMA ResponseBegins ==
  ASSUME sizes \in Seq(Nat), NEW s \in Sockets, Fresh(s), NEW m \in Messages,
         m.index = sizes, NEW io
  PROVE  \/ Response(s, m, io).error
         \/ Begun(Response(s, m, io)) /\ Coming(Response(s, m, io)) = 1
<1> DEFINE begun == [s EXCEPT !.files = m.index, !.total = Len(m.index)]
           open == [begun EXCEPT !.f = TRUE]
           done == [s EXCEPT !.done = TRUE]
<1>1. Len(sizes) \in Nat /\ (sizes = <<>> <=> Len(sizes) = 0)
  BY EmptySeq, LenProperties
<1>2. CASE sizes = <<>>
  <2>1. Response(s, m, io) = done
    BY <1>2 DEF Response
  <2>2. /\ done.files = <<>> /\ done.total = 0 /\ ~done.f /\ done.intact
        /\ done.done /\ ~done.error
    BY DEF Fresh, Sockets
  <2> HIDE DEF done
  <2>3. Len(done.files) = 0 /\ Len(sizes) = 0
    BY <1>1, <1>2, <2>2
  <2> QED
    BY <2>1, <2>2, <2>3 DEF Begun, Coming
<1>3. CASE sizes # <<>>
  <2>1. /\ begun \in Sockets /\ begun.files = sizes /\ begun.total = Len(sizes)
        /\ begun.intact /\ ~begun.done /\ ~begun.error
    BY <1>1 DEF Fresh, Sockets
  <2>2. Response(s, m, io) = IF io = "open" THEN Fails(begun) ELSE open
    BY <1>3 DEF Response
  <2> HIDE DEF begun
  <2>3. /\ open.files = sizes /\ open.total = Len(sizes) /\ open.f
        /\ open.intact /\ ~open.done /\ ~open.error
    BY <2>1 DEF Sockets
  <2>4. Fails(begun).error
    BY <2>1, FailsTyped
  <2> HIDE DEF open
  <2>5. Begun(open) /\ Coming(open) = 1
    <3>1. /\ Len(open.files) <= open.total /\ open.total = Len(sizes)
          /\ open.total - Len(open.files) + 1 = 1
      BY <1>1, <2>3
    <3>2. \A i \in 1..Len(open.files) :
            open.files[i] = sizes[open.total - Len(open.files) + i]
      BY <1>1, <2>3
    <3> QED
      BY <1>3, <2>3, <3>1, <3>2 DEF Begun, Coming
  <2> QED
    BY <2>2, <2>4, <2>5
<1> QED
  BY <1>2, <1>3

(* The next file read, the one after it is to come. *)
LEMMA BinaryOfFile ==
  ASSUME sizes \in Seq(Nat), NEW s \in Sockets, Begun(s), NEW io,
         Coming(s) <= Len(sizes), Datum(sizes, Coming(s)) \in Messages
  PROVE  LET m == Datum(sizes, Coming(s))
             r == Binary(s, m, io)
         IN /\ ~NoFile(s, m)
            /\ r.error \/ (Begun(r) /\ Coming(r) = Coming(s) + 1)
<1> DEFINE m == Datum(sizes, Coming(s))
           r == Binary(s, m, io)
           next == [s EXCEPT !.files = Tail(s.files), !.f = Len(s.files) > 1]
           last == [next EXCEPT !.done = next.done \/ next.files = <<>>]
           after == Fill(s, m, io)
<1>1. m.bytes = sizes[Coming(s)] /\ m.file = Coming(s)
  BY DEF Datum, Message
<1> HIDE DEF m
<1>2. /\ s.files \in Seq(Nat) /\ s.total = Len(sizes) /\ Len(sizes) \in Nat
      /\ Len(s.files) \in Nat /\ Coming(s) = Len(sizes) - Len(s.files) + 1
  BY LenProperties DEF Begun, Sockets, Coming
<1>3. Len(s.files) >= 1 /\ s.files # <<>> /\ s.f /\ ~s.done
  BY <1>2, EmptySeq DEF Begun
<1>4. /\ Head(s.files) = s.files[1] /\ Tail(s.files) \in Seq(Nat)
      /\ Len(Tail(s.files)) = Len(s.files) - 1
      /\ \A i \in 1..Len(s.files)-1 : Tail(s.files)[i] = s.files[i+1]
      /\ Tail(s.files) = <<>> <=> Len(s.files) = 1
  <2>1. /\ Head(s.files) = s.files[1] /\ Tail(s.files) \in Seq(Nat)
        /\ Len(Tail(s.files)) = Len(s.files) - 1
        /\ \A i \in 1..Len(s.files)-1 : Tail(s.files)[i] = s.files[i+1]
    BY <1>2, <1>3, HeadTailProperties
  <2>2. Tail(s.files) = <<>> <=> Len(Tail(s.files)) = 0
    BY <2>1, EmptySeq
  <2>3. Len(s.files) - 1 = 0 <=> Len(s.files) = 1
    BY <1>2
  <2> QED
    BY <2>1, <2>2, <2>3
<1>5. m.bytes = Head(s.files) /\ m.file = s.total - Len(s.files) + 1
  <2>1. 1 \in 1..Len(s.files)
    BY <1>2, <1>3
  <2>2. s.files[1] = sizes[s.total - Len(s.files) + 1]
    BY <2>1 DEF Begun
  <2> QED
    BY <1>1, <1>4, <2>2 DEF Coming
<1>6. after.error \/ after = next
  BY <1>3, <1>5, FillOfFile DEF m
<1>7. r = [after EXCEPT !.done = after.done \/ after.files = <<>>]
  BY <1>3 DEF Binary
<1>8. after \in Sockets
  BY <1>3, FillTyped DEF m
<1>9. ~NoFile(s, m)
  BY <1>3 DEF NoFile
<1> HIDE DEF after, r
<1>10. CASE after.error
  BY <1>7, <1>8, <1>9, <1>10 DEF Sockets, r, m
<1>11. CASE after = next
  <2> DEFINE rest == Tail(s.files)
             more == Len(s.files) > 1
  <2>0. /\ rest \in Seq(Nat) /\ more \in BOOLEAN
        /\ s.intact /\ ~s.done /\ ~s.error
    BY <1>2, <1>3, <1>4 DEF Begun
  <2> HIDE DEF rest, more
  <2>1. /\ next \in Sockets /\ next.files = Tail(s.files)
        /\ next.total = s.total /\ next.f = (Len(s.files) > 1)
        /\ next.intact /\ ~next.done /\ ~next.error
    <3>1. next = [s EXCEPT !.files = rest, !.f = more]
      BY DEF rest, more
    <3> HIDE DEF next
    <3>2. /\ next \in Sockets /\ next.files = rest
          /\ next.total = s.total /\ next.f = more
          /\ next.intact /\ ~next.done /\ ~next.error
      BY <2>0, <3>1 DEF Sockets
    <3> QED
      BY <3>2 DEF rest, more
  <2> HIDE DEF next
  <2>2. /\ last.files = Tail(s.files) /\ last.total = s.total
        /\ last.f = (Len(s.files) > 1) /\ last.intact /\ ~last.error
        /\ last.done = (Tail(s.files) = <<>>)
    BY <2>1 DEF Sockets
  <2>3. r = last
    BY <1>7, <1>11
  <2> HIDE DEF last
  <2>4. /\ last.total = Len(sizes) /\ Len(last.files) = Len(s.files) - 1
        /\ Len(last.files) <= last.total
    BY <1>2, <1>3, <1>4, <2>2 DEF Begun
  <2> DEFINE N == Len(s.files)
             L == Len(sizes)
  <2>a. /\ N \in Nat /\ L \in Nat /\ N >= 1
        /\ s.total = L /\ last.total = L /\ Len(last.files) = N - 1
        /\ Coming(s) = L - N + 1
    BY <1>2, <1>3, <2>4
  <2> HIDE DEF N, L
  <2>5. ASSUME NEW i \in 1..Len(last.files)
        PROVE  last.files[i] = sizes[last.total - Len(last.files) + i]
    <3>1. /\ i \in 1..N-1 /\ i+1 \in 1..N
          /\ s.total - N + (i+1) = last.total - Len(last.files) + i
      BY <2>a
    <3>2. last.files[i] = s.files[i+1]
      BY <1>4, <2>2, <3>1 DEF N
    <3>3. s.files[i+1] = sizes[s.total - N + (i+1)]
      BY <3>1 DEF Begun, N
    <3> QED
      BY <3>1, <3>2, <3>3
  <2>6. (Len(s.files) > 1) <=> Tail(s.files) # <<>>
    <3>1. N > 1 <=> ~(N = 1)
      BY <2>a
    <3> QED
      BY <1>4, <3>1 DEF N
  <2>7. Begun(last)
    BY <2>2, <2>4, <2>5, <2>6 DEF Begun
  <2>8. Coming(last) = Coming(s) + 1
    <3>1. last.total - Len(last.files) + 1 = (L - N + 1) + 1
      BY <2>a
    <3> QED
      BY <2>a, <3>1 DEF Coming
  <2> QED
    BY <1>9, <2>3, <2>7, <2>8 DEF r, m
<1> QED
  BY <1>6, <1>10, <1>11

(* What is so when the first i messages of wire are handled. *)
Handled(r, i) ==
  \/ r.failed \/ r.s.error
  \/ /\ Fresh(r.s) /\ Unread
     /\ \A k \in 1..i : wire[k].type \in {"resume", "heartbeat"}
  \/ Begun(r.s) /\ InTurn(i + 1, Coming(r.s)) /\ Answered

LEMMA HandledNext ==
  ASSUME FiskClientAssumption, OrderInv, NEW r \in Handlings,
         NEW i \in 0..Len(wire)-1, Handled(r, i), NEW io,
         wire[i+1].type # "eof"
  PROVE  Handled(HandleStep(r, wire[i+1], io), i+1)
<1> DEFINE m == wire[i+1]
           t == OnMessage(r.s, m, io)
           step == HandleStep(r, m, io)
<1> SUFFICES Handled(step, i+1)
  OBVIOUS
<1>1. /\ Len(wire) \in Nat /\ i+1 \in 1..Len(wire) /\ m \in Messages
      /\ m.type # "eof"
  BY LenProperties, ElementOfSeq DEF OrderInv, Types, BuilderTyped
<1>2. /\ sizes \in Seq(Nat)
      /\ r.s \in Sockets /\ r.failed \in BOOLEAN
  <2>1. <<>> \in Seq(Nat)
    OBVIOUS
  <2> QED
    BY <2>1 DEF OrderInv, Types, BuilderTyped, FiskClientAssumption, Handlings
<1>3. CASE r.failed \/ NoFile(r.s, m)
  BY <1>2, <1>3 DEF HandleStep, Handled, Handlings
<1>4. CASE ~r.failed /\ ~NoFile(r.s, m)
  <2>1. step.s = t /\ step.failed = r.failed
    BY <1>2, <1>4 DEF HandleStep, Handlings
  <2> HIDE DEF step
  <2>2. t \in Sockets /\ (r.s.error => t.error)
    <3> HIDE DEF m
    <3> QED
      BY <1>1, <1>2, OnMessageTyped
  <2>3. CASE r.s.error
    BY <2>1, <2>2, <2>3 DEF Handled
  <2>4. CASE /\ ~r.s.error /\ Fresh(r.s) /\ Unread
             /\ \A k \in 1..i : wire[k].type \in {"resume", "heartbeat"}
    <3>1. \/ m.type \in {"resume", "heartbeat", "bad"}
          \/ m.type = "ok" /\ m.index = sizes /\ InTurn(i + 2, 1)
      <4>1. \/ m.type \in {"resume", "heartbeat", "bad", "eof"}
            \/ m.type = "ok" /\ m.index = sizes /\ InTurn(i + 1 + 1, 1)
            \/ m.type = "data" /\ \E k \in 1..i+1-1 : wire[k].type = "ok"
        BY <1>1, <2>4 DEF Unread
      <4>2. i + 1 + 1 = i + 2 /\ i + 1 - 1 = i
        OBVIOUS
      <4>3. ~ \E k \in 1..i : wire[k].type = "ok"
        BY <2>4
      <4> QED
        BY <1>1, <4>1, <4>2, <4>3
    <3>2. \A k \in 1..i+1 : k \in 1..i \/ k = i+1
      OBVIOUS
    <3>3. CASE m.type \in {"resume", "heartbeat"}
      <4>1. t = IF m.type = "resume" THEN [r.s EXCEPT !.wait = FALSE] ELSE r.s
        BY <3>3 DEF OnMessage
      <4>2. Fresh(t)
        BY <1>2, <2>4, <4>1 DEF Fresh, Sockets
      <4>3. \A k \in 1..i+1 : wire[k].type \in {"resume", "heartbeat"}
        BY <2>4, <3>2, <3>3
      <4> QED
        BY <2>1, <2>4, <4>2, <4>3 DEF Handled
    <3>4. CASE m.type = "bad"
      <4>1. t = Fails(r.s)
        BY <3>4 DEF OnMessage
      <4> QED
        BY <1>2, <2>1, <4>1, FailsTyped DEF Handled
    <3>5. CASE m.type = "ok"
      <4>1. t = Response(r.s, m, io)
        BY <3>5 DEF OnMessage
      <4>2. t.error \/ (Begun(t) /\ Coming(t) = 1)
        BY <1>1, <1>2, <2>4, <3>1, <3>5, <4>1, ResponseBegins
      <4>3. Answered
        <5>1. job \notin {"none", "queued", "started"}
          BY <1>1, <3>5 DEF OrderInv, WireFits
        <5> QED
          BY <5>1 DEF OrderInv, Types, BuilderTyped, Answered
      <4>4. (i + 1) + 1 = i + 2
        OBVIOUS
      <4> HIDE DEF t
      <4> QED
        BY <2>1, <3>1, <3>5, <4>2, <4>3, <4>4 DEF Handled
    <3> QED
      BY <3>1, <3>3, <3>4, <3>5
  <2>5. CASE Begun(r.s) /\ InTurn(i + 1, Coming(r.s)) /\ Answered
    <3>1. Coming(r.s) \in Int /\ Coming(r.s) <= Len(sizes)
          /\ m = Datum(sizes, Coming(r.s))
      <4>1. Coming(r.s) \in Int
        BY <1>2, LenProperties DEF Coming, Sockets
      <4>2. i+1 \in i+1..Len(wire)
            /\ Coming(r.s) + ((i+1) - (i+1)) = Coming(r.s)
        BY <1>1, <4>1
      <4> QED
        BY <1>1, <2>5, <4>1, <4>2 DEF InTurn
    <3>2. m.type = "data"
      BY <3>1 DEF Datum, Message
    <3>3. t = Binary(r.s, m, io)
      BY <3>2 DEF OnMessage
    <3>4. t.error \/ (Begun(t) /\ Coming(t) = Coming(r.s) + 1)
      BY <1>1, <1>2, <2>5, <3>1, <3>3, BinaryOfFile
    <3>5. InTurn((i + 1) + 1, Coming(r.s) + 1)
      <4>1. ASSUME NEW j \in (i+1)+1..Len(wire)
            PROVE  \/ wire[j].type = "eof"
                   \/ /\ (Coming(r.s) + 1) + (j - ((i+1)+1)) <= Len(sizes)
                      /\ wire[j] = Datum(sizes,
                                         (Coming(r.s) + 1) + (j - ((i+1)+1)))
        <5>1. /\ j \in i+1..Len(wire)
              /\ (Coming(r.s) + 1) + (j - ((i+1)+1)) = Coming(r.s) + (j - (i+1))
          BY <1>1, <3>1
        <5> QED
          BY <2>5, <5>1 DEF InTurn
      <4> QED
        BY <4>1 DEF InTurn
    <3> HIDE DEF t
    <3> QED
      BY <2>1, <2>5, <3>4, <3>5 DEF Handled
  <2> QED
    BY <1>4, <2>3, <2>4, <2>5 DEF Handled
<1> QED
  BY <1>3, <1>4

(* Of the websocket only the state changes, or whether it waits. *)
SameFiles ==
  /\ b'.files = b.files /\ b'.total = b.total /\ b'.f = b.f
  /\ b'.intact = b.intact /\ b'.done = b.done /\ b'.error = b.error

LEMMA FilesFrame ==
  ASSUME FilesInv, SameFiles, UNCHANGED sizes,
         UNCHANGED wire \/ b'.state = "gone", Answered => Answered',
         NoMoreRead => NoMoreRead',
         exit' \in {"remote", "cachehit"} =>
           \/ exit' = exit /\ pc' = pc
           \/ pc' = "exit" /\ b.done /\ ~b.error
  PROVE  FilesInv'
<1> USE DEF SameFiles
<1>1. /\ Fresh(b)' <=> Fresh(b)
      /\ Begun(b)' <=> Begun(b)
      /\ Coming(b)' = Coming(b)
  BY DEF Fresh, Begun, Coming
<1>2. b'.state = "gone" => NoMoreRead'
  BY DEF NoMoreRead
<1>3. CASE UNCHANGED wire
  <2>1. Unread' <=> Unread
    BY <1>3 DEF Unread, InTurn
  <2>2. InTurn(1, Coming(b))' <=> InTurn(1, Coming(b))
    BY <1>1, <1>3 DEF InTurn
  <2> QED
    BY <1>1, <2>1, <2>2 DEF FilesInv
<1>4. CASE b'.state = "gone"
  BY <1>1, <1>2, <1>4 DEF FilesInv
<1> QED
  BY <1>3, <1>4

(* The loops without a watchdog end. *)
LEMMA FilesLocal ==
  ASSUME OrderInv, FilesInv, Uploaded \/ GoLocal PROVE FilesInv'
<1>1. /\ UNCHANGED b /\ UNCHANGED builderVars
      /\ exit' \in {exit, "local"} /\ pc # "exit" /\ pc' \in {"slot", "exit"}
  BY DEF Uploaded, GoLocal, RunLocal, Compile
<1>2. SameFiles /\ exit' \notin {"remote", "cachehit"}
  BY <1>1 DEF SameFiles, FilesInv
<1>3. NoMoreRead => NoMoreRead'
  BY <1>1 DEF NoMoreRead
<1> QED
  BY <1>1, <1>2, <1>3, FilesFrame DEF builderVars, Answered

LEMMA FilesMain ==
  ASSUME OrderInv, FilesInv, Main, ~Uploaded, ~GoLocal PROVE FilesInv'
<1>1. SameFiles
  BY DEF Main, LeaveDaemon, LeavePreprocess, Preprocessed, LeaveScheduler,
         LeaveBuilder, Send, LeaveWait, Upload, LeaveResponse, OrderInv, Types,
         Sockets, SameFiles, LeaveEnvironment, LeaveSlot
<1>2. UNCHANGED builderVars /\ pc # "exit"
  BY DEF Main, LeaveDaemon, LeavePreprocess, Preprocessed, LeaveScheduler,
         LeaveBuilder, Send, LeaveWait, Upload, LeaveResponse, Between,
         LeaveEnvironment, LeaveSlot
<1>3. NoMoreRead => NoMoreRead'
  <2>1. CASE LeaveScheduler
    BY <2>1 DEF LeaveScheduler, Between, NoMoreRead, OrderInv, SentInTurn, NoBuilder
  <2>2. CASE Send
    BY <1>2, <2>2 DEF Send, NoMoreRead, OrderInv, Types, Sockets
  <2>3. CASE Main /\ ~LeaveScheduler /\ ~Send
    BY <1>2, <2>3 DEF Main, LeaveDaemon, LeavePreprocess, Preprocessed,
       LeaveBuilder, LeaveWait, Upload, LeaveResponse, NoMoreRead,
       LeaveEnvironment, LeaveSlot, RunLocal, Compile
  <2> QED
    BY <2>1, <2>2, <2>3
<1>4. exit' \in {"remote", "cachehit"} => pc' = "exit" /\ b.done /\ ~b.error
  <2>1. exit \notin {"remote", "cachehit"}
    BY <1>2 DEF FilesInv
  <2> QED
    BY <2>1 DEF Main, LeaveDaemon, LeavePreprocess, Preprocessed, LeaveScheduler,
       LeaveBuilder, Send, LeaveWait, Upload, LeaveResponse, RunLocal, Compile,
       TransitionTo, LeaveEnvironment, LeaveSlot
<1> QED
  BY <1>1, <1>2, <1>3, <1>4, FilesFrame DEF builderVars, Answered

(* The network, the thread and the watchdog. *)
LEMMA FilesPeers ==
  ASSUME OrderInv, FilesInv,
         \/ Timeout \/ DaemonConnects \/ DaemonLost \/ ThreadRuns \/ ThreadDone
         \/ SchedulerConnects \/ SchedulerGone \/ SchedulerAnswers
         \/ BuilderConnects \/ BuilderGone \/ Flush
  PROVE  FilesInv'
<1>1. SameFiles
  BY DEF Timeout, DaemonConnects, DaemonLost, ThreadRuns, ThreadDone,
     SchedulerConnects, SchedulerGone, SchedulerAnswers, BuilderConnects,
     BuilderGone, Flush, OrderInv, Types, Sockets, SameFiles
<1>2. UNCHANGED sizes /\ (UNCHANGED wire \/ b'.state = "gone")
  <2>1. CASE BuilderGone
    BY <2>1 DEF BuilderGone, OrderInv, Types, Sockets
  <2>2. CASE ~BuilderGone
    BY <2>2 DEF Timeout, DaemonConnects, DaemonLost, ThreadRuns, ThreadDone,
       SchedulerConnects, SchedulerGone, SchedulerAnswers, BuilderConnects,
       Flush, builderVars
  <2> QED
    BY <2>1, <2>2
<1>3. Answered => Answered'
  <2>1. CASE Flush
    <3>1. Head(out) = "json" => In(out, "json")
      BY <2>1 DEF Flush, In, OrderInv, Types, BuilderTyped
    <3> QED
      BY <2>1, <3>1 DEF Flush, OrderInv, SentInTurn, Answered
  <2>2. CASE ~Flush
    BY <2>2 DEF Timeout, DaemonConnects, DaemonLost, ThreadRuns, ThreadDone,
       SchedulerConnects, SchedulerGone, SchedulerAnswers, BuilderConnects,
       BuilderGone, builderVars, Answered
  <2> QED
    BY <2>1, <2>2
<1>4. NoMoreRead => NoMoreRead'
  <2>1. CASE BuilderConnects \/ BuilderGone
    BY <2>1 DEF BuilderConnects, BuilderGone, NoMoreRead, InLoop, Loops, mainVars,
       OrderInv, Types, Sockets
  <2>2. CASE ~BuilderConnects /\ ~BuilderGone
    BY <2>2 DEF Timeout, DaemonConnects, DaemonLost, ThreadRuns, ThreadDone,
       SchedulerConnects, SchedulerGone, SchedulerAnswers, Flush, NoMoreRead,
       mainVars, TransitionTo
  <2> QED
    BY <2>1, <2>2
<1>5. exit' \in {"remote", "cachehit"} => exit' = exit /\ pc' = pc
  BY DEF Timeout, DaemonConnects, DaemonLost, ThreadRuns, ThreadDone,
     SchedulerConnects, SchedulerGone, SchedulerAnswers, BuilderConnects,
     BuilderGone, Flush, mainVars, TransitionTo
<1> QED
  BY <1>1, <1>2, <1>3, <1>4, <1>5, FilesFrame

(* The builder sends something that is no answer. *)
LEMMA FilesSent ==
  ASSUME OrderInv, FilesInv, Start \/ Refuse \/ Heartbeat \/ HangUp
  PROVE  FilesInv'
<1>1. /\ UNCHANGED mainVars /\ UNCHANGED b /\ UNCHANGED sizes
      /\ Answered => Answered'
      /\ Answered => HangUp
  BY DEF Start, Refuse, Heartbeat, HangUp, Client, Answered
<1> DEFINE grown ==
      /\ wire' \in Seq(Messages) /\ Len(wire') \in Nat
      /\ Len(wire) \in Nat /\ Len(wire') >= Len(wire)
      /\ \A i \in 1..Len(wire) : wire'[i] = wire[i]
      /\ \A i \in 1..Len(wire') : i > Len(wire) =>
           \/ wire'[i].type = "eof"
           \/ ~HangUp /\ wire'[i].type \in {"resume", "heartbeat", "bad"}
<1>2. grown
  <2>1. wire \in Seq(Messages) /\ Len(wire) \in Nat
    BY LenProperties DEF OrderInv, Types, BuilderTyped
  <2>2. \A type \in {"resume", "heartbeat", "bad", "eof"} :
          Message(type) \in Messages /\ Message(type).type = type
    BY DEF Message, Messages
  <2>3. ASSUME NEW type \in {"resume", "heartbeat", "eof"},
               wire' = Append(wire, Message(type)), type = "eof" \/ ~HangUp
        PROVE  grown
    <3>1. Message(type) \in Messages /\ Message(type).type = type
      BY <2>2, <2>3
    <3>2. /\ wire' \in Seq(Messages) /\ Len(wire') = Len(wire) + 1
          /\ \A i \in 1..Len(wire) : wire'[i] = wire[i]
          /\ wire'[Len(wire) + 1] = Message(type)
      BY <2>1, <2>3, <3>1, AppendProperties
    <3>3. \A i \in 1..Len(wire') : i > Len(wire) => i = Len(wire) + 1
      BY <2>1, <3>2
    <3>4. Len(wire') \in Nat /\ Len(wire') >= Len(wire)
      BY <2>1, <3>2
    <3> QED
      BY <2>1, <2>3, <3>1, <3>2, <3>3, <3>4
  <2>4. CASE wire' = wire \o <<Message("bad"), Message("eof")>> /\ ~HangUp
    <3> DEFINE m1 == Message("bad")
               m2 == Message("eof")
    <3>1. m1 \in Messages /\ m1.type = "bad" /\ m2 \in Messages /\ m2.type = "eof"
      BY <2>2
    <3> HIDE DEF m1, m2
    <3>2. wire' = wire \o <<m1, m2>>
      BY <2>4 DEF m1, m2
    <3>3. /\ wire' \in Seq(Messages) /\ Len(wire') = Len(wire) + 2
          /\ \A i \in 1..Len(wire) : wire'[i] = wire[i]
          /\ wire'[Len(wire) + 1] = m1 /\ wire'[Len(wire) + 2] = m2
      BY <2>1, <3>1, <3>2
    <3>4. \A i \in 1..Len(wire') :
            i > Len(wire) => i = Len(wire) + 1 \/ i = Len(wire) + 2
      BY <2>1, <3>3
    <3>5. Len(wire') \in Nat /\ Len(wire') >= Len(wire)
      BY <2>1, <3>3
    <3> QED
      BY <2>1, <2>4, <3>1, <3>3, <3>4, <3>5
  <2>5. /\ Start => \/ wire' = wire
                    \/ wire' = Append(wire, Message("resume"))
        /\ Heartbeat => wire' = Append(wire, Message("heartbeat"))
        /\ HangUp => wire' = Append(wire, Message("eof"))
        /\ Refuse => wire' = wire \o <<Message("bad"), Message("eof")>>
    BY DEF Start, Heartbeat, HangUp, Refuse
  <2>6. CASE wire' = wire
    BY <2>1, <2>6
  <2> HIDE DEF grown
  <2> QED
    BY <2>3, <2>4, <2>5, <2>6
<1>3. Fresh(b)' <=> Fresh(b)
  BY <1>1 DEF Fresh
<1>4. /\ Begun(b)' <=> Begun(b)
      /\ Coming(b)' = Coming(b)
  BY <1>1 DEF Begun, Coming
<1>5. ASSUME NEW i \in Nat, NEW k, InTurn(i, k), i >= 1, HangUp
      PROVE  InTurn(i, k)'
  <2>1. ASSUME NEW j \in i..Len(wire')
        PROVE  \/ wire'[j].type = "eof"
               \/ k + (j - i) <= Len(sizes) /\ wire'[j] = Datum(sizes, k + (j - i))
    <3>1. CASE j > Len(wire)
      BY <1>2, <1>5, <3>1
    <3>2. CASE ~(j > Len(wire))
      <4>1. j \in i..Len(wire) /\ j \in 1..Len(wire)
        BY <1>2, <1>5, <3>2
      <4> QED
        BY <1>2, <1>5, <4>1 DEF InTurn
    <3> QED
      BY <3>1, <3>2
  <2> QED
    BY <1>1, <2>1 DEF InTurn
<1>6. Unread => Unread'
  <2> SUFFICES ASSUME Unread, NEW i \in 1..Len(wire')
               PROVE  \/ wire'[i].type \in {"resume", "heartbeat", "bad", "eof"}
                      \/ wire'[i].type = "ok" /\ wire'[i].index = sizes
                         /\ InTurn(i + 1, 1)'
                      \/ wire'[i].type = "data"
                         /\ \E k \in 1..i-1 : wire'[k].type = "ok"
    BY <1>1 DEF Unread
  <2>1. CASE i > Len(wire)
    BY <1>2, <2>1
  <2>2. CASE ~(i > Len(wire)) /\ Answered
    <3>1. i \in 1..Len(wire) /\ wire'[i] = wire[i] /\ HangUp /\ i+1 \in Nat
      BY <1>1, <1>2, <2>2
    <3>2. InTurn(i + 1, 1) => InTurn(i + 1, 1)'
      BY <1>5, <3>1
    <3>3. \A k \in 1..i-1 : k \in 1..Len(wire) /\ wire'[k] = wire[k]
      BY <1>2, <3>1
    <3> QED
      BY <3>1, <3>2, <3>3 DEF Unread
  <2>3. CASE ~(i > Len(wire)) /\ ~Answered
    <3>1. i \in 1..Len(wire) /\ wire'[i] = wire[i]
      BY <1>2, <2>3
    <3>2. job \in {"queued", "started"}
      BY <2>3 DEF Start, Refuse, Heartbeat, HangUp, Answered
    <3> QED
      BY <3>1, <3>2 DEF OrderInv, WireFits
  <2> QED
    BY <2>1, <2>2, <2>3
<1>7. Answered /\ InTurn(1, Coming(b)) => InTurn(1, Coming(b))'
  BY <1>1, <1>4, <1>5
<1>8. NoMoreRead' <=> NoMoreRead
  BY <1>1 DEF NoMoreRead, mainVars
<1> QED
  BY <1>1, <1>3, <1>4, <1>6, <1>7, <1>8 DEF FilesInv, mainVars

(* The response is sent, of which nothing was read. *)
LEMMA FilesAnswered ==
  ASSUME FiskClientAssumption, OrderInv, FilesInv, Answer PROVE FilesInv'
<1>1. PICK index \in Indexes :
        /\ sizes' = index
        /\ \/ /\ job' = "answered"
              /\ wire' = wire \o <<Ok(index)>> \o Contents(index)
           \/ /\ job = "queued" /\ job' = "gone"
              /\ \E n \in 0..Len(index) :
                   wire' = wire \o <<Ok(index)>> \o SubSeq(Contents(index), 1, n)
                                \o <<Message("eof")>>
  BY DEF Answer, Ok
<1>2. /\ UNCHANGED mainVars /\ UNCHANGED b
      /\ job \in {"queued", "started"} /\ ~Answered
  BY DEF Answer, Client, Answered
<1>3. /\ Len(index) \in Nat /\ wire \in Seq(Messages) /\ Len(wire) \in Nat
      /\ \A i \in 1..Len(wire) : wire[i].type \in {"resume", "heartbeat"}
  BY <1>2, LenProperties
  DEF FiskClientAssumption, OrderInv, Types, BuilderTyped, WireFits
<1> DEFINE begun(w, n) ==
             /\ \A i \in 1..Len(wire) : w[i] = wire[i]
             /\ w[Len(wire) + 1] = Ok(index)
             /\ \A i \in 1..n : w[Len(wire) + 1 + i] = Datum(index, i)
           sent(w, n) ==
             \/ Len(w) = Len(wire) + 1 + n
             \/ Len(w) = Len(wire) + 1 + n + 1 /\ w[Len(w)].type = "eof"
<1>4. \E n \in 0..Len(index) : begun(wire', n) /\ sent(wire', n)
  <2>1. ASSUME NEW n \in 0..Len(index)
        PROVE  LET w == wire \o <<Ok(index)>> \o SubSeq(Contents(index), 1, n)
               IN begun(w, n) /\ Len(w) = Len(wire) + 1 + n /\ w \in Seq(Messages)
    BY <1>3, AnswerSent
  <2>2. CASE wire' = wire \o <<Ok(index)>> \o Contents(index)
    <3>1. Len(index) \in 0..Len(index)
      BY <1>3
    <3>2. SubSeq(Contents(index), 1, Len(index)) = Contents(index)
      BY <1>3, <3>1, AnswerSent
    <3> QED
      BY <2>1, <2>2, <3>1, <3>2
  <2>3. ASSUME NEW n \in 0..Len(index),
               wire' = wire \o <<Ok(index)>> \o SubSeq(Contents(index), 1, n)
                            \o <<Message("eof")>>
        PROVE  begun(wire', n) /\ sent(wire', n)
    <3> DEFINE w == wire \o <<Ok(index)>> \o SubSeq(Contents(index), 1, n)
    <3>1. begun(w, n) /\ Len(w) = Len(wire) + 1 + n /\ w \in Seq(Messages)
      BY <2>1
    <3>2. wire' = w \o <<Message("eof")>>
      BY <2>3
    <3> HIDE DEF w
    <3>3. Message("eof") \in Messages /\ Message("eof").type = "eof"
      BY DEF Message, Messages
    <3>4. /\ Len(wire') = Len(w) + 1 /\ wire'[Len(w) + 1] = Message("eof")
          /\ \A i \in 1..Len(w) : wire'[i] = w[i]
      <4>1. /\ w \in Seq(Messages) /\ Message("eof") \in Messages
            /\ Len(w) \in Nat
        BY <3>1, <3>3, LenProperties
      <4> QED
        BY <3>2, <4>1
    <3>5. /\ \A i \in 1..Len(wire) : i \in 1..Len(wire) + 1 + n
          /\ Len(wire) + 1 \in 1..Len(wire) + 1 + n
          /\ \A i \in 1..n : Len(wire) + 1 + i \in 1..Len(wire) + 1 + n
      BY <1>3
    <3>6. begun(wire', n)
      BY <3>1, <3>4, <3>5
    <3>7. Len(wire') = Len(wire) + 1 + n + 1 /\ wire'[Len(wire')].type = "eof"
      BY <3>1, <3>3, <3>4
    <3> QED
      BY <3>6, <3>7
  <2> HIDE DEF begun, sent
  <2> QED
    BY <1>1, <2>2, <2>3
<1>5. PICK n \in 0..Len(index) : begun(wire', n) /\ sent(wire', n)
  BY <1>4
<1>a. n \in Nat
  BY <1>3
<1>b. PICK c \in Nat : c = Len(wire) + 1
  BY <1>3
<1>6. InTurn(c + 1, 1)'
  <2>1. ASSUME NEW j \in c + 1 .. Len(wire')
        PROVE  \/ wire'[j].type = "eof"
               \/ /\ 1 + (j - (c + 1)) <= Len(index)
                  /\ wire'[j] = Datum(index, 1 + (j - (c + 1)))
    <3> DEFINE i == 1 + (j - (c + 1))
    <3>1. CASE i <= n
      <4>1. i \in 1..n /\ Len(wire) + 1 + i = j /\ i <= Len(index)
        BY <1>3, <1>b, <3>1
      <4> HIDE DEF i
      <4>2. wire'[j] = Datum(index, i)
        BY <1>5, <4>1
      <4> QED
        BY <4>1, <4>2 DEF i
    <3>2. CASE ~(i <= n)
      <4> HIDE DEF begun
      <4>1. j = Len(wire') /\ wire'[Len(wire')].type = "eof"
        BY <1>3, <1>a, <1>b, <1>5, <3>2
      <4> QED
        BY <4>1
    <3> QED
      BY <3>1, <3>2
  <2> HIDE DEF begun, sent
  <2> QED
    BY <1>1, <2>1 DEF InTurn
<1>7. Unread'
  <2> SUFFICES ASSUME NEW i \in 1..Len(wire')
               PROVE  \/ wire'[i].type \in {"resume", "heartbeat", "bad", "eof"}
                      \/ wire'[i].type = "ok" /\ wire'[i].index = index
                         /\ InTurn(i + 1, 1)'
                      \/ wire'[i].type = "data"
                         /\ \E k \in 1..i-1 : wire'[k].type = "ok"
    BY <1>1 DEF Unread
  <2>1. /\ Ok(index).type = "ok" /\ Ok(index).index = index
        /\ \A k : Datum(index, k).type = "data"
    BY DEF Ok, Datum, Message
  <2>2. CASE i <= Len(wire)
    <3>1. i \in 1..Len(wire)
      BY <1>3, <2>2
    <3> QED
      BY <1>3, <1>5, <3>1
  <2>3. CASE i = Len(wire) + 1
    <3>1. i = c /\ wire'[i] = Ok(index)
      BY <1>5, <1>b, <2>3
    <3> HIDE DEF begun, sent
    <3> QED
      BY <1>6, <2>1, <3>1
  <2>4. CASE i > Len(wire) + 1
    <3>1. /\ i \in c + 1 .. Len(wire') /\ Len(wire) + 1 \in 1..i-1
      BY <1>3, <1>b, <2>4
    <3>2. wire'[i].type = "eof" \/ wire'[i].type = "data"
      <4> HIDE DEF begun, sent
      <4> QED
        BY <1>1, <1>6, <2>1, <3>1 DEF InTurn
    <3> QED
      BY <1>5, <2>1, <3>1, <3>2
  <2> QED
    BY <1>3, <2>2, <2>3, <2>4
<1>8. Fresh(b)' <=> Fresh(b)
  BY <1>2 DEF Fresh
<1> QED
  BY <1>2, <1>7, <1>8 DEF FilesInv, mainVars

(* The files to come are to come when the first n messages are read. *)
LEMMA ReadOn ==
  ASSUME NEW n \in Nat, Len(wire) \in Nat, Len(wire') = Len(wire) - n,
         \A i \in 1..Len(wire) - n : wire'[i] = wire[n + i], UNCHANGED sizes,
         NEW i \in Nat, i >= 1, NEW from \in Nat, from = n + i,
         NEW k \in Int, InTurn(from, k)
  PROVE  InTurn(i, k)'
<1>1. ASSUME NEW j \in i..Len(wire')
      PROVE  \/ wire'[j].type = "eof"
             \/ k + (j - i) <= Len(sizes) /\ wire'[j] = Datum(sizes, k + (j - i))
  <2>1. /\ n + j \in from..Len(wire) /\ wire'[j] = wire[n + j]
        /\ k + ((n + j) - from) = k + (j - i)
    OBVIOUS
  <2> QED
    BY <2>1 DEF InTurn
<1> QED
  BY <1>1 DEF InTurn

(* What is read is the response, in order, whatever the pieces. *)
LEMMA FilesRead ==
  ASSUME FiskClientAssumption, OrderInv, FilesInv, OnRead PROVE FilesInv'
<1>1. PICK n \in 1..Len(wire), io \in Failures \cup {"none"} :
        LET batch == SubSeq(wire, 1, n)
            r == Handle(batch, io)
        IN /\ wire' = SubSeq(wire, n + 1, Len(wire))
           /\ \/ /\ Last(batch).type = "eof"
                 /\ b' = [b EXCEPT !.state = "gone"]
                 /\ UNCHANGED mainVars
              \/ /\ Last(batch).type # "eof" /\ ~r.failed
                 /\ b' = r.s
                 /\ wd' = IF r.s.error THEN Stop ELSE wd
                 /\ UNCHANGED <<pc, stage, failed, exit>>
              \/ /\ Last(batch).type # "eof" /\ r.failed
                 /\ failed' = "file" /\ exit' = "aborted" /\ pc' = "exit"
                 /\ UNCHANGED <<b, wd, stage>>
  BY DEF OnRead
<1>2. /\ pc \in Loops /\ b.state = "connected"
      /\ UNCHANGED job /\ UNCHANGED sizes /\ b \in Sockets
      /\ exit \notin {"remote", "cachehit"}
  BY DEF OnRead, InLoop, OrderInv, Types, FilesInv, Loops
<1> DEFINE batch == SubSeq(wire, 1, n)
           r == Handle(batch, io)
<1>3. /\ batch \in Seq(Messages) /\ Len(batch) = n
      /\ n \in Nat /\ Len(wire) \in Nat
      /\ \A i \in 1..n : batch[i] = wire[i]
      /\ Last(batch) = wire[n]
      /\ Len(wire') = Len(wire) - n
      /\ \A i \in 1..Len(wire) - n : wire'[i] = wire[n + i]
  BY <1>1, BatchRead DEF OrderInv, Types, BuilderTyped
<1>4. CASE b' = [b EXCEPT !.state = "gone"] /\ UNCHANGED mainVars
  <2>1. SameFiles /\ b'.state = "gone"
    BY <1>2, <1>4 DEF SameFiles, Sockets
  <2> QED
    BY <1>2, <1>4, <2>1, FilesFrame DEF NoMoreRead, Answered, mainVars
<1>5. CASE UNCHANGED b /\ pc' = "exit" /\ exit' = "aborted"
  <2>1. /\ Fresh(b)' <=> Fresh(b)
        /\ Begun(b)' <=> Begun(b)
    BY <1>2, <1>5 DEF Fresh, Begun
  <2> QED
    BY <1>2, <1>5, <2>1 DEF FilesInv, NoMoreRead, Answered
<1>6. CASE wire[n].type # "eof" /\ ~r.failed /\ b' = r.s /\ UNCHANGED <<pc, exit>>
  <2>1. \A i \in 1..n : wire[i].type # "eof"
    BY <1>3, <1>6 DEF OrderInv, WireFits
  <2>2. PICK h \in [0..n -> Handlings] :
          /\ h[0] = [s |-> b, failed |-> FALSE]
          /\ \A i \in 1..n : h[i] = HandleStep(h[i-1], batch[i], io)
          /\ r = h[n]
    <3>1. /\ \A i \in 1..Len(batch) : batch[i].type # "eof"
          /\ batch \in Seq(Messages) /\ b \in Sockets
      BY <1>2, <1>3, <2>1
    <3> HIDE DEF batch
    <3>2. \E h \in [0..Len(batch) -> Handlings] :
            /\ h[0] = [s |-> b, failed |-> FALSE]
            /\ \A i \in 1..Len(batch) : h[i] = HandleStep(h[i-1], batch[i], io)
            /\ Handle(batch, io) = h[Len(batch)]
      BY <3>1, HandleChain
    <3> QED
      BY <1>3, <3>2
  <2>3. Handled(h[0], 0)
    <3>1. ~NoMoreRead /\ 0 + 1 = 1
      BY <1>2 DEF NoMoreRead, Loops
    <3> QED
      BY <2>2, <3>1 DEF FilesInv, Handled
  <2>4. Handled(h[n], n)
    <3> DEFINE T == {i \in 0..n : Handled(h[i], i)}
    <3>1. 0 \in T
      BY <1>3, <2>3
    <3>2. ASSUME NEW i \in 0..n-1, i \in T PROVE i+1 \in T
      <4>1. /\ h[i] \in Handlings /\ i+1 \in 1..n /\ (i+1)-1 = i
            /\ i \in 0..Len(wire)-1 /\ i+1 \in 0..n
        BY <1>3
      <4>2. h[i+1] = HandleStep(h[i], wire[i+1], io)
        BY <1>3, <2>2, <4>1
      <4>3. Handled(h[i+1], i+1)
        BY <2>1, <3>2, <4>1, <4>2, HandledNext
      <4> QED
        BY <4>1, <4>3
    <3> HIDE DEF T
    <3>3. \A i \in 0..n : i \in T
      BY <1>3, <3>1, <3>2, Steps
    <3>4. n \in T
      BY <1>3, <3>3
    <3> QED
      BY <3>4 DEF T
  <2> HIDE DEF r, batch
  <2>5. CASE b'.error
    BY <1>2, <1>6, <2>5 DEF FilesInv
  <2>6. CASE /\ Fresh(b') /\ Unread
             /\ \A k \in 1..n : wire[k].type \in {"resume", "heartbeat"}
    <3>1. ASSUME NEW j \in 1..Len(wire')
          PROVE  \/ wire'[j].type \in {"resume", "heartbeat", "bad", "eof"}
                 \/ wire'[j].type = "ok" /\ wire'[j].index = sizes
                    /\ InTurn(j + 1, 1)'
                 \/ wire'[j].type = "data"
                    /\ \E k \in 1..j-1 : wire'[k].type = "ok"
      <4>1. n + j \in 1..Len(wire) /\ wire'[j] = wire[n + j]
        BY <1>3
      <4>2. InTurn(n + j + 1, 1) => InTurn(j + 1, 1)'
        <5> SUFFICES ASSUME InTurn(n + j + 1, 1) PROVE InTurn(j + 1, 1)'
          OBVIOUS
        <5>1. /\ n + j + 1 = n + (j + 1) /\ j + 1 >= 1 /\ j + 1 \in Nat
              /\ n + j + 1 \in Nat /\ 1 \in Int
          BY <1>3
        <5> QED
          BY <1>2, <1>3, <5>1, ReadOn
      <4>3. ASSUME NEW k \in 1..n+j-1, wire[k].type = "ok"
            PROVE  k - n \in 1..j-1 /\ wire'[k-n].type = "ok"
        <5>1. ~(k \in 1..n)
          BY <2>6, <4>3
        <5>2. k - n \in 1..j-1 /\ k - n \in 1..Len(wire) - n /\ n + (k - n) = k
          BY <1>3, <5>1
        <5> QED
          BY <1>3, <4>3, <5>2
      <4> DEFINE m == wire[n + j]
      <4>4. \/ m.type \in {"resume", "heartbeat", "bad", "eof"}
            \/ m.type = "ok" /\ m.index = sizes /\ InTurn(n + j + 1, 1)
            \/ m.type = "data" /\ \E k \in 1..n+j-1 : wire[k].type = "ok"
        BY <2>6, <4>1 DEF Unread
      <4> HIDE DEF m
      <4>5. wire'[j] = m
        BY <4>1 DEF m
      <4>6. (\E k \in 1..n+j-1 : wire[k].type = "ok")
              => \E k \in 1..j-1 : wire'[k].type = "ok"
        BY <4>3
      <4> QED
        BY <4>2, <4>4, <4>5, <4>6
    <3>2. Unread'
      BY <1>2, <3>1 DEF Unread
    <3>3. Fresh(b)'
      BY <2>6 DEF Fresh
    <3> QED
      BY <1>2, <1>6, <3>2, <3>3 DEF FilesInv
  <2>7. CASE Begun(b') /\ InTurn(n + 1, Coming(b')) /\ Answered
    <3>1. InTurn(1, Coming(b))'
      <4>1. b' \in Sockets
        BY <1>3, <1>6, <2>2 DEF Handlings
      <4>2. PICK k \in Int : k = Coming(b')
        BY <4>1, LenProperties DEF Coming, Sockets
      <4>3. InTurn(n + 1, k) /\ n + 1 \in Nat /\ 1 \in Nat /\ 1 >= 1
        BY <1>3, <2>7, <4>2
      <4>4. InTurn(1, k)'
        BY <1>2, <1>3, <4>3, ReadOn
      <4>5. Coming(b)' = k
        BY <4>2 DEF Coming
      <4> QED
        BY <4>4, <4>5 DEF InTurn
    <3>2. Begun(b)' /\ Answered'
      BY <1>2, <2>7 DEF Begun, Answered
    <3> QED
      BY <1>2, <1>6, <3>1, <3>2 DEF FilesInv
  <2> QED
    BY <1>6, <2>2, <2>4, <2>5, <2>6, <2>7 DEF Handled
<1> HIDE DEF r, batch
<1> QED
  BY <1>1, <1>3, <1>4, <1>5, <1>6 DEF r, batch

LEMMA FilesKeepsInv ==
  ASSUME FiskClientAssumption, OrderInv, FilesInv, [Next]_vars PROVE FilesInv'
<1>1. CASE Next
  BY <1>1, FilesLocal, FilesMain, FilesPeers, FilesSent, FilesAnswered, FilesRead
  DEF Next, Main, EnvironmentTaken, SlotComes, LeaveEnvironment, LeaveSlot
<1>2. CASE UNCHANGED vars
  BY <1>2, FilesFrame
  DEF SameFiles, NoMoreRead, Answered, vars, mainVars, builderVars
<1> QED
  BY <1>1, <1>2

(* For any output files and failures, whatever the pieces the response is  *)
(* read in and whoever hangs up when: a run that ends without a local      *)
(* compile has every file of the response, whole and with its own contents *)
(* (BuilderWebSocket.h).                                                   *)
THEOREM RemoteRunsAreWhole == Spec => []RemoteIsWhole
<1>1. Init => OrderInv /\ FilesInv
  BY FiskClientAssumption, OrderInit, FilesInit
<1>2. OrderInv /\ FilesInv /\ [Next]_vars => OrderInv' /\ FilesInv'
  BY FiskClientAssumption, OrderKeepsInv, FilesKeepsInv
<1>3. OrderInv /\ FilesInv => RemoteIsWhole
  <2> SUFFICES ASSUME OrderInv, FilesInv, exit \in {"remote", "cachehit"}
               PROVE  /\ b.done /\ ~b.error /\ b.intact
                      /\ b.files = <<>> /\ b.total = Len(sizes)
    BY DEF RemoteIsWhole
  <2> QED
    BY DEF FilesInv, Fresh, Begun
<1> QED
  BY <1>1, <1>2, <1>3, PTL DEF Spec

-----------------------------------------------------------------------------
(* Before the daemon is connected main() is in its first loop. *)
KeyInv ==
  /\ KeyIsOfSource
  /\ daemon = "connecting" => pc \in {"daemon", "exit"} /\ sched = "none"

LEMMA KeyInit == Init => KeyInv
BY DEF Init, KeyInv, KeyIsOfSource

LEMMA KeyMain == KeyInv /\ Main => KeyInv'
<1> SUFFICES ASSUME KeyInv, Main PROVE KeyInv'
  OBVIOUS
<1> USE DEF KeyInv, KeyIsOfSource, Between, InLoop, Loops, RunLocal, Compile,
            TransitionTo, config
<1>1. CASE LeaveDaemon
  BY <1>1 DEF LeaveDaemon
<1>2. CASE LeavePreprocess
  BY <1>2 DEF LeavePreprocess, Preprocessed, Digest
<1>3. CASE LeaveScheduler
  BY <1>3 DEF LeaveScheduler
<1>4. CASE LeaveBuilder
  BY <1>4 DEF LeaveBuilder
<1>5. CASE Send
  BY <1>5 DEF Send
<1>6. CASE LeaveWait
  BY <1>6 DEF LeaveWait
<1>7. CASE Upload
  BY <1>7 DEF Upload
<1>8. CASE LeaveResponse
  BY <1>8 DEF LeaveResponse
<1>9. CASE Uploaded \/ GoLocal
  BY <1>9 DEF Uploaded, GoLocal
<1> QED
  BY <1>1, <1>2, <1>3, <1>4, <1>5, <1>6, <1>7, <1>8, <1>9
  DEF Main, LeaveEnvironment, LeaveSlot

LEMMA KeyKeepsInv == KeyInv /\ [Next]_vars => KeyInv'
<1> SUFFICES ASSUME KeyInv, [Next]_vars PROVE KeyInv'
  OBVIOUS
<1>1. CASE Main
  BY <1>1, KeyMain
<1> USE DEF KeyInv, KeyIsOfSource, mainVars, config
<1>2. CASE Timeout
  BY <1>2 DEF Timeout
<1>3. CASE DaemonConnects \/ DaemonLost
  BY <1>3 DEF DaemonConnects, DaemonLost
<1>4. CASE ThreadRuns \/ ThreadDone
  BY <1>4 DEF ThreadRuns, ThreadDone
<1>5. CASE SchedulerConnects \/ SchedulerGone
  BY <1>5 DEF SchedulerConnects, SchedulerGone, TransitionTo
<1>6. CASE SchedulerAnswers
  BY <1>6 DEF SchedulerAnswers
<1>7. CASE BuilderConnects \/ BuilderGone \/ Flush
  BY <1>7 DEF BuilderConnects, BuilderGone, Flush
<1>8. CASE OnRead
  BY <1>8 DEF OnRead
<1>9. CASE Start \/ Answer \/ Refuse \/ Heartbeat \/ HangUp
  BY <1>9 DEF Start, Answer, Refuse, Heartbeat, HangUp, Client
<1>11. CASE EnvironmentTaken \/ SlotComes
  BY <1>11 DEF EnvironmentTaken, SlotComes, Uploaded, GoLocal, RunLocal, Compile
<1>10. CASE UNCHANGED vars
  BY <1>10 DEF vars
<1> QED
  BY <1>1, <1>2, <1>3, <1>4, <1>5, <1>6, <1>7, <1>8, <1>9, <1>10, <1>11 DEF Next

(* With the object cache the scheduler is asked for the MD5 of the whole   *)
(* source: main() goes on to it only when the thread that computes it is   *)
(* done, unless the daemon went away (main.cpp, Preprocessed.cpp).         *)
THEOREM KeyFitsSource == Spec => []KeyIsOfSource
<1>1. Spec => []KeyInv
  BY KeyInit, KeyKeepsInv, PTL DEF Spec
<1>2. KeyInv => KeyIsOfSource
  BY DEF KeyInv
<1> QED
  BY <1>1, <1>2, PTL
=============================================================================
