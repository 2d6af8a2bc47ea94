-------------------------- MODULE UacStream_proofs --------------------------
(***************************************************************************)
(* Proofs about UacStream: its inductive invariant, and from it that the   *)
(* records stay in step with TinyUSB's FIFO and that a play reports what   *)
(* the host was sent; a second one on top of it, from which the missed     *)
(* intervals are the frames lost; and a third, from which the device's part*)
(* of them is fair.                                                        *)
(*                                                                         *)
(* top_up() and retire_sent_chunks() are loops, here recursive functions;  *)
(* what they keep is proved by induction, which rests on the least element *)
(* of a set of natural numbers (WFMin).                                    *)
(***************************************************************************)
EXTENDS UacStream, FiniteSetTheorems, WellFoundedInduction, TLAPS

-----------------------------------------------------------------------------
(* Induction over the natural numbers, for sets.                           *)

(* A set of natural numbers that is not empty has a least element.         *)
LEMMA LeastNatural ==
  ASSUME NEW T, T \subseteq Nat, T # {}
  PROVE  \E x \in T : \A y \in T : x =< y
<1>. DEFINE R == OpToRel(<, Nat)
<1>1. IsWellFoundedOn(R, Nat)
  BY NatLessThanWellFounded
<1>2. \A y, x \in Nat : y < x => <<y, x>> \in R
  BY DEF OpToRel
<1>. HIDE DEF R
<1>3. \E x \in T : \A y \in T : <<y, x>> \notin R
  BY <1>1, WFMin
<1>4. PICK x \in T : \A y \in T : <<y, x>> \notin R
  BY <1>3
<1>5. \A y \in T : ~(y < x)
  BY <1>2, <1>4
<1>6. QED
  BY <1>5

(* A set with zero and with every successor of its members has every       *)
(* natural number.                                                         *)
LEMMA SetInduction ==
  ASSUME NEW P, 0 \in P, \A n \in P \cap Nat : n + 1 \in P
  PROVE  Nat \subseteq P
<1>1. SUFFICES ASSUME Nat \ P # {} PROVE FALSE
  OBVIOUS
<1>2. PICK x \in Nat \ P : \A y \in Nat \ P : x =< y
  BY <1>1, LeastNatural
<1>3. x # 0 /\ x - 1 \in Nat
  BY <1>2
<1>4. x - 1 \in P
  BY <1>2, <1>3
<1>5. (x - 1) + 1 = x
  BY <1>2
<1>6. (x - 1) + 1 \in P
  BY <1>3, <1>4
<1>7. QED
  BY <1>2, <1>5, <1>6

-----------------------------------------------------------------------------
(* The arithmetic of an index that wraps.                                  *)

(* An index at most one turn away is brought back by one turn.             *)
LEMMA WrapFacts ==
  ASSUME NEW x \in Int, -Wrap =< x, x < 2 * Wrap
  PROVE  /\ x % Wrap = IF x < 0 THEN x + Wrap ELSE IF x < Wrap THEN x ELSE x - Wrap
         /\ x % Wrap \in Index
<1>1. Wrap \in Nat \ {0}
  BY UacConstants
<1>2. CASE x < 0
  <2>1. (x + Wrap) - Wrap = x
    BY <1>1
  <2>2. x + Wrap \in 0..Wrap - 1
    BY <1>1, <1>2
  <2>3. \A y \in 0..Wrap - 1 : (y - Wrap) % Wrap = y
    BY <1>1
  <2>4. QED
    BY <1>1, <1>2, <2>1, <2>2, <2>3 DEF Index
<1>3. CASE x >= 0 /\ x < Wrap
  BY <1>1, <1>3 DEF Index
<1>4. CASE x >= Wrap
  <2>1. (x - Wrap) + Wrap = x
    BY <1>1
  <2>2. x - Wrap \in 0..Wrap - 1
    BY <1>1, <1>4
  <2>3. \A y \in 0..Wrap - 1 : (y + Wrap) % Wrap = y
    BY <1>1
  <2>4. QED
    BY <1>1, <1>4, <2>1, <2>2, <2>3 DEF Index
<1>5. QED
  BY <1>1, <1>2, <1>3, <1>4

(* The same of every such index at once.                                   *)
Turn(x) == x % Wrap

LEMMA Wraps ==
  /\ Wrap \in Nat \ {0} /\ \A x : x \in Index <=> x \in Int /\ 0 =< x /\ x < Wrap
  /\ \A x \in Int : -Wrap =< x /\ x < 2 * Wrap =>
       Turn(x) = IF x < 0 THEN x + Wrap ELSE IF x < Wrap THEN x ELSE x - Wrap
<1>1. ASSUME NEW x \in Int, -Wrap =< x, x < 2 * Wrap
      PROVE  Turn(x) = IF x < 0 THEN x + Wrap ELSE IF x < Wrap THEN x ELSE x - Wrap
  BY <1>1, WrapFacts DEF Turn
<1>2. Wrap \in Nat \ {0} /\ \A x : x \in Index <=> x \in Int /\ 0 =< x /\ x < Wrap
  BY UacConstants DEF Index
<1>3. QED
  BY <1>1, <1>2

(* Counting up from an index, and back.                                    *)
LEMMA CountUp ==
  ASSUME NEW a \in Index, NEW n \in Nat, n < Wrap
  PROVE  /\ (a + n) % Wrap \in Index
         /\ (((a + n) % Wrap) + 1) % Wrap = (a + n + 1) % Wrap
         /\ (((a + n) % Wrap) - a) % Wrap = n
         /\ (a - ((a + n) % Wrap)) % Wrap = IF n = 0 THEN 0 ELSE Wrap - n
<1>. DEFINE c == Turn(a + n)
<1>1. a \in Int /\ 0 =< a /\ a < Wrap /\ Wrap \in Nat \ {0}
  BY Wraps
<1>2. c = IF a + n < Wrap THEN a + n ELSE a + n - Wrap
  BY <1>1, Wraps
<1>3. Turn(a + n + 1) = IF a + n + 1 < Wrap THEN a + n + 1 ELSE a + n + 1 - Wrap
  BY <1>1, Wraps
<1>. HIDE DEF c
<1>4. c \in Int /\ 0 =< c /\ c < Wrap
  BY <1>1, <1>2
<1>5. Turn(c + 1) = IF c + 1 < Wrap THEN c + 1 ELSE c + 1 - Wrap
  BY <1>1, <1>4, Wraps
<1>6. Turn(c - a) = IF c < a THEN c - a + Wrap ELSE c - a
  BY <1>1, <1>4, Wraps
<1>7. Turn(a - c) = IF a < c THEN a - c + Wrap ELSE a - c
  BY <1>1, <1>4, Wraps
<1>8. c \in Index /\ Turn(c + 1) = Turn(a + n + 1) /\ Turn(c - a) = n
  BY <1>1, <1>2, <1>3, <1>4, <1>5, <1>6, Wraps
<1>9. Turn(a - c) = IF n = 0 THEN 0 ELSE Wrap - n
  BY <1>1, <1>2, <1>4, <1>7
<1>10. QED
  BY <1>8, <1>9 DEF c, Turn

(* An index that has not reached a target is one step later at the target  *)
(* or has still not reached it.                                            *)
LEMMA ReachedAtTarget ==
  ASSUME NEW a \in Index, NEW b \in Index, ~IndexReached(a, b)
  PROVE  (a + 1) % Wrap = b \/ ~IndexReached((a + 1) % Wrap, b)
<1>. DEFINE h == Wrap \div 2
            c == Turn(a + 1)
<1>1. a \in Int /\ 0 =< a /\ a < Wrap /\ b \in Int /\ 0 =< b /\ b < Wrap /\ Wrap \in Nat \ {0}
  BY Wraps
<1>2. h \in Nat
  BY <1>1
<1>3. ~(Turn(a - b) < h)
  BY DEF IndexReached, Turn
<1>. HIDE DEF h
<1>4. c = IF a + 1 < Wrap THEN a + 1 ELSE 0
  BY <1>1, Wraps
<1>5. Turn(a - b) = IF a < b THEN a - b + Wrap ELSE a - b
  BY <1>1, Wraps
<1>. HIDE DEF c
<1>6. c \in Int /\ 0 =< c /\ c < Wrap
  BY <1>1, <1>4
<1>7. Turn(c - b) = IF c < b THEN c - b + Wrap ELSE c - b
  BY <1>1, <1>6, Wraps
<1>8. c = b \/ ~(Turn(c - b) < h)
  BY <1>1, <1>2, <1>3, <1>4, <1>5, <1>7
<1>9. QED
  BY <1>8 DEF IndexReached, Turn, h, c

-----------------------------------------------------------------------------
(* The file chunks among the records.                                      *)

Record == [start : Index, file : 0..1]
FileAt(records) == {i \in DOMAIN records : records[i].file = 1}
FileCount(records) == Cardinality(FileAt(records))

LEMMA FileCountFacts ==
  ASSUME NEW records \in Seq(Record)
  PROVE  /\ IsFiniteSet(FileAt(records))
         /\ FileCount(records) \in 0..Len(records)
         /\ FileCount(records) = 0 <=> \A i \in DOMAIN records : records[i].file = 0
<1>. DEFINE n == Len(records)
<1>0. n \in Nat
  OBVIOUS
<1>1. IsFiniteSet(1..n) /\ Cardinality(1..n) = n
  <2>. HIDE DEF n
  <2>1. IsFiniteSet(1..n) /\ Cardinality(1..n) = IF 1 > n THEN 0 ELSE n - 1 + 1
    BY <1>0, FS_Interval
  <2>2. QED
    BY <1>0, <2>1
<1>2. FileAt(records) \subseteq 1..Len(records)
  BY DEF FileAt
<1>3. /\ IsFiniteSet(FileAt(records))
      /\ Cardinality(FileAt(records)) =< Len(records)
  BY <1>1, <1>2, FS_Subset
<1>4. Cardinality(FileAt(records)) \in Nat
  BY <1>3, FS_CardinalityType
<1>5. Cardinality(FileAt(records)) = 0 <=> FileAt(records) = {}
  BY <1>3, FS_EmptySet
<1>6. \A i \in DOMAIN records : records[i].file \in 0..1
  <2>1. \A i \in DOMAIN records : records[i] \in Record
    OBVIOUS
  <2>2. \A r \in Record : r.file \in 0..1
    BY DEF Record
  <2>3. QED
    BY <2>1, <2>2
<1>7. FileAt(records) = {} <=> \A i \in DOMAIN records : records[i].file = 0
  BY <1>6 DEF FileAt
<1>8. QED
  BY <1>3, <1>4, <1>5, <1>7 DEF FileCount

LEMMA FileCountAppend ==
  ASSUME NEW records \in Seq(Record), NEW r \in Record
  PROVE  FileCount(Append(records, r)) = FileCount(records) + r.file
<1>. DEFINE n == Len(records) + 1
            a == Append(records, r)
<1>1. n \notin FileAt(records)
  BY DEF FileAt
<1>2. IsFiniteSet(FileAt(records)) /\ FileCount(records) \in Nat
  BY FileCountFacts
<1>3. a[n] = r /\ DOMAIN a = 1..n /\ \A i \in DOMAIN records : i \in DOMAIN a /\ a[i] = records[i] /\ i # n
  OBVIOUS
<1>4. r.file \in 0..1
  BY DEF Record
<1>. HIDE DEF n, a
<1>5. DOMAIN a = DOMAIN records \cup {n}
  BY <1>3 DEF n
<1>6. CASE r.file = 1
  <2>1. FileAt(a) = FileAt(records) \cup {n}
    BY <1>3, <1>5, <1>6 DEF FileAt
  <2>2. QED
    BY <1>1, <1>2, <1>6, <2>1, FS_AddElement DEF FileCount, a
<1>7. CASE r.file = 0
  <2>1. FileAt(a) = FileAt(records)
    <3>1. a[n].file # 1
      BY <1>3, <1>7
    <3>2. \A i \in DOMAIN records : a[i].file = records[i].file
      BY <1>3
    <3>3. QED
      BY <1>5, <3>1, <3>2 DEF FileAt
  <2>2. QED
    BY <1>2, <1>7, <2>1 DEF FileCount, a
<1>8. QED
  BY <1>4, <1>6, <1>7

LEMMA FileCountTail ==
  ASSUME NEW records \in Seq(Record), records # << >>
  PROVE  FileCount(records) = FileCount(Tail(records)) + Head(records).file
<1>. DEFINE t == Tail(records)
            A == FileAt(records)
            B == FileAt(t)
            C == A \ {1}
            f == [i \in B |-> i + 1]
<1>1. /\ t \in Seq(Record) /\ Len(t) = Len(records) - 1 /\ Len(records) \in Nat \ {0}
      /\ \A i \in 1..Len(records) - 1 : t[i] = records[i + 1]
      /\ Head(records) = records[1] /\ records[1] \in Record
  OBVIOUS
<1>2. IsFiniteSet(A) /\ IsFiniteSet(B) /\ FileCount(t) \in Nat
  <2>. HIDE DEF t
  <2>1. QED
    BY <1>1, FileCountFacts
<1>3. f \in Bijection(B, C)
  <2>1. \A i \in B : i \in 1..Len(records) - 1 /\ i + 1 \in C
    BY <1>1 DEF FileAt
  <2>2. \A j \in C : j - 1 \in B /\ j \in Int
    BY <1>1 DEF FileAt
  <2>3. \A i \in B : i \in Int
    BY <2>1
  <2>. HIDE DEF B, C
  <2>4. f \in [B -> C] /\ \A i \in B : f[i] = i + 1
    BY <2>1
  <2>5. \A i, k \in B : f[i] = f[k] => i = k
    BY <2>3, <2>4
  <2>6. \A j \in C : f[j - 1] = j /\ j - 1 \in B
    BY <2>2, <2>4
  <2>. HIDE DEF f
  <2>7. f \in Injection(B, C)
    BY <2>4, <2>5 DEF Injection, IsInjective
  <2>8. f \in Surjection(B, C)
    BY <2>4, <2>6 DEF Surjection
  <2>9. QED
    BY <2>7, <2>8 DEF Bijection
<1>4. Cardinality(C) = FileCount(t) /\ IsFiniteSet(C)
  <2>1. ExistsBijection(B, C)
    BY <1>3 DEF ExistsBijection
  <2>2. QED
    BY <1>2, <2>1, FS_Bijection DEF FileCount
<1>5. records[1].file \in 0..1 /\ 1 \in DOMAIN records
  BY <1>1 DEF Record
<1>6. CASE records[1].file = 1
  <2>1. A = C \cup {1} /\ 1 \notin C
    BY <1>5, <1>6 DEF FileAt
  <2>. HIDE DEF A, B, C, t
  <2>2. Cardinality(A) = Cardinality(C) + 1
    BY <1>4, <2>1, FS_AddElement
  <2>3. QED
    BY <1>1, <1>4, <1>6, <2>2 DEF FileCount, A, t
<1>7. CASE records[1].file = 0
  <2>1. A = C
    BY <1>7 DEF FileAt
  <2>. HIDE DEF C, t
  <2>2. QED
    BY <1>1, <1>2, <1>4, <1>7, <2>1 DEF FileCount, t
<1>8. QED
  BY <1>5, <1>6, <1>7

-----------------------------------------------------------------------------
(* A stream that is not closed, with its FIFO: s is as top_up() and the    *)
(* completion handle it, loaded the packet TinyUSB holds, target the index *)
(* where the play is to start.  Each of these restates a part of UacInv.   *)

Off(loaded) == IF loaded = Zlp THEN 0 ELSE 1

Shaped(s, loaded) ==
  /\ s.stream \in StreamType /\ s.play \in PlayType /\ s.left \in {Unarmed} \cup 0..FileChunks
  /\ s.fifo \in Seq(Chunk) /\ loaded \in Chunk \cup {Zlp}
  /\ s.stream.state # "closed"
  /\ Len(s.stream.records) =< Capacity /\ Len(s.fifo) =< Target

Paired(s, loaded) ==
  /\ Len(s.stream.records) = Off(loaded) + Len(s.fifo)
  /\ loaded # Zlp => (s.stream.records[1].file = 1 <=> loaded = s.play.id)
  /\ \A i \in 1..Len(s.fifo) : s.stream.records[Off(loaded) + i].file = 1 <=> s.fifo[i] = s.play.id

Indexed(s) ==
  /\ s.stream.queued = (s.stream.sent + Len(s.stream.records)) % Wrap
  /\ \A i \in 1..Len(s.stream.records) : s.stream.records[i].start = (s.stream.sent + i - 1) % Wrap

Owned(s) ==
  /\ s.play.pending = FileCount(s.stream.records)
  /\ s.play.opens =< s.stream.opens
  /\ s.play.opens # s.stream.opens => ~s.play.armed /\ s.play.pending = 0
  /\ \A i \in 1..Len(s.fifo) : s.fifo[i] =< s.play.id

Shared(s) ==
  /\ s.left > 0 => s.play.armed
  /\ s.play.armed => s.left # Unarmed
  /\ s.left = Unarmed => s.play.file = 0 /\ s.play.pending = 0
  /\ s.play.file + s.play.pending + (IF s.left > 0 THEN s.left ELSE 0) =< FileChunks

Timely(s) ==
  s.play.armed /\ s.play.start # NoStart =>
    s.left > 0 /\ (s.play.start = s.stream.queued \/ ~IndexReached(s.stream.queued, s.play.start))

OnTarget(s, target) ==
  target # NoStart =>
    /\ s.left # Unarmed
    /\ s.play.armed => IF s.play.start = NoStart THEN s.play.pending # 0 ELSE s.play.start = target /\ s.play.pending = 0
    /\ \A i \in 1..Len(s.stream.records) :
         /\ s.stream.records[i].file = 1
         /\ \A j \in 1..i - 1 : s.stream.records[j].file = 0
         => s.stream.records[i].start = target

Linked(s, loaded, target) ==
  Shaped(s, loaded) /\ Paired(s, loaded) /\ Indexed(s) /\ Owned(s) /\ Shared(s) /\ Timely(s) /\ OnTarget(s, target)

(* What a chunk queued leaves alone.                                       *)
Same(s, q) ==
  /\ q.stream.state = s.stream.state /\ q.stream.configured = s.stream.configured /\ q.stream.opens = s.stream.opens
  /\ q.stream.sent = s.stream.sent /\ q.stream.inFlight = s.stream.inFlight
  /\ q.play.id = s.play.id /\ q.play.opens = s.play.opens /\ q.play.armed = s.play.armed /\ q.play.file = s.play.file
  /\ q.play.mismatched = s.play.mismatched /\ q.play.missed = s.play.missed /\ q.play.judged = s.play.judged
  /\ q.play.unprimed = s.play.unprimed

-----------------------------------------------------------------------------
(* queue_chunk().                                                          *)

(* The fields of the state after a chunk.                                  *)
LEMMA QueuedFields ==
  ASSUME NEW s, NEW loaded, Shaped(s, loaded), NEW file, file = IF Fills(s) THEN 1 ELSE 0,
         NEW q, q = QueueChunk(s)
  PROVE  /\ q.stream \in StreamType /\ q.play \in PlayType /\ q.left \in {Unarmed} \cup 0..FileChunks /\ q.fifo \in Seq(Chunk)
         /\ Same(s, q) /\ file \in 0..1
         /\ q.stream.records = Append(s.stream.records, [start |-> s.stream.queued, file |-> file])
         /\ q.stream.queued = (s.stream.queued + 1) % Wrap
         /\ q.play.pending = s.play.pending + file
         /\ q.play.start = IF s.play.armed /\ StartReached(s) THEN NoStart ELSE s.play.start
         /\ q.fifo = Append(s.fifo, IF file = 1 THEN s.play.id ELSE Silence)
         /\ q.left = s.left - file
<1>1. /\ s.stream \in StreamType /\ s.play \in PlayType /\ s.left \in {Unarmed} \cup 0..FileChunks /\ s.fifo \in Seq(Chunk)
  BY DEF Shaped
<1>2. file \in 0..1 /\ (file = 1 <=> Fills(s))
  OBVIOUS
<1>3. /\ q.stream = [s.stream EXCEPT !.records = Append(@, [start |-> s.stream.queued, file |-> file]),
                                     !.queued = (@ + 1) % Wrap]
      /\ q.play = [s.play EXCEPT !.pending = @ + file,
                                 !.start = IF s.play.armed /\ StartReached(s) THEN NoStart ELSE @]
      /\ q.fifo = Append(s.fifo, IF file = 1 THEN s.play.id ELSE Silence)
      /\ q.left = s.left - file
  BY DEF QueueChunk
<1>4. /\ s.stream.queued \in Index /\ s.stream.records \in Seq(Record) /\ s.play.id \in Nat /\ s.play.pending \in Nat
      /\ s.play.start \in Index \cup {NoStart}
  BY <1>1, UacConstants DEF StreamType, PlayType, Record
<1>5. (s.stream.queued + 1) % Wrap \in Index
  <2>. DEFINE n == s.stream.queued + 1
  <2>1. n \in Int /\ -Wrap =< n /\ n < 2 * Wrap
    BY <1>4, UacConstants DEF Index
  <2>. HIDE DEF n
  <2>2. n % Wrap \in Index
    BY <2>1, WrapFacts
  <2>3. QED
    BY <2>2 DEF n
<1>6. Append(s.stream.records, [start |-> s.stream.queued, file |-> file]) \in Seq(Record)
  <2>1. [start |-> s.stream.queued, file |-> file] \in Record
    BY <1>2, <1>4 DEF Record
  <2>2. QED
    BY <1>4, <2>1
<1>7. q.stream \in StreamType
  <2>. DEFINE rs == Append(s.stream.records, [start |-> s.stream.queued, file |-> file])
              n == (s.stream.queued + 1) % Wrap
  <2>1. rs \in Seq([start : Index, file : 0..1]) /\ n \in Index
    BY <1>5, <1>6 DEF Record
  <2>2. q.stream = [s.stream EXCEPT !.records = rs, !.queued = n]
    BY <1>3
  <2>. HIDE DEF rs, n
  <2>3. QED
    BY <1>1, <2>1, <2>2 DEF StreamType
<1>8. q.play \in PlayType
  <2>. DEFINE p == s.play.pending + file
              b == IF s.play.armed /\ StartReached(s) THEN NoStart ELSE s.play.start
  <2>1. p \in Nat /\ b \in Index \cup {NoStart}
    BY <1>2, <1>4
  <2>2. q.play = [s.play EXCEPT !.pending = p, !.start = b]
    BY <1>3
  <2>. HIDE DEF p, b
  <2>3. QED
    BY <1>1, <2>1, <2>2 DEF PlayType
<1>9. q.left \in {Unarmed} \cup 0..FileChunks
  <2>1. CASE file = 1
    <3>1. s.left > 0
      BY <1>2, <2>1 DEF Fills
    <3>2. QED
      BY <1>1, <1>3, <2>1, <3>1, UacConstants DEF Unarmed
  <2>2. CASE file = 0
    BY <1>1, <1>3, <2>2, UacConstants DEF Unarmed
  <2>3. QED
    BY <1>2, <2>1, <2>2
<1>10. q.fifo \in Seq(Chunk)
  <2>1. (IF file = 1 THEN s.play.id ELSE Silence) \in Chunk
    BY <1>4 DEF Chunk
  <2>2. QED
    BY <1>1, <1>3, <2>1
<1>11. Same(s, q)
  <2>1. /\ q.stream.state = s.stream.state /\ q.stream.configured = s.stream.configured /\ q.stream.opens = s.stream.opens
        /\ q.stream.sent = s.stream.sent /\ q.stream.inFlight = s.stream.inFlight
    BY <1>1, <1>3 DEF StreamType
  <2>2. /\ q.play.id = s.play.id /\ q.play.opens = s.play.opens /\ q.play.armed = s.play.armed /\ q.play.file = s.play.file
        /\ q.play.mismatched = s.play.mismatched /\ q.play.missed = s.play.missed /\ q.play.judged = s.play.judged
        /\ q.play.unprimed = s.play.unprimed
    BY <1>1, <1>3 DEF PlayType
  <2>3. QED
    BY <2>1, <2>2 DEF Same
<1>12. /\ q.stream.records = Append(s.stream.records, [start |-> s.stream.queued, file |-> file])
       /\ q.stream.queued = (s.stream.queued + 1) % Wrap
  BY <1>1, <1>3 DEF StreamType
<1>13. /\ q.play.pending = s.play.pending + file
       /\ q.play.start = IF s.play.armed /\ StartReached(s) THEN NoStart ELSE s.play.start
  BY <1>1, <1>3 DEF PlayType
<1>14. QED
  BY <1>2, <1>3, <1>7, <1>8, <1>9, <1>10, <1>11, <1>12, <1>13

(* A chunk queued when there is room keeps the stream linked: the chunk    *)
(* behind all others gets the record behind all others, and the first file *)
(* chunk of a play is the one at its start.                                *)
LEMMA QueueKeeps ==
  ASSUME NEW s, NEW loaded, NEW target \in Int, Linked(s, loaded, target), HasRoom(s)
  PROVE  Linked(QueueChunk(s), loaded, target) /\ Same(s, QueueChunk(s))
<1>. DEFINE q == QueueChunk(s)
            file == IF Fills(s) THEN 1 ELSE 0
            new == [start |-> s.stream.queued, file |-> file]
            rs == s.stream.records
            n == Len(rs)
            m == Len(s.fifo)
<1>1. /\ q.stream \in StreamType /\ q.play \in PlayType /\ q.left \in {Unarmed} \cup 0..FileChunks /\ q.fifo \in Seq(Chunk)
      /\ Same(s, q) /\ file \in 0..1
      /\ q.stream.records = Append(rs, new)
      /\ q.stream.queued = (s.stream.queued + 1) % Wrap
      /\ q.play.pending = s.play.pending + file
      /\ q.play.start = IF s.play.armed /\ StartReached(s) THEN NoStart ELSE s.play.start
      /\ q.fifo = Append(s.fifo, IF file = 1 THEN s.play.id ELSE Silence)
      /\ q.left = s.left - file
  <2>1. Shaped(s, loaded)
    BY DEF Linked
  <2>. HIDE DEF q, file
  <2>2. file = IF Fills(s) THEN 1 ELSE 0
    BY DEF file
  <2>3. q = QueueChunk(s)
    BY DEF q
  <2>4. QED
    BY <2>1, <2>2, <2>3, QueuedFields
<1>2. /\ Shaped(s, loaded) /\ Paired(s, loaded) /\ Indexed(s) /\ Owned(s) /\ Shared(s) /\ Timely(s) /\ OnTarget(s, target)
      /\ n < Capacity /\ m < Target
  BY DEF Linked, HasRoom
<1>3. /\ rs \in Seq(Record) /\ s.fifo \in Seq(Chunk) /\ s.stream.queued \in Index /\ s.stream.sent \in Index /\ s.play.id \in Nat
      /\ s.play.pending \in Nat /\ s.play.file \in Nat /\ s.left \in {Unarmed} \cup 0..FileChunks
      /\ s.play.start \in Index \cup {NoStart} /\ s.play.armed \in BOOLEAN /\ loaded \in Chunk \cup {Zlp} /\ s.stream.state # "closed"
      /\ s.stream.opens \in Nat /\ s.play.opens \in Nat
  <2>1. /\ s.stream \in StreamType /\ s.play \in PlayType /\ s.left \in {Unarmed} \cup 0..FileChunks /\ s.fifo \in Seq(Chunk)
        /\ loaded \in Chunk \cup {Zlp} /\ s.stream.state # "closed"
    BY <1>2 DEF Shaped
  <2>2. s.stream.records \in Seq(Record) /\ s.stream.queued \in Index /\ s.stream.sent \in Index /\ s.stream.opens \in Nat
    BY <2>1, UacConstants DEF StreamType, Record
  <2>3. /\ s.play.id \in Nat /\ s.play.pending \in Nat /\ s.play.file \in Nat /\ s.play.start \in Index \cup {NoStart}
        /\ s.play.armed \in BOOLEAN /\ s.play.opens \in Nat
    BY <2>1, UacConstants DEF PlayType
  <2>4. QED
    BY <2>1, <2>2, <2>3
<1>4. n \in Nat /\ m \in Nat /\ Index \subseteq Int /\ Off(loaded) \in 0..1
  <2>1. n \in Nat /\ m \in Nat
    BY <1>3
  <2>2. Index \subseteq Int
    BY Wraps
  <2>3. Off(loaded) \in 0..1
    BY DEF Off
  <2>4. QED
    BY <2>1, <2>2, <2>3
<1>5. file = 1 <=> s.play.armed /\ StartReached(s) /\ s.left > 0
  BY DEF Fills
<1>6. /\ new.file = file /\ new.start = s.stream.queued /\ new \in Record
  BY <1>1, <1>3 DEF Record
<1>. HIDE DEF file, new, q
<1>7. /\ Len(q.stream.records) = n + 1 /\ q.stream.records[n + 1] = new
      /\ \A i \in 1..n : q.stream.records[i] = rs[i]
  BY <1>1, <1>3, <1>6
<1>8. /\ Len(q.fifo) = m + 1 /\ q.fifo[m + 1] = (IF file = 1 THEN s.play.id ELSE Silence)
      /\ \A i \in 1..m : q.fifo[i] = s.fifo[i]
  <2>1. (IF file = 1 THEN s.play.id ELSE Silence) \in Chunk
    BY <1>3 DEF Chunk
  <2>2. QED
    BY <1>1, <1>3, <2>1
<1>9. Shaped(q, loaded)
  <2>1. q.stream.state # "closed"
    BY <1>1, <1>3 DEF Same
  <2>2. QED
    BY <1>1, <1>2, <1>3, <1>4, <1>7, <1>8, <2>1, UacConstants DEF Shaped
<1>10. q.play.id = s.play.id /\ q.play.file = s.play.file /\ q.play.armed = s.play.armed /\ q.play.opens = s.play.opens
       /\ q.stream.sent = s.stream.sent /\ q.stream.opens = s.stream.opens
  BY <1>1 DEF Same
<1>11. Paired(q, loaded)
  <2>1. n = Off(loaded) + m
    BY <1>2 DEF Paired
  <2>2. Len(q.stream.records) = Off(loaded) + Len(q.fifo)
    BY <1>4, <1>7, <1>8, <2>1
  <2>3. loaded # Zlp => (q.stream.records[1].file = 1 <=> loaded = q.play.id)
    <3>1. SUFFICES ASSUME loaded # Zlp PROVE q.stream.records[1].file = 1 <=> loaded = q.play.id
      OBVIOUS
    <3>2. n >= 1
      BY <1>4, <2>1, <3>1 DEF Off
    <3>3. q.stream.records[1] = rs[1]
      BY <1>4, <1>7, <3>2
    <3>4. QED
      BY <1>2, <1>10, <3>1, <3>3 DEF Paired
  <2>4. ASSUME NEW i \in 1..Len(q.fifo)
        PROVE  q.stream.records[Off(loaded) + i].file = 1 <=> q.fifo[i] = q.play.id
    <3>1. CASE i = m + 1
      <4>1. q.stream.records[Off(loaded) + i] = new
        BY <1>4, <1>7, <2>1, <3>1
      <4>2. q.fifo[i] = s.play.id <=> file = 1
        BY <1>3, <1>8, <3>1 DEF Silence
      <4>3. QED
        BY <1>6, <1>10, <4>1, <4>2
    <3>2. CASE i \in 1..m
      <4>1. Off(loaded) + i \in 1..n
        <5>. HIDE DEF rs, n, m
        <5>1. QED
          BY <1>4, <2>1, <3>2
      <4>2. q.stream.records[Off(loaded) + i] = rs[Off(loaded) + i] /\ q.fifo[i] = s.fifo[i]
        BY <1>7, <1>8, <3>2, <4>1
      <4>3. QED
        BY <1>2, <1>10, <3>2, <4>2 DEF Paired
    <3>3. i = m + 1 \/ i \in 1..m
      BY <1>4, <1>8
    <3>4. QED
      BY <3>1, <3>2, <3>3
  <2>5. QED
    BY <2>2, <2>3, <2>4 DEF Paired
<1>12. Indexed(q)
  <2>. DEFINE sent == s.stream.sent
  <2>1. sent \in Index /\ s.stream.queued = (sent + n) % Wrap
    BY <1>2, <1>3 DEF Indexed
  <2>2. n < Wrap
    <3>. HIDE DEF rs, n
    <3>1. QED
      BY <1>2, <1>4, UacConstants
  <2>3. (s.stream.queued + 1) % Wrap = (sent + n + 1) % Wrap
    <3>. HIDE DEF sent, rs, n
    <3>1. QED
      BY <1>4, <2>1, <2>2, CountUp
  <2>4. q.stream.sent + Len(q.stream.records) = sent + n + 1
    <3>1. sent \in Int
      BY <1>4, <2>1
    <3>2. q.stream.sent = sent
      BY <1>10
    <3>3. Len(q.stream.records) = n + 1 /\ n \in Nat
      BY <1>4, <1>7
    <3>. HIDE DEF rs, n, q, sent
    <3>4. QED
      BY <3>1, <3>2, <3>3
  <2>5. q.stream.queued = (q.stream.sent + Len(q.stream.records)) % Wrap
    BY <1>1, <2>3, <2>4
  <2>7. ASSUME NEW i \in 1..Len(q.stream.records)
        PROVE  q.stream.records[i].start = (q.stream.sent + i - 1) % Wrap
    <3>1. CASE i = n + 1
      <4>1. sent + i - 1 = sent + n
        BY <1>4, <2>1, <3>1 DEF Index
      <4>2. QED
        BY <1>6, <1>7, <1>10, <2>1, <3>1, <4>1
    <3>2. CASE i \in 1..n
      BY <1>2, <1>7, <1>10, <3>2 DEF Indexed
    <3>3. i = n + 1 \/ i \in 1..n
      BY <1>4, <1>7
    <3>4. QED
      BY <3>1, <3>2, <3>3
  <2>8. QED
    BY <2>5, <2>7 DEF Indexed
<1>13. Owned(q)
  <2>1. FileCount(q.stream.records) = FileCount(rs) + file
    BY <1>1, <1>3, <1>6, FileCountAppend
  <2>2. q.play.pending = FileCount(q.stream.records)
    BY <1>1, <1>2, <2>1 DEF Owned
  <2>3. q.play.opens =< q.stream.opens
    BY <1>2, <1>10 DEF Owned
  <2>4. q.play.opens # q.stream.opens => ~q.play.armed /\ q.play.pending = 0
    <3>1. SUFFICES ASSUME s.play.opens # s.stream.opens PROVE ~q.play.armed /\ q.play.pending = 0
      BY <1>10
    <3>2. ~s.play.armed /\ s.play.pending = 0
      BY <1>2, <3>1 DEF Owned
    <3>3. file = 0
      BY <1>1, <1>5, <3>2
    <3>4. QED
      BY <1>1, <1>10, <3>2, <3>3
  <2>5. \A i \in 1..Len(q.fifo) : q.fifo[i] =< q.play.id
    <3>1. q.fifo[m + 1] =< q.play.id
      BY <1>3, <1>8, <1>10 DEF Silence
    <3>2. \A i \in 1..m : q.fifo[i] =< q.play.id
      BY <1>2, <1>8, <1>10 DEF Owned
    <3>3. QED
      BY <1>4, <1>8, <3>1, <3>2
  <2>6. QED
    BY <2>2, <2>3, <2>4, <2>5 DEF Owned
<1>14. Shared(q)
  <2>. DEFINE l == s.left
              f == s.play.file
              c == s.play.pending
  <2>1. file = 1 => l > 0 /\ s.play.armed
    BY <1>5
  <2>2. /\ l > 0 => s.play.armed
        /\ s.play.armed => l # Unarmed
        /\ l = Unarmed => f = 0 /\ c = 0
        /\ f + c + (IF l > 0 THEN l ELSE 0) =< FileChunks
    BY <1>2 DEF Shared
  <2>3. l \in {Unarmed} \cup 0..FileChunks /\ f \in Nat /\ c \in Nat /\ FileChunks \in Nat /\ file \in 0..1
    BY <1>1, <1>3, UacConstants
  <2>4. q.left = l - file /\ q.play.file = f /\ q.play.pending = c + file /\ q.play.armed = s.play.armed
    BY <1>1, <1>10
  <2>. HIDE DEF l, f, c
  <2>5. /\ l - file > 0 => s.play.armed
        /\ s.play.armed => l - file # Unarmed
        /\ l - file = Unarmed => f = 0 /\ c + file = 0
        /\ f + (c + file) + (IF l - file > 0 THEN l - file ELSE 0) =< FileChunks
    BY <2>1, <2>2, <2>3 DEF Unarmed
  <2>6. QED
    BY <2>4, <2>5 DEF Shared
<1>15. s.play.armed /\ s.play.start # NoStart /\ StartReached(s) => s.play.start = s.stream.queued /\ file = 1
  BY <1>2, <1>5 DEF Timely, StartReached
<1>16. Timely(q)
  <2>1. SUFFICES ASSUME q.play.armed, q.play.start # NoStart
                 PROVE  q.left > 0 /\ (q.play.start = q.stream.queued \/ ~IndexReached(q.stream.queued, q.play.start))
    BY DEF Timely
  <2>2. ~StartReached(s) /\ q.play.start = s.play.start /\ s.play.armed
    BY <1>1, <1>10, <2>1
  <2>3. file = 0 /\ q.left = s.left
    BY <1>1, <1>3, <1>5, <2>2 DEF Unarmed
  <2>4. ~IndexReached(s.stream.queued, s.play.start) /\ s.play.start \in Index
    BY <1>3, <2>1, <2>2 DEF StartReached
  <2>5. q.play.start = q.stream.queued \/ ~IndexReached(q.stream.queued, q.play.start)
    BY <1>1, <1>3, <2>2, <2>4, ReachedAtTarget
  <2>6. s.left > 0
    BY <1>2, <2>1, <2>2 DEF Timely
  <2>7. QED
    BY <2>3, <2>5, <2>6
<1>17. OnTarget(q, target)
  <2>1. SUFFICES ASSUME target # NoStart PROVE OnTarget(q, target)
    BY DEF OnTarget
  <2>2. /\ s.left # Unarmed
        /\ s.play.armed => IF s.play.start = NoStart THEN s.play.pending # 0 ELSE s.play.start = target /\ s.play.pending = 0
        /\ \A i \in 1..n : /\ rs[i].file = 1
                           /\ \A j \in 1..i - 1 : rs[j].file = 0
                           => rs[i].start = target
    BY <1>2, <2>1 DEF OnTarget
  <2>3. q.left # Unarmed
    BY <1>1, <1>3, <1>5, <2>2, UacConstants DEF Unarmed
  <2>4. q.play.armed => IF q.play.start = NoStart THEN q.play.pending # 0 ELSE q.play.start = target /\ q.play.pending = 0
    <3>1. SUFFICES ASSUME s.play.armed
                   PROVE  IF q.play.start = NoStart THEN q.play.pending # 0 ELSE q.play.start = target /\ q.play.pending = 0
      BY <1>10
    <3>2. CASE s.play.start = NoStart
      <4>1. q.play.start = NoStart /\ q.play.pending # 0
        BY <1>1, <1>3, <2>2, <3>1, <3>2
      <4>2. QED
        BY <4>1
    <3>3. CASE s.play.start # NoStart /\ StartReached(s)
      <4>1. q.play.start = NoStart /\ q.play.pending # 0
        BY <1>1, <1>3, <1>15, <3>1, <3>3
      <4>2. QED
        BY <4>1
    <3>4. CASE s.play.start # NoStart /\ ~StartReached(s)
      <4>1. q.play.start = s.play.start /\ file = 0
        BY <1>1, <1>5, <3>4
      <4>2. q.play.pending = 0
        BY <1>1, <1>3, <2>2, <3>1, <3>4, <4>1
      <4>3. QED
        BY <2>2, <3>1, <3>4, <4>1, <4>2
    <3>5. QED
      BY <3>2, <3>3, <3>4
  <2>5. ASSUME NEW i \in 1..Len(q.stream.records), q.stream.records[i].file = 1,
               \A j \in 1..i - 1 : q.stream.records[j].file = 0
        PROVE  q.stream.records[i].start = target
    <3>1. CASE i \in 1..n
      <4>1. \A j \in 1..i - 1 : rs[j].file = 0
        <5>1. ASSUME NEW j \in 1..i - 1 PROVE rs[j].file = 0
          <6>1. j \in 1..n
            BY <1>4, <3>1
          <6>2. q.stream.records[j].file = 0
            BY <2>5
          <6>3. q.stream.records[j] = rs[j]
            BY <1>7, <6>1
          <6>4. QED
            BY <6>2, <6>3
        <5>2. QED
          BY <5>1
      <4>2. QED
        BY <1>7, <2>2, <2>5, <3>1, <4>1
    <3>2. CASE i = n + 1
      <4>1. \A j \in 1..n : rs[j].file = 0
        <5>1. ASSUME NEW j \in 1..n PROVE rs[j].file = 0
          <6>1. j \in 1..i - 1
            BY <1>4, <3>2
          <6>2. q.stream.records[j].file = 0
            BY <2>5, <6>1
          <6>3. q.stream.records[j] = rs[j]
            BY <1>7
          <6>4. QED
            BY <6>2, <6>3
        <5>2. QED
          BY <5>1
      <4>2. s.play.pending = 0
        <5>0. DOMAIN rs = 1..n
          BY <1>3
        <5>. HIDE DEF rs
        <5>1. \A j \in DOMAIN rs : rs[j].file = 0
          BY <4>1, <5>0
        <5>2. FileCount(rs) = 0
          BY <1>3, <5>1, FileCountFacts
        <5>3. QED
          BY <1>2, <5>2 DEF Owned, rs
      <4>3. file = 1
        BY <1>6, <1>7, <2>5, <3>2
      <4>4. s.play.start = target /\ s.play.start # NoStart
        BY <1>5, <2>2, <4>2, <4>3
      <4>5. new.start = target
        BY <1>5, <1>6, <1>15, <4>3, <4>4
      <4>6. QED
        BY <1>7, <3>2, <4>5
    <3>3. QED
      BY <1>4, <1>7, <3>1, <3>2
  <2>6. QED
    BY <2>3, <2>4, <2>5 DEF OnTarget
<1>18. QED
  BY <1>1, <1>9, <1>11, <1>12, <1>13, <1>14, <1>16, <1>17 DEF Linked, q

-----------------------------------------------------------------------------
(* top_up(): at most Target chunks are queued.                             *)

OneMore(s) == IF HasRoom(s) THEN QueueChunk(s) ELSE s

LEMMA TopUpExists ==
  ASSUME NEW s, NEW n \in Nat
  PROVE  \E f : f = [i \in 0..n |-> IF i = 0 THEN s ELSE IF HasRoom(f[i - 1]) THEN QueueChunk(f[i - 1]) ELSE f[i - 1]]
<1>. DEFINE P == {k \in Nat : \E f : f = [i \in 0..k |-> IF i = 0 THEN s
                                                           ELSE IF HasRoom(f[i - 1]) THEN QueueChunk(f[i - 1]) ELSE f[i - 1]]}
<1>1. 0 \in P
  <2>. DEFINE g == [i \in 0..0 |-> s]
  <2>1. g = [i \in 0..0 |-> IF i = 0 THEN s ELSE IF HasRoom(g[i - 1]) THEN QueueChunk(g[i - 1]) ELSE g[i - 1]]
    OBVIOUS
  <2>. HIDE DEF g
  <2>2. QED
    BY <2>1
<1>2. ASSUME NEW k \in P PROVE k + 1 \in P
  <2>1. PICK f : f = [i \in 0..k |-> IF i = 0 THEN s ELSE IF HasRoom(f[i - 1]) THEN QueueChunk(f[i - 1]) ELSE f[i - 1]]
    OBVIOUS
  <2>. DEFINE g == [i \in 0..(k + 1) |-> IF i = k + 1 THEN OneMore(f[k]) ELSE f[i]]
  <2>2. ASSUME NEW i \in 0..(k + 1)
        PROVE  g[i] = IF i = 0 THEN s ELSE IF HasRoom(g[i - 1]) THEN QueueChunk(g[i - 1]) ELSE g[i - 1]
    <3>1. CASE i = k + 1
      BY <3>1 DEF OneMore
    <3>2. CASE i # k + 1
      <4>1. i \in 0..k
        BY <3>2
      <4>2. g[i] = f[i]
        BY <3>2
      <4>3. i # 0 => g[i - 1] = f[i - 1]
        BY <4>1
      <4>. HIDE DEF g
      <4>4. QED
        BY <2>1, <4>1, <4>2, <4>3
    <3>3. QED
      BY <3>1, <3>2
  <2>3. g = [i \in 0..(k + 1) |-> g[i]]
    OBVIOUS
  <2>. HIDE DEF g
  <2>4. g = [i \in 0..(k + 1) |-> IF i = 0 THEN s ELSE IF HasRoom(g[i - 1]) THEN QueueChunk(g[i - 1]) ELSE g[i - 1]]
    BY <2>2, <2>3
  <2>5. QED
    BY <2>4
<1>. HIDE DEF P
<1>3. Nat \subseteq P
  <2>1. \A k \in P \cap Nat : k + 1 \in P
    BY <1>2
  <2>2. QED
    BY <1>1, <2>1, SetInduction
<1>4. QED
  BY <1>3 DEF P

(* How far chunks queued bring the play: its start is reached once, with   *)
(* the first of its file frames, and these are taken from what is left.    *)
Begins(s, q) ==
  /\ q.left =< s.left /\ (q.left = Unarmed => s.left = Unarmed)
  /\ q.play.start # NoStart => q.play.start = s.play.start
  /\ q.play.armed /\ q.play.start # NoStart => q.play.pending = s.play.pending
  /\ q.play.pending # s.play.pending => s.left > 0

(* A chunk just queued is the play's unless it has none left or waits for  *)
(* its start.                                                              *)
Filled(q) == q.left > 0 /\ q.play.pending = 0 => q.play.start # NoStart

LEMMA QueueBegins ==
  ASSUME NEW s, NEW loaded, NEW target, Linked(s, loaded, target), NEW q, q = QueueChunk(s)
  PROVE  Begins(s, q) /\ Filled(q)
<1>. DEFINE file == IF Fills(s) THEN 1 ELSE 0
<1>1. Shaped(s, loaded) /\ Shared(s)
  BY DEF Linked
<1>2. /\ file \in 0..1 /\ (file = 1 <=> Fills(s))
      /\ q.play.pending = s.play.pending + file
      /\ q.play.start = IF s.play.armed /\ StartReached(s) THEN NoStart ELSE s.play.start
      /\ q.left = s.left - file /\ q.play.armed = s.play.armed
  <2>1. file = IF Fills(s) THEN 1 ELSE 0
    OBVIOUS
  <2>. HIDE DEF file
  <2>2. /\ q.stream \in StreamType /\ q.play \in PlayType /\ q.left \in {Unarmed} \cup 0..FileChunks /\ q.fifo \in Seq(Chunk)
        /\ Same(s, q) /\ file \in 0..1
        /\ q.stream.records = Append(s.stream.records, [start |-> s.stream.queued, file |-> file])
        /\ q.stream.queued = (s.stream.queued + 1) % Wrap
        /\ q.play.pending = s.play.pending + file
        /\ q.play.start = IF s.play.armed /\ StartReached(s) THEN NoStart ELSE s.play.start
        /\ q.fifo = Append(s.fifo, IF file = 1 THEN s.play.id ELSE Silence)
        /\ q.left = s.left - file
    BY <1>1, <2>1, QueuedFields
  <2>3. file = 1 <=> Fills(s)
    BY <2>1
  <2>4. q.play.armed = s.play.armed
    BY <2>2 DEF Same
  <2>5. QED
    BY <2>2, <2>3, <2>4
<1>. HIDE DEF file
<1>3. s.left \in Int /\ s.play.pending \in Nat
  <2>1. s.play \in PlayType /\ s.left \in {Unarmed} \cup 0..FileChunks
    BY <1>1 DEF Shaped
  <2>2. QED
    BY <2>1, UacConstants DEF PlayType, Unarmed
<1>4. file = 1 => s.left > 0 /\ s.play.armed /\ StartReached(s)
  BY <1>2 DEF Fills
<1>5. q.left =< s.left /\ (q.left = Unarmed => s.left = Unarmed)
  BY <1>2, <1>3, <1>4 DEF Unarmed
<1>6. /\ q.play.start # NoStart => q.play.start = s.play.start
      /\ q.play.armed /\ q.play.start # NoStart => q.play.pending = s.play.pending
      /\ q.play.pending # s.play.pending => s.left > 0
  BY <1>2, <1>3, <1>4
<1>7. Filled(q)
  <2>1. SUFFICES ASSUME q.left > 0, q.play.pending = 0 PROVE q.play.start # NoStart
    BY DEF Filled
  <2>2. s.left > 0 /\ file = 0
    BY <1>2, <1>3, <2>1
  <2>3. s.play.armed /\ ~StartReached(s)
    BY <1>1, <1>2, <2>2 DEF Shared, Fills
  <2>4. s.play.start # NoStart
    BY <2>3 DEF StartReached
  <2>5. QED
    BY <1>2, <2>3, <2>4
<1>8. QED
  BY <1>5, <1>6, <1>7 DEF Begins

(* However many chunks there was room for, the stream stays linked.        *)
LEMMA TopUpKeeps ==
  ASSUME NEW s, NEW loaded, NEW target \in Int, Linked(s, loaded, target)
  PROVE  /\ Linked(TopUp(s), loaded, target) /\ Same(s, TopUp(s))
         /\ Begins(s, TopUp(s)) /\ (HasRoom(s) => Filled(TopUp(s)))
<1>. DEFINE topped[n \in 0..Target] ==
              IF n = 0 THEN s ELSE IF HasRoom(topped[n - 1]) THEN QueueChunk(topped[n - 1]) ELSE topped[n - 1]
<1>0. Target \in Nat
  BY UacConstants
<1>1. topped = [n \in 0..Target |->
                  IF n = 0 THEN s ELSE IF HasRoom(topped[n - 1]) THEN QueueChunk(topped[n - 1]) ELSE topped[n - 1]]
  BY <1>0, TopUpExists
<1>. HIDE DEF topped
<1>. DEFINE Kept(r) == Linked(r, loaded, target) /\ Same(s, r) /\ Begins(s, r)
            P == {n \in Nat : n =< Target => Kept(topped[n]) /\ (n # 0 /\ HasRoom(s) => Filled(topped[n]))}
<1>2. 0 \in P
  <2>1. topped[0] = s
    BY <1>0, <1>1
  <2>2. s.left \in Int
    BY UacConstants DEF Linked, Shaped, Unarmed
  <2>3. QED
    BY <2>1, <2>2 DEF Same, Begins
<1>3. ASSUME NEW n \in P PROVE n + 1 \in P
  <2>1. SUFFICES ASSUME n + 1 =< Target
                 PROVE  Kept(topped[n + 1]) /\ (HasRoom(s) => Filled(topped[n + 1]))
    OBVIOUS
  <2>. DEFINE r == topped[n]
  <2>2. Kept(r) /\ (n # 0 /\ HasRoom(s) => Filled(r))
    BY <1>0, <2>1
  <2>3. topped[n + 1] = IF HasRoom(r) THEN QueueChunk(r) ELSE r
    BY <1>0, <1>1, <2>1
  <2>4. n = 0 => r = s
    BY <1>0, <1>1
  <2>. HIDE DEF r
  <2>5. CASE HasRoom(r)
    <3>. DEFINE q == QueueChunk(r)
    <3>1. Linked(q, loaded, target) /\ Same(r, q)
      BY <2>2, <2>5, QueueKeeps
    <3>2. Begins(r, q) /\ Filled(q)
      BY <2>2, QueueBegins
    <3>. HIDE DEF q
    <3>3. Same(s, q)
      BY <2>2, <3>1 DEF Same
    <3>4. Begins(s, q)
      <4>1. s.left \in Int /\ r.left \in Int /\ q.left \in Int
        BY <2>2, <3>1, UacConstants DEF Linked, Shaped, Unarmed
      <4>2. q.play.armed = r.play.armed
        BY <3>1 DEF Same
      <4>3. QED
        BY <2>2, <3>2, <4>1, <4>2 DEF Begins
    <3>5. QED
      BY <2>3, <2>5, <3>1, <3>2, <3>3, <3>4 DEF q
  <2>6. CASE ~HasRoom(r)
    BY <2>2, <2>3, <2>4, <2>6
  <2>7. QED
    BY <2>5, <2>6
<1>. HIDE DEF P
<1>4. Nat \subseteq P
  <2>1. \A n \in P \cap Nat : n + 1 \in P
    BY <1>3
  <2>2. QED
    BY <1>2, <2>1, SetInduction
<1>5. Kept(topped[Target]) /\ (HasRoom(s) => Filled(topped[Target]))
  BY <1>0, <1>4, UacConstants DEF P
<1>6. QED
  BY <1>5 DEF TopUp, topped

-----------------------------------------------------------------------------
(* A completion: the next packet is loaded, and the chunk that was loaded, *)
(* if any, is retired.                                                     *)

Next1(fifo) == IF fifo = << >> THEN Zlp ELSE Head(fifo)
Rest(fifo)  == IF fifo = << >> THEN << >> ELSE Tail(fifo)

LEMMA LoadFacts ==
  ASSUME NEW fifo \in Seq(Chunk)
  PROVE  /\ Next1(fifo) \in Chunk \cup {Zlp} /\ Rest(fifo) \in Seq(Chunk)
         /\ Len(fifo) = Off(Next1(fifo)) + Len(Rest(fifo)) /\ Off(Next1(fifo)) \in 0..1
         /\ Next1(fifo) # Zlp <=> fifo # << >>
         /\ Next1(fifo) # Zlp => Next1(fifo) = fifo[1] /\ Len(fifo) >= 1
         /\ \A i \in 1..Len(Rest(fifo)) : Off(Next1(fifo)) + i \in 1..Len(fifo) /\ Rest(fifo)[i] = fifo[Off(Next1(fifo)) + i]
<1>1. CASE fifo = << >>
  BY <1>1 DEF Next1, Rest, Off
<1>2. CASE fifo # << >>
  <2>1. /\ Head(fifo) \in Chunk /\ Head(fifo) = fifo[1] /\ Tail(fifo) \in Seq(Chunk) /\ Len(Tail(fifo)) = Len(fifo) - 1
        /\ Len(fifo) \in Nat /\ Len(fifo) >= 1
        /\ \A i \in 1..Len(Tail(fifo)) : Tail(fifo)[i] = fifo[1 + i]
    BY <1>2
  <2>2. Head(fifo) # Zlp
    BY <2>1 DEF Chunk, Zlp, Silence
  <2>3. Next1(fifo) = Head(fifo) /\ Rest(fifo) = Tail(fifo) /\ Off(Next1(fifo)) = 1
    BY <1>2, <2>2 DEF Next1, Rest, Off
  <2>4. QED
    BY <1>2, <2>1, <2>2, <2>3
<1>3. QED
  BY <1>1, <1>2

(* The stream after a completion, as its counters and records tell it: v   *)
(* is s with k records retired, g of them a file chunk.                    *)
Completed(s, v, k, g) ==
  /\ v.stream \in StreamType /\ v.play \in PlayType /\ v.left = s.left /\ v.fifo = Rest(s.fifo)
  /\ v.stream.state # "closed"
  /\ v.stream.opens = s.stream.opens /\ v.stream.queued = s.stream.queued /\ v.stream.configured = s.stream.configured
  /\ v.stream.sent = (s.stream.sent + k) % Wrap
  /\ v.stream.records = IF k = 1 THEN Tail(s.stream.records) ELSE s.stream.records
  /\ v.play.id = s.play.id /\ v.play.opens = s.play.opens /\ v.play.armed = s.play.armed /\ v.play.start = s.play.start
  /\ v.play.file = s.play.file + g /\ v.play.pending = s.play.pending - g

(* No chunk was loaded: none is retired.                                   *)
LEMMA NoneRetiredKeeps ==
  ASSUME NEW s, NEW target \in Int, Linked(s, Zlp, target), NEW v, Completed(s, v, 0, 0)
  PROVE  Linked(v, Next1(s.fifo), target)
<1>. DEFINE next == Next1(s.fifo)
            rs == s.stream.records
<1>1. /\ Shaped(s, Zlp) /\ Paired(s, Zlp) /\ Indexed(s) /\ Owned(s) /\ Shared(s) /\ Timely(s) /\ OnTarget(s, target)
  BY DEF Linked
<1>2. /\ rs \in Seq(Record) /\ s.fifo \in Seq(Chunk) /\ s.stream.sent \in Index /\ s.left \in {Unarmed} \cup 0..FileChunks
      /\ s.play.file \in Nat /\ s.play.pending \in Nat /\ Len(rs) =< Capacity /\ Len(s.fifo) =< Target
  BY <1>1 DEF Shaped, StreamType, PlayType, Record
<1>3. /\ next \in Chunk \cup {Zlp} /\ Rest(s.fifo) \in Seq(Chunk)
      /\ Len(s.fifo) = Off(next) + Len(Rest(s.fifo)) /\ Off(next) \in 0..1
      /\ next # Zlp => next = s.fifo[1] /\ Len(s.fifo) >= 1
      /\ \A i \in 1..Len(Rest(s.fifo)) : Off(next) + i \in 1..Len(s.fifo) /\ Rest(s.fifo)[i] = s.fifo[Off(next) + i]
  BY <1>2, LoadFacts
<1>4. s.stream.sent + 0 = s.stream.sent /\ s.stream.sent \in 0..Wrap - 1 /\ Turn(s.stream.sent) = s.stream.sent
  BY <1>2, Wraps DEF Index
<1>5. /\ v.stream.sent = s.stream.sent /\ v.stream.records = rs
      /\ v.play.file = s.play.file /\ v.play.pending = s.play.pending
  BY <1>2, <1>4 DEF Completed, Turn
<1>6. /\ v.stream \in StreamType /\ v.play \in PlayType /\ v.left = s.left /\ v.fifo = Rest(s.fifo) /\ v.stream.state # "closed"
      /\ v.stream.opens = s.stream.opens /\ v.stream.queued = s.stream.queued
      /\ v.play.id = s.play.id /\ v.play.opens = s.play.opens /\ v.play.armed = s.play.armed /\ v.play.start = s.play.start
  BY DEF Completed
<1>7. Len(Rest(s.fifo)) \in Nat /\ Len(s.fifo) \in Nat
  BY <1>2, <1>3
<1>8. Shaped(v, next)
  <2>1. Len(v.fifo) =< Target
    BY <1>2, <1>3, <1>6, <1>7, UacConstants
  <2>2. QED
    BY <1>2, <1>3, <1>5, <1>6, <2>1 DEF Shaped
<1>9. Paired(v, next)
  <2>1. Len(rs) = Len(s.fifo) /\ \A i \in 1..Len(s.fifo) : rs[i].file = 1 <=> s.fifo[i] = s.play.id
    <3>1. Off(Zlp) = 0
      BY DEF Off
    <3>2. Len(rs) = 0 + Len(s.fifo) /\ \A i \in 1..Len(s.fifo) : rs[0 + i].file = 1 <=> s.fifo[i] = s.play.id
      BY <1>1, <3>1 DEF Paired
    <3>3. QED
      BY <1>7, <3>2
  <2>2. Len(v.stream.records) = Off(next) + Len(v.fifo)
    BY <1>3, <1>5, <1>6, <2>1
  <2>3. next # Zlp => (v.stream.records[1].file = 1 <=> next = v.play.id)
    BY <1>3, <1>5, <1>6, <1>7, <2>1
  <2>4. ASSUME NEW i \in 1..Len(v.fifo) PROVE v.stream.records[Off(next) + i].file = 1 <=> v.fifo[i] = v.play.id
    <3>1. Off(next) + i \in 1..Len(s.fifo) /\ v.fifo[i] = s.fifo[Off(next) + i]
      BY <1>3, <1>6
    <3>2. rs[Off(next) + i].file = 1 <=> s.fifo[Off(next) + i] = s.play.id
      BY <2>1, <3>1
    <3>3. QED
      BY <1>5, <1>6, <3>1, <3>2
  <2>5. QED
    BY <2>2, <2>3, <2>4 DEF Paired
<1>10. Indexed(v)
  BY <1>1, <1>5, <1>6 DEF Indexed
<1>11. Owned(v)
  <2>1. \A i \in 1..Len(v.fifo) : v.fifo[i] =< v.play.id
    BY <1>1, <1>3, <1>6 DEF Owned
  <2>2. QED
    BY <1>1, <1>5, <1>6, <2>1 DEF Owned
<1>12. Shared(v)
  BY <1>1, <1>5, <1>6 DEF Shared
<1>13. Timely(v)
  BY <1>1, <1>5, <1>6 DEF Timely
<1>14. OnTarget(v, target)
  BY <1>1, <1>5, <1>6 DEF OnTarget
<1>15. QED
  BY <1>8, <1>9, <1>10, <1>11, <1>12, <1>13, <1>14 DEF Linked

(* The chunk that was loaded is the one with the oldest record, and both   *)
(* go; had the play's start still to come, it carried no file frames.      *)
LEMMA OneRetiredKeeps ==
  ASSUME NEW s, NEW loaded, NEW target \in Int, Linked(s, loaded, target), loaded # Zlp,
         target # NoStart => loaded # s.play.id,
         NEW v, Completed(s, v, 1, Head(s.stream.records).file)
  PROVE  Linked(v, Next1(s.fifo), target)
<1>. DEFINE next == Next1(s.fifo)
            rs == s.stream.records
            g == Head(rs).file
            n == Len(rs)
            sent == s.stream.sent
<1>1. /\ Shaped(s, loaded) /\ Paired(s, loaded) /\ Indexed(s) /\ Owned(s) /\ Shared(s) /\ Timely(s) /\ OnTarget(s, target)
  BY DEF Linked
<1>2. /\ rs \in Seq(Record) /\ s.fifo \in Seq(Chunk) /\ sent \in Index /\ s.left \in {Unarmed} \cup 0..FileChunks
      /\ s.play.file \in Nat /\ s.play.pending \in Nat /\ n =< Capacity /\ Len(s.fifo) =< Target
  BY <1>1 DEF Shaped, StreamType, PlayType, Record
<1>3. /\ next \in Chunk \cup {Zlp} /\ Rest(s.fifo) \in Seq(Chunk)
      /\ Len(s.fifo) = Off(next) + Len(Rest(s.fifo)) /\ Off(next) \in 0..1
      /\ next # Zlp => next = s.fifo[1] /\ Len(s.fifo) >= 1
      /\ \A i \in 1..Len(Rest(s.fifo)) : Off(next) + i \in 1..Len(s.fifo) /\ Rest(s.fifo)[i] = s.fifo[Off(next) + i]
  BY <1>2, LoadFacts
<1>4. Len(Rest(s.fifo)) \in Nat /\ Len(s.fifo) \in Nat /\ n \in Nat
  BY <1>2, <1>3
<1>5. /\ n = 1 + Len(s.fifo) /\ (rs[1].file = 1 <=> loaded = s.play.id)
      /\ \A i \in 1..Len(s.fifo) : rs[1 + i].file = 1 <=> s.fifo[i] = s.play.id
  <2>1. Off(loaded) = 1
    BY DEF Off
  <2>2. QED
    BY <1>1, <2>1 DEF Paired
<1>6. /\ Tail(rs) \in Seq(Record) /\ Len(Tail(rs)) = n - 1 /\ \A i \in 1..n - 1 : Tail(rs)[i] = rs[i + 1]
      /\ Head(rs) = rs[1] /\ rs[1] \in Record /\ rs # << >>
  <2>1. n # 0
    BY <1>4, <1>5
  <2>2. rs # << >>
    BY <2>1
  <2>3. QED
    BY <1>2, <2>2
<1>7. g \in 0..1 /\ g = rs[1].file
  BY <1>6 DEF Record
<1>8. s.play.pending = FileCount(Tail(rs)) + g /\ FileCount(Tail(rs)) \in Nat
  <2>1. s.play.pending = FileCount(rs)
    BY <1>1 DEF Owned
  <2>2. FileCount(rs) = FileCount(Tail(rs)) + g
    BY <1>2, <1>6, FileCountTail
  <2>3. FileCount(Tail(rs)) \in 0..Len(Tail(rs))
    BY <1>6, FileCountFacts
  <2>4. QED
    BY <1>4, <1>6, <2>1, <2>2, <2>3
<1>. HIDE DEF g, n
<1>9. /\ v.stream \in StreamType /\ v.play \in PlayType /\ v.left = s.left /\ v.fifo = Rest(s.fifo) /\ v.stream.state # "closed"
      /\ v.stream.opens = s.stream.opens /\ v.stream.queued = s.stream.queued
      /\ v.stream.sent = (sent + 1) % Wrap /\ v.stream.records = Tail(rs)
      /\ v.play.id = s.play.id /\ v.play.opens = s.play.opens /\ v.play.armed = s.play.armed /\ v.play.start = s.play.start
      /\ v.play.file = s.play.file + g /\ v.play.pending = s.play.pending - g
  BY DEF Completed, g
<1>10. Shaped(v, next)
  <2>1. Len(v.fifo) =< Target
    BY <1>2, <1>3, <1>4, <1>9, UacConstants
  <2>2. Len(v.stream.records) =< Capacity
    BY <1>2, <1>4, <1>6, <1>9, UacConstants
  <2>3. QED
    BY <1>1, <1>3, <1>9, <2>1, <2>2 DEF Shaped
<1>11. Paired(v, next)
  <2>1. Len(v.stream.records) = Off(next) + Len(v.fifo)
    BY <1>3, <1>4, <1>5, <1>6, <1>9
  <2>2. ASSUME NEW i \in 1..Len(s.fifo) PROVE v.stream.records[i].file = 1 <=> s.fifo[i] = s.play.id
    <3>1. Tail(rs)[i] = rs[i + 1] /\ i + 1 = 1 + i
      BY <1>4, <1>5, <1>6
    <3>2. QED
      BY <1>5, <1>9, <3>1
  <2>3. next # Zlp => (v.stream.records[1].file = 1 <=> next = v.play.id)
    <3>1. SUFFICES ASSUME next # Zlp PROVE v.stream.records[1].file = 1 <=> next = v.play.id
      OBVIOUS
    <3>2. 1 \in 1..Len(s.fifo) /\ next = s.fifo[1]
      BY <1>3, <1>4, <3>1
    <3>3. QED
      BY <1>9, <2>2, <3>2
  <2>4. ASSUME NEW i \in 1..Len(v.fifo) PROVE v.stream.records[Off(next) + i].file = 1 <=> v.fifo[i] = v.play.id
    <3>1. Off(next) + i \in 1..Len(s.fifo) /\ v.fifo[i] = s.fifo[Off(next) + i]
      BY <1>3, <1>9
    <3>2. QED
      BY <1>9, <2>2, <3>1
  <2>5. QED
    BY <2>1, <2>3, <2>4 DEF Paired
<1>12. ASSUME NEW k \in Nat, k < n PROVE (v.stream.sent + k) % Wrap = (sent + (k + 1)) % Wrap
  <2>. DEFINE c == Turn(sent + 1)
  <2>1. /\ sent \in Int /\ 0 =< sent /\ sent < Wrap /\ Wrap \in Nat \ {0} /\ k + 1 < Wrap
    <3>1. n < Wrap /\ n =< Capacity
      BY <1>2, <1>4, UacConstants
    <3>2. k + 1 < Wrap
      BY <1>2, <1>4, <1>12, <3>1, UacConstants
    <3>3. QED
      BY <1>2, <3>2, Wraps
  <2>2. c = IF sent + 1 < Wrap THEN sent + 1 ELSE sent + 1 - Wrap
    BY <2>1, Wraps
  <2>3. Turn(sent + (k + 1)) = IF sent + (k + 1) < Wrap THEN sent + (k + 1) ELSE sent + (k + 1) - Wrap
    BY <2>1, Wraps
  <2>. HIDE DEF c
  <2>4. c \in Int /\ 0 =< c /\ c < Wrap
    BY <2>1, <2>2
  <2>5. Turn(c + k) = IF c + k < Wrap THEN c + k ELSE c + k - Wrap
    BY <2>1, <2>4, Wraps
  <2>6. Turn(c + k) = Turn(sent + (k + 1))
    BY <2>1, <2>2, <2>3, <2>5
  <2>7. v.stream.sent = c
    BY <1>9 DEF c, Turn
  <2>8. QED
    BY <2>6, <2>7 DEF Turn
<1>13. Indexed(v)
  <2>1. v.stream.queued = (v.stream.sent + Len(v.stream.records)) % Wrap
    <3>1. s.stream.queued = (sent + n) % Wrap
      BY <1>1 DEF Indexed, n
    <3>2. n - 1 \in Nat /\ n - 1 < n /\ (n - 1) + 1 = n
      BY <1>4, <1>5
    <3>3. (v.stream.sent + (n - 1)) % Wrap = (sent + ((n - 1) + 1)) % Wrap
      BY <1>12, <3>2
    <3>4. QED
      BY <1>6, <1>9, <3>1, <3>2, <3>3
  <2>2. ASSUME NEW i \in 1..Len(v.stream.records) PROVE v.stream.records[i].start = (v.stream.sent + i - 1) % Wrap
    <3>1. i - 1 \in Nat /\ i - 1 < n /\ (i - 1) + 1 = i /\ i + 1 \in 1..n /\ i \in 1..n - 1
      BY <1>4, <1>6, <1>9
    <3>2. v.stream.records[i].start = (sent + (i + 1) - 1) % Wrap
      <4>1. \A j \in 1..n : rs[j].start = (sent + j - 1) % Wrap
        BY <1>1 DEF Indexed, n
      <4>2. v.stream.records[i] = rs[i + 1]
        BY <1>6, <1>9, <3>1
      <4>3. QED
        BY <3>1, <4>1, <4>2
    <3>3. (v.stream.sent + (i - 1)) % Wrap = (sent + ((i - 1) + 1)) % Wrap
      BY <1>12, <3>1
    <3>4. sent \in Int /\ v.stream.sent \in Int
      BY <1>2, <1>9, Wraps DEF StreamType
    <3>5. sent + (i + 1) - 1 = sent + ((i - 1) + 1) /\ v.stream.sent + (i - 1) = v.stream.sent + i - 1
      BY <3>1, <3>4
    <3>6. QED
      BY <3>2, <3>3, <3>5
  <2>3. QED
    BY <2>1, <2>2 DEF Indexed
<1>14. Owned(v)
  <2>1. v.play.pending = FileCount(v.stream.records)
    BY <1>7, <1>8, <1>9
  <2>2. v.play.opens # v.stream.opens => ~v.play.armed /\ v.play.pending = 0
    <3>1. SUFFICES ASSUME s.play.opens # s.stream.opens PROVE ~s.play.armed /\ v.play.pending = 0
      BY <1>9
    <3>2. ~s.play.armed /\ s.play.pending = 0
      BY <1>1, <3>1 DEF Owned
    <3>3. QED
      BY <1>7, <1>8, <1>9, <3>2
  <2>3. \A i \in 1..Len(v.fifo) : v.fifo[i] =< v.play.id
    BY <1>1, <1>3, <1>9 DEF Owned
  <2>4. v.play.opens =< v.stream.opens
    BY <1>1, <1>9 DEF Owned
  <2>5. QED
    BY <2>1, <2>2, <2>3, <2>4 DEF Owned
<1>15. Shared(v)
  <2>. DEFINE l == s.left
              f == s.play.file
              c == s.play.pending
  <2>1. /\ l > 0 => s.play.armed
        /\ s.play.armed => l # Unarmed
        /\ l = Unarmed => f = 0 /\ c = 0
        /\ f + c + (IF l > 0 THEN l ELSE 0) =< FileChunks
    BY <1>1 DEF Shared
  <2>2. /\ v.play.file = f + g /\ v.play.pending = c - g /\ v.left = l /\ v.play.armed = s.play.armed
        /\ f \in Nat /\ c \in Nat /\ g \in 0..1 /\ g =< c /\ FileChunks \in Nat /\ l \in {Unarmed} \cup 0..FileChunks
    BY <1>2, <1>7, <1>8, <1>9, UacConstants
  <2>. HIDE DEF l, f, c
  <2>3. /\ l = Unarmed => f + g = 0 /\ c - g = 0
        /\ (f + g) + (c - g) + (IF l > 0 THEN l ELSE 0) =< FileChunks
    BY <2>1, <2>2 DEF Unarmed
  <2>4. QED
    BY <2>1, <2>2, <2>3 DEF Shared
<1>16. Timely(v)
  BY <1>1, <1>9 DEF Timely
<1>17. OnTarget(v, target)
  <2>1. SUFFICES ASSUME target # NoStart PROVE OnTarget(v, target)
    BY DEF OnTarget
  <2>2. g = 0 /\ v.play.pending = s.play.pending
    BY <1>2, <1>5, <1>7, <1>9, <2>1
  <2>3. ASSUME NEW i \in 1..Len(v.stream.records), v.stream.records[i].file = 1,
               \A j \in 1..i - 1 : v.stream.records[j].file = 0
        PROVE  v.stream.records[i].start = target
    <3>1. i + 1 \in 1..n /\ i \in 1..n - 1 /\ v.stream.records[i] = rs[i + 1]
      BY <1>4, <1>6, <1>9
    <3>2. ASSUME NEW j \in 1..(i + 1) - 1 PROVE rs[j].file = 0
      <4>1. CASE j = 1
        BY <1>7, <2>2, <4>1
      <4>2. CASE j # 1
        <5>1. j - 1 \in 1..i - 1 /\ j - 1 \in 1..n - 1 /\ (j - 1) + 1 = j
          BY <1>4, <3>1, <4>2
        <5>2. v.stream.records[j - 1] = rs[(j - 1) + 1]
          BY <1>6, <1>9, <5>1
        <5>3. QED
          BY <2>3, <5>1, <5>2
      <4>3. QED
        BY <4>1, <4>2
    <3>3. \A m \in 1..n : /\ rs[m].file = 1
                          /\ \A j \in 1..m - 1 : rs[j].file = 0
                          => rs[m].start = target
      BY <1>1, <2>1 DEF OnTarget, n
    <3>4. QED
      BY <2>3, <3>1, <3>2, <3>3
  <2>4. /\ s.left # Unarmed
        /\ s.play.armed => IF s.play.start = NoStart THEN s.play.pending # 0 ELSE s.play.start = target /\ s.play.pending = 0
    BY <1>1, <2>1 DEF OnTarget
  <2>5. QED
    BY <1>9, <2>2, <2>3, <2>4 DEF OnTarget
<1>18. QED
  BY <1>10, <1>11, <1>13, <1>14, <1>15, <1>16, <1>17 DEF Linked

LEMMA RetireExists ==
  ASSUME NEW s, NEW n \in Nat
  PROVE  \E f : f = [i \in 0..n |-> IF i = 0 THEN s ELSE RetireOldest(f[i - 1])]
<1>. DEFINE P == {k \in Nat : \E f : f = [i \in 0..k |-> IF i = 0 THEN s ELSE RetireOldest(f[i - 1])]}
<1>1. 0 \in P
  <2>. DEFINE g == [i \in 0..0 |-> s]
  <2>1. g = [i \in 0..0 |-> IF i = 0 THEN s ELSE RetireOldest(g[i - 1])]
    OBVIOUS
  <2>. HIDE DEF g
  <2>2. QED
    BY <2>1
<1>2. ASSUME NEW k \in P PROVE k + 1 \in P
  <2>1. PICK f : f = [i \in 0..k |-> IF i = 0 THEN s ELSE RetireOldest(f[i - 1])]
    OBVIOUS
  <2>. DEFINE g == [i \in 0..(k + 1) |-> IF i = k + 1 THEN RetireOldest(f[k]) ELSE f[i]]
  <2>2. ASSUME NEW i \in 0..(k + 1) PROVE g[i] = IF i = 0 THEN s ELSE RetireOldest(g[i - 1])
    <3>1. CASE i = k + 1
      BY <3>1
    <3>2. CASE i # k + 1
      <4>1. i \in 0..k
        BY <3>2
      <4>2. g[i] = f[i]
        BY <3>2
      <4>3. i # 0 => g[i - 1] = f[i - 1]
        BY <4>1
      <4>. HIDE DEF g
      <4>4. QED
        BY <2>1, <4>1, <4>2, <4>3
    <3>3. QED
      BY <3>1, <3>2
  <2>3. g = [i \in 0..(k + 1) |-> g[i]]
    OBVIOUS
  <2>. HIDE DEF g
  <2>4. g = [i \in 0..(k + 1) |-> IF i = 0 THEN s ELSE RetireOldest(g[i - 1])]
    BY <2>2, <2>3
  <2>5. QED
    BY <2>4
<1>. HIDE DEF P
<1>3. Nat \subseteq P
  <2>1. \A k \in P \cap Nat : k + 1 \in P
    BY <1>2
  <2>2. QED
    BY <1>1, <2>1, SetInduction
<1>4. QED
  BY <1>3 DEF P

(* retire_sent_chunks() retires one record if the next one has not been    *)
(* sent.                                                                   *)
LEMMA RetireIsOnce ==
  ASSUME NEW s, NEW r, r = RetireOldest(s), RetireOldest(r) = r
  PROVE  Retire(s) = r
<1>. DEFINE retired[n \in 0..Capacity] == IF n = 0 THEN s ELSE RetireOldest(retired[n - 1])
<1>0. Capacity \in Nat /\ Capacity >= 1
  BY UacConstants
<1>1. retired = [n \in 0..Capacity |-> IF n = 0 THEN s ELSE RetireOldest(retired[n - 1])]
  BY <1>0, RetireExists
<1>. HIDE DEF retired
<1>. DEFINE P == {n \in Nat : n + 1 =< Capacity => retired[n + 1] = r}
<1>2. 0 \in P
  <2>1. retired[0] = s /\ retired[1] = RetireOldest(retired[0])
    BY <1>0, <1>1
  <2>2. QED
    BY <2>1
<1>3. ASSUME NEW n \in P PROVE n + 1 \in P
  <2>1. SUFFICES ASSUME n + 1 + 1 =< Capacity PROVE retired[n + 1 + 1] = r
    OBVIOUS
  <2>2. retired[n + 1] = r
    BY <1>0, <2>1
  <2>3. n + 1 + 1 \in 0..Capacity /\ n + 1 + 1 # 0 /\ (n + 1 + 1) - 1 = n + 1
    BY <1>0, <2>1
  <2>4. retired[n + 1 + 1] = RetireOldest(retired[(n + 1 + 1) - 1])
    BY <1>1, <2>3
  <2>5. QED
    BY <2>2, <2>3, <2>4
<1>. HIDE DEF P
<1>4. Nat \subseteq P
  <2>1. \A n \in P \cap Nat : n + 1 \in P
    BY <1>3
  <2>2. QED
    BY <1>2, <2>1, SetInduction
<1>5. retired[(Capacity - 1) + 1] = r
  BY <1>0, <1>4 DEF P
<1>6. retired[Capacity] = r
  BY <1>0, <1>5
<1>7. QED
  BY <1>6 DEF Retire, retired

-----------------------------------------------------------------------------
(* track_interval() for the play and the tracker: only the counts of       *)
(* missed intervals change.                                                *)
Judging(p, q) ==
  /\ q.id = p.id /\ q.opens = p.opens /\ q.armed = p.armed /\ q.start = p.start /\ q.file = p.file /\ q.pending = p.pending
  /\ q.mismatched = p.mismatched
CountsGap(p, q, gap, before, after) ==
  /\ q.missed = MissedAfterGap(p.missed, gap) /\ q.judged = p.judged
  /\ q.unprimed = Lesser(MovedWith(p.unprimed, before, after), MissedAfterGap(p.missed, gap))

LEMMA CountFacts ==
  ASSUME NEW missed \in Int, NEW gap \in Int
  PROVE  MissedAfterGap(missed, gap) \in Int
BY DEF MissedAfterGap

LEMMA DealiasedFacts ==
  ASSUME NEW aliased \in Int, NEW ticks \in Int
  PROVE  Dealiased(aliased, ticks) \in Int
<1>. DEFINE q == (ticks - aliased + Modulus \div 2) \div Modulus
<1>1. Modulus \in Nat \ {0} /\ Modulus \div 2 \in Int
  BY UacConstants
<1>2. q \in Int
  <2>. DEFINE x == ticks - aliased + Modulus \div 2
  <2>1. x \in Int
    BY <1>1
  <2>. HIDE DEF x
  <2>2. x \div Modulus \in Int
    BY <1>1, <2>1
  <2>3. QED
    BY <2>2 DEF x
<1>. HIDE DEF q
<1>3. q * Modulus \in Int
  BY <1>1, <1>2
<1>4. QED
  BY <1>3 DEF Dealiased, q

LEMMA LesserFacts ==
  ASSUME NEW a \in Int, NEW b \in Int
  PROVE  Lesser(a, b) \in Int /\ Lesser(a, b) =< a /\ Lesser(a, b) =< b /\ (Lesser(a, b) = a \/ Lesser(a, b) = b)
BY DEF Lesser

LEMMA TakeBackFacts ==
  ASSUME NEW t \in TrackerType
  PROVE  TakeBack(t) \in TrackerType /\ TakeBack(t).valid = t.valid /\ TakeBack(t).behind = t.behind
<1>. DEFINE part == IF t.latest.counted # 0 /\ t.latest.unprimed # 0 THEN 1 ELSE 0
            gap == [counted |-> t.latest.counted - 1, unprimed |-> t.latest.unprimed - part]
            latest == IF gap.counted = 0 THEN NoGap ELSE gap
            unprimed == t.unprimed - part
<1>1. t.latest \in [counted : Int, unprimed : Int] /\ t.unprimed \in Int
  BY DEF TrackerType
<1>2. part \in Int
  OBVIOUS
<1>. HIDE DEF part
<1>3. gap \in [counted : Int, unprimed : Int] /\ unprimed \in Int
  BY <1>1, <1>2
<1>4. latest \in [counted : Int, unprimed : Int]
  BY <1>3 DEF NoGap
<1>5. TakeBack(t) = IF t.latest.counted = 0 THEN t ELSE [t EXCEPT !.unprimed = unprimed, !.latest = latest]
  BY DEF TakeBack, part
<1>. HIDE DEF gap, latest, unprimed
<1>6. [t EXCEPT !.unprimed = unprimed, !.latest = latest] \in TrackerType
      /\ [t EXCEPT !.unprimed = unprimed, !.latest = latest].valid = t.valid
      /\ [t EXCEPT !.unprimed = unprimed, !.latest = latest].behind = t.behind
  BY <1>3, <1>4 DEF TrackerType
<1>7. QED
  BY <1>5, <1>6

LEMMA CountMissedFacts ==
  ASSUME NEW t \in TrackerType, NEW elapsed \in Int, NEW skipped \in Int, NEW sampled \in BOOLEAN
  PROVE  CountMissed(t, elapsed, skipped, sampled) \in TrackerType
         /\ CountMissed(t, elapsed, skipped, sampled).valid = t.valid
         /\ CountMissed(t, elapsed, skipped, sampled).behind = t.behind
         /\ CountMissed(t, elapsed, skipped, sampled).missed = MissedAfterGap(t.missed, elapsed)
<1>. DEFINE missed == MissedAfterGap(t.missed, elapsed)
            moves == skipped > missed - t.missed /\ t.latest.counted # 0
            moved == IF moves THEN TakeBack(t) ELSE t
            added == missed - t.missed + (IF moves THEN 1 ELSE 0)
            part == UnprimedPart(added, skipped, sampled)
            unprimed == moved.unprimed + part
            latest == [counted |-> added, unprimed |-> part]
<1>1. t.missed \in Int /\ missed \in Int
  BY CountFacts DEF TrackerType
<1>. HIDE DEF missed
<1>2. TakeBack(t) \in TrackerType /\ TakeBack(t).valid = t.valid /\ TakeBack(t).behind = t.behind
  BY TakeBackFacts
<1>3. moved \in TrackerType /\ moved.valid = t.valid /\ moved.behind = t.behind
  BY <1>2
<1>4. added \in Int
  BY <1>1
<1>. HIDE DEF moved, moves, added
<1>5. part \in Int
  BY <1>4, LesserFacts DEF UnprimedPart
<1>6. unprimed \in Int /\ latest \in [counted : Int, unprimed : Int]
  BY <1>3, <1>4, <1>5 DEF TrackerType
<1>7. CountMissed(t, elapsed, skipped, sampled) =
        IF missed < t.missed THEN [TakeBack(t) EXCEPT !.missed = missed]
        ELSE IF added = 0 THEN [t EXCEPT !.missed = missed]
        ELSE [moved EXCEPT !.missed = missed, !.unprimed = unprimed, !.latest = latest]
  <2>1. \A x : [moved EXCEPT !.missed = x, !.unprimed = @ + part, !.latest = latest] =
               [moved EXCEPT !.missed = x, !.unprimed = moved.unprimed + part, !.latest = latest]
    BY <1>3 DEF TrackerType
  <2>2. QED
    BY <2>1 DEF CountMissed, missed, moves, moved, added
<1>. HIDE DEF part, unprimed, latest
<1>8. /\ [TakeBack(t) EXCEPT !.missed = missed] \in TrackerType /\ [TakeBack(t) EXCEPT !.missed = missed].valid = t.valid
      /\ [TakeBack(t) EXCEPT !.missed = missed].missed = missed /\ [TakeBack(t) EXCEPT !.missed = missed].behind = t.behind
  BY <1>1, <1>2 DEF TrackerType
<1>9. /\ [t EXCEPT !.missed = missed] \in TrackerType /\ [t EXCEPT !.missed = missed].valid = t.valid
      /\ [t EXCEPT !.missed = missed].missed = missed /\ [t EXCEPT !.missed = missed].behind = t.behind
  BY <1>1 DEF TrackerType
<1>10. /\ [moved EXCEPT !.missed = missed, !.unprimed = unprimed, !.latest = latest] \in TrackerType
       /\ [moved EXCEPT !.missed = missed, !.unprimed = unprimed, !.latest = latest].valid = t.valid
       /\ [moved EXCEPT !.missed = missed, !.unprimed = unprimed, !.latest = latest].missed = missed
       /\ [moved EXCEPT !.missed = missed, !.unprimed = unprimed, !.latest = latest].behind = t.behind
  BY <1>1, <1>3, <1>6 DEF TrackerType
<1>11. QED
  BY <1>7, <1>8, <1>9, <1>10 DEF missed

LEMMA CountPlayMissedFacts ==
  ASSUME NEW p \in PlayType, NEW elapsed \in Int, NEW before \in Int, NEW after \in Int
  PROVE  CountPlayMissed(p, elapsed, before, after) \in PlayType /\ Judging(p, CountPlayMissed(p, elapsed, before, after))
         /\ CountsGap(p, CountPlayMissed(p, elapsed, before, after), elapsed, before, after)
<1>. DEFINE missed == MissedAfterGap(p.missed, elapsed)
            unprimed == Lesser(MovedWith(p.unprimed, before, after), missed)
            more == missed > p.missed
            q == [p EXCEPT !.missed = missed, !.unconfirmed = more, !.unprimed = unprimed]
<1>1. p.missed \in Int /\ p.unprimed \in Int
  BY DEF PlayType
<1>2. missed \in Int
  BY <1>1, CountFacts
<1>3. MovedWith(p.unprimed, before, after) \in Int
  <2>1. Lesser(p.unprimed, before - after) \in Int
    BY <1>1 DEF Lesser
  <2>2. QED
    BY <1>1, <2>1 DEF MovedWith
<1>4. unprimed \in Int /\ more \in BOOLEAN
  <2>. HIDE DEF missed
  <2>1. QED
    BY <1>2, <1>3, LesserFacts
<1>5. CountPlayMissed(p, elapsed, before, after) = q
  BY DEF CountPlayMissed, PlayType
<1>. HIDE DEF missed, unprimed, more
<1>6. q \in PlayType
  BY <1>2, <1>4 DEF PlayType
<1>7. Judging(p, q) /\ q.missed = missed /\ q.judged = p.judged /\ q.unprimed = unprimed
  BY DEF PlayType, Judging
<1>8. CountsGap(p, q, elapsed, before, after)
  BY <1>7 DEF CountsGap, missed, unprimed
<1>9. QED
  BY <1>5, <1>6, <1>7, <1>8

LEMMA TrackerStarts ==
  /\ NoInterval \in TrackerType
  /\ [NoInterval EXCEPT !.valid = TRUE] \in TrackerType
  /\ \A t \in TrackerType : /\ NewGap(t) \in TrackerType /\ NewGap(t).valid = t.valid
                           /\ NewGap(t).missed = t.missed /\ NewGap(t).behind = 0
<1>1. NoGap \in [counted : Int, unprimed : Int]
  BY DEF NoGap
<1>2. NoInterval \in TrackerType
  BY <1>1 DEF NoInterval, TrackerType
<1>3. \A t \in TrackerType : [t EXCEPT !.valid = TRUE] \in TrackerType
  BY DEF TrackerType
<1>4. ASSUME NEW t \in TrackerType
      PROVE  NewGap(t) \in TrackerType /\ NewGap(t).valid = t.valid /\ NewGap(t).missed = t.missed /\ NewGap(t).behind = 0
  <2>. DEFINE a == [t EXCEPT !.behind = 0]
              b == [a EXCEPT !.skipped = 0]
              c == [b EXCEPT !.sampled = FALSE]
  <2>1. a \in TrackerType /\ a.valid = t.valid /\ a.missed = t.missed /\ a.behind = 0
    BY DEF TrackerType
  <2>2. c = [t EXCEPT !.behind = 0, !.skipped = 0, !.sampled = FALSE]
    BY DEF TrackerType
  <2>. HIDE DEF a
  <2>3. b \in TrackerType /\ b.valid = t.valid /\ b.missed = t.missed /\ b.behind = 0
    BY <2>1 DEF TrackerType
  <2>. HIDE DEF b
  <2>4. c \in TrackerType /\ c.valid = t.valid /\ c.missed = t.missed /\ c.behind = 0
    BY <2>3 DEF TrackerType
  <2>5. QED
    BY <2>2, <2>4 DEF NewGap
<1>5. QED
  BY <1>2, <1>3, <1>4

(* The gap a completion closes, and what it does to the counts of t and p. *)
Gap(t, skew) == Dealiased(t.behind % Modulus, t.behind + skew)
Measured(t, p, u, q, skew) ==
  IF ~t.valid THEN /\ u = [NoInterval EXCEPT !.valid = TRUE]
                   /\ q.missed = p.missed /\ q.judged = p.judged /\ q.unprimed = p.unprimed
  ELSE /\ u.valid /\ u.behind = 0 /\ u.missed = MissedAfterGap(t.missed, Gap(t, skew))
       /\ u = CountMissed(NewGap(t), Gap(t, skew), t.skipped, t.sampled)
       /\ IF p.pending # 0 \/ (p.judged /\ Gap(t, skew) = 0)
          THEN /\ q.judged = TRUE /\ q.missed = MissedAfterGap(p.missed, Gap(t, skew))
               /\ q.unprimed = Lesser(MovedWith(p.unprimed, t.unprimed, u.unprimed), MissedAfterGap(p.missed, Gap(t, skew)))
          ELSE q.judged = FALSE /\ q.missed = p.missed /\ q.unprimed = p.unprimed

LEMMA TrackFacts ==
  ASSUME NEW s, s.tracker \in TrackerType, s.play \in PlayType, NEW skew \in {-1, 1},
         s = [stream |-> s.stream, play |-> s.play, left |-> s.left, fifo |-> s.fifo, tracker |-> s.tracker],
         NEW v, v = TrackInterval(s, skew)
  PROVE  /\ v = [stream |-> s.stream, play |-> v.play, left |-> s.left, fifo |-> s.fifo, tracker |-> v.tracker]
         /\ v.play \in PlayType /\ v.tracker \in TrackerType
         /\ Judging(s.play, v.play) /\ Measured(s.tracker, s.play, v.tracker, v.play, skew)
<1>. DEFINE t == s.tracker
            cleared == [s.play EXCEPT !.unconfirmed = FALSE]
            elapsed == Dealiased(t.behind % Modulus, t.behind + skew)
            judged == cleared.pending # 0 \/ (cleared.judged /\ elapsed = 0)
            counted == CountMissed(NewGap(t), elapsed, t.skipped, t.sampled)
            marked == [cleared EXCEPT !.judged = TRUE]
            first == [NoInterval EXCEPT !.valid = TRUE]
<1>1. /\ t.behind \in Int /\ t.skipped \in Int /\ t.sampled \in BOOLEAN /\ t.unprimed \in Int
  BY DEF TrackerType
<1>2. elapsed \in Int
  <2>1. t.behind % Modulus \in Int /\ t.behind + skew \in Int
    BY <1>1, UacConstants
  <2>2. QED
    BY <2>1, DealiasedFacts
<1>3. NewGap(t) \in TrackerType /\ NewGap(t).valid = t.valid /\ NewGap(t).missed = t.missed /\ NewGap(t).behind = 0
  BY TrackerStarts
<1>. HIDE DEF elapsed
<1>4. counted \in TrackerType /\ counted.valid = t.valid /\ counted.behind = 0 /\ counted.missed = MissedAfterGap(t.missed, elapsed)
  <2>. DEFINE g == NewGap(t)
              skipped == t.skipped
              sampled == t.sampled
  <2>. HIDE DEF g, skipped, sampled
  <2>1. g \in TrackerType /\ skipped \in Int /\ sampled \in BOOLEAN /\ elapsed \in Int
    BY <1>1, <1>2, <1>3 DEF g, skipped, sampled
  <2>. DEFINE c == CountMissed(g, elapsed, skipped, sampled)
  <2>2. c \in TrackerType /\ c.valid = g.valid /\ c.behind = g.behind /\ c.missed = MissedAfterGap(g.missed, elapsed)
    BY <2>1, CountMissedFacts
  <2>3. c = counted
    BY DEF g, skipped, sampled
  <2>. HIDE DEF c, counted
  <2>4. QED
    BY <1>3, <2>2, <2>3 DEF g
<1>5. counted.unprimed \in Int
  BY <1>4 DEF TrackerType
<1>6. /\ cleared \in PlayType /\ Judging(s.play, cleared)
      /\ cleared.missed = s.play.missed /\ cleared.judged = s.play.judged /\ cleared.pending = s.play.pending
      /\ cleared.unprimed = s.play.unprimed
  BY DEF PlayType, Judging
<1>. HIDE DEF cleared, counted
<1>7. /\ marked \in PlayType /\ Judging(s.play, marked) /\ marked.missed = s.play.missed /\ marked.judged = TRUE
      /\ marked.unprimed = s.play.unprimed
  BY <1>6 DEF PlayType, Judging
<1>. DEFINE spared == [cleared EXCEPT !.judged = FALSE]
<1>8. /\ spared \in PlayType /\ Judging(s.play, spared) /\ spared.missed = s.play.missed /\ spared.judged = FALSE
      /\ spared.unprimed = s.play.unprimed
  BY <1>6 DEF PlayType, Judging
<1>. HIDE DEF marked
<1>. DEFINE kept == CountPlayMissed(marked, elapsed, t.unprimed, counted.unprimed)
<1>9. /\ kept \in PlayType /\ Judging(s.play, kept)
      /\ kept.missed = MissedAfterGap(s.play.missed, elapsed) /\ kept.judged = TRUE
      /\ kept.unprimed = Lesser(MovedWith(s.play.unprimed, t.unprimed, counted.unprimed), MissedAfterGap(s.play.missed, elapsed))
  <2>1. /\ kept \in PlayType /\ Judging(marked, kept)
        /\ kept.missed = MissedAfterGap(marked.missed, elapsed) /\ kept.judged = marked.judged
        /\ kept.unprimed = Lesser(MovedWith(marked.unprimed, t.unprimed, counted.unprimed), MissedAfterGap(marked.missed, elapsed))
    <3>. DEFINE before == t.unprimed
                after == counted.unprimed
    <3>. HIDE DEF before, after
    <3>1. before \in Int /\ after \in Int
      BY <1>1, <1>5 DEF before, after
    <3>. DEFINE c == CountPlayMissed(marked, elapsed, before, after)
    <3>2. c \in PlayType /\ Judging(marked, c)
      BY <1>2, <1>7, <3>1, CountPlayMissedFacts
    <3>3. CountsGap(marked, c, elapsed, before, after)
      BY <1>2, <1>7, <3>1, CountPlayMissedFacts
    <3>4. c = kept
      BY DEF before, after
    <3>. HIDE DEF c, kept
    <3>5. QED
      BY <3>2, <3>3, <3>4 DEF CountsGap, before, after
  <2>. HIDE DEF kept
  <2>2. QED
    BY <1>7, <2>1 DEF Judging
<1>10. first \in TrackerType
  BY TrackerStarts
<1>11. v = IF ~t.valid THEN [s EXCEPT !.tracker = first, !.play = cleared]
           ELSE [s EXCEPT !.tracker = counted, !.play = IF judged THEN kept ELSE spared]
  BY DEF TrackInterval, cleared, elapsed, counted, marked
<1>. HIDE DEF kept, spared, first
<1>12. ASSUME NEW a \in TrackerType, NEW b \in PlayType, Judging(s.play, b), v = [s EXCEPT !.tracker = a, !.play = b]
       PROVE  /\ v = [stream |-> s.stream, play |-> v.play, left |-> s.left, fifo |-> s.fifo, tracker |-> v.tracker]
              /\ v.play = b /\ v.tracker = a
  <2>. DEFINE w == [stream |-> s.stream, play |-> b, left |-> s.left, fifo |-> s.fifo, tracker |-> a]
  <2>1. v = w
    BY <1>12
  <2>2. v.play = b /\ v.tracker = a
    BY <2>1
  <2>3. QED
    BY <1>12, <2>1, <2>2
<1>13. elapsed = Gap(t, skew) /\ (judged <=> s.play.pending # 0 \/ (s.play.judged /\ elapsed = 0)) /\ t.valid \in BOOLEAN
  BY <1>6 DEF Gap, elapsed, TrackerType
<1>. HIDE DEF judged
<1>14. CASE ~t.valid
  <2>1. v = [s EXCEPT !.tracker = first, !.play = cleared]
    BY <1>11, <1>14
  <2>2. /\ v = [stream |-> s.stream, play |-> v.play, left |-> s.left, fifo |-> s.fifo, tracker |-> v.tracker]
        /\ v.play = cleared /\ v.tracker = first
    BY <1>6, <1>10, <1>12, <2>1
  <2>3. Measured(t, s.play, v.tracker, v.play, skew)
    BY <1>6, <1>14, <2>2 DEF Measured, first
  <2>4. QED
    BY <1>6, <1>10, <2>2, <2>3
<1>15. CASE t.valid /\ judged
  <2>1. v = [s EXCEPT !.tracker = counted, !.play = kept]
    BY <1>11, <1>15
  <2>2. /\ v = [stream |-> s.stream, play |-> v.play, left |-> s.left, fifo |-> s.fifo, tracker |-> v.tracker]
        /\ v.play = kept /\ v.tracker = counted
    BY <1>4, <1>9, <1>12, <2>1
  <2>3. Measured(t, s.play, v.tracker, v.play, skew)
    BY <1>4, <1>9, <1>13, <1>15, <2>2 DEF Measured, counted
  <2>4. QED
    BY <1>4, <1>9, <2>2, <2>3
<1>16. CASE t.valid /\ ~judged
  <2>1. v = [s EXCEPT !.tracker = counted, !.play = spared]
    BY <1>11, <1>16
  <2>2. /\ v = [stream |-> s.stream, play |-> v.play, left |-> s.left, fifo |-> s.fifo, tracker |-> v.tracker]
        /\ v.play = spared /\ v.tracker = counted
    BY <1>4, <1>8, <1>12, <2>1
  <2>3. Measured(t, s.play, v.tracker, v.play, skew)
    BY <1>4, <1>8, <1>13, <1>16, <2>2 DEF Measured, counted
  <2>4. QED
    BY <1>4, <1>8, <2>2, <2>3
<1>17. QED
  BY <1>13, <1>14, <1>15, <1>16

-----------------------------------------------------------------------------
(* on_tx_done().                                                           *)

LEMMA CountFrom ==
  ASSUME NEW a \in Index, NEW n \in Nat, n < Wrap, NEW k \in Nat, k =< n
  PROVE  (((a + n) % Wrap) - (a + k)) % Wrap = n - k
<1>. DEFINE c == Turn(a + n)
<1>1. a \in Int /\ 0 =< a /\ a < Wrap /\ Wrap \in Nat \ {0}
  BY Wraps
<1>2. c = IF a + n < Wrap THEN a + n ELSE a + n - Wrap
  BY <1>1, Wraps
<1>. HIDE DEF c
<1>3. c - (a + k) = IF a + n < Wrap THEN n - k ELSE n - k - Wrap
  BY <1>1, <1>2
<1>4. c - (a + k) \in Int /\ -Wrap =< c - (a + k) /\ c - (a + k) < Wrap
  BY <1>1, <1>3
<1>5. Turn(c - (a + k)) = n - k
  <2>. DEFINE x == c - (a + k)
  <2>1. x \in Int /\ -Wrap =< x /\ x < Wrap /\ x = IF a + n < Wrap THEN n - k ELSE n - k - Wrap
    BY <1>3, <1>4
  <2>. HIDE DEF x
  <2>2. Turn(x) = IF x < 0 THEN x + Wrap ELSE x
    BY <1>1, <2>1, Wraps
  <2>3. Turn(x) = n - k
    BY <1>1, <2>1, <2>2
  <2>4. QED
    BY <2>3 DEF x
<1>6. QED
  BY <1>5 DEF c, Turn

(* A record whose chunk is the next to be sent is not retired.             *)
LEMMA NotSent ==
  ASSUME NEW s, NEW record, s.stream.sent \in Index, record.start = s.stream.sent
  PROVE  ~Sent(s, record)
<1>1. s.stream.sent - record.start = 0
  BY Wraps
<1>2. Turn(0) = 0
  BY Wraps
<1>3. (s.stream.sent - record.start) % Wrap = 0
  BY <1>1, <1>2 DEF Turn
<1>4. QED
  BY <1>3, UacConstants DEF Sent

(* What confirm_loaded() leaves: whether the packet loaded now holds a     *)
(* chunk.                                                                  *)
LEMMA InFlightFacts ==
  ASSUME NEW s, NEW u, NEW loaded, NEW target, Linked(u, loaded, target), s.stream = u.stream, s.fifo = Rest(u.fifo)
  PROVE  InFlight(s, Off(loaded)) <=> Next1(u.fifo) # Zlp
<1>. DEFINE n == Len(u.stream.records)
            k == Off(loaded)
            sent == u.stream.sent
<1>1. /\ Shaped(u, loaded) /\ Paired(u, loaded) /\ Indexed(u)
  BY DEF Linked
<1>2. u.fifo \in Seq(Chunk) /\ sent \in Index /\ n \in Nat /\ n =< Capacity
  BY <1>1 DEF Shaped, StreamType
<1>3. /\ Len(u.fifo) = Off(Next1(u.fifo)) + Len(Rest(u.fifo)) /\ Off(Next1(u.fifo)) \in 0..1
      /\ Rest(u.fifo) \in Seq(Chunk)
  BY <1>2, LoadFacts
<1>4. n = k + Len(u.fifo) /\ k \in 0..1
  BY <1>1 DEF Paired, Off
<1>5. Len(u.fifo) \in Nat /\ Len(Rest(u.fifo)) \in Nat
  BY <1>2, <1>3
<1>6. u.stream.queued = (sent + n) % Wrap
  BY <1>1 DEF Indexed
<1>. HIDE DEF n, k, sent
<1>7. (((sent + n) % Wrap) - (sent + k)) % Wrap = n - k
  <2>1. n < Wrap /\ k \in Nat /\ k =< n
    BY <1>2, <1>4, <1>5, UacConstants
  <2>2. QED
    BY <1>2, <2>1, CountFrom
<1>8. InFlight(s, k) <=> n - k > Len(Rest(u.fifo))
  BY <1>6, <1>7 DEF InFlight, sent
<1>9. n - k > Len(Rest(u.fifo)) <=> Off(Next1(u.fifo)) = 1
  BY <1>3, <1>4, <1>5
<1>10. Off(Next1(u.fifo)) = 1 <=> Next1(u.fifo) # Zlp
  BY DEF Off
<1>11. QED
  BY <1>8, <1>9, <1>10 DEF k

(* A completion is counted once the stream has sent its first chunk.       *)
Reckoned(s, u, loaded, v, skew) ==
  IF u.stream.state = "priming" /\ loaded = Zlp
  THEN /\ v.stream.state = "priming" /\ v.tracker = s.tracker
       /\ v.play.missed = u.play.missed /\ v.play.judged = u.play.judged /\ v.play.unprimed = u.play.unprimed
  ELSE v.stream.state = "streaming" /\ Measured(s.tracker, u.play, v.tracker, v.play, skew)

(* A completion keeps the stream linked to the FIFO the next packet was    *)
(* loaded from, and counts the chunk it confirms for the play it was of.   *)
LEMMA CommitKeeps ==
  ASSUME NEW s, NEW u, NEW loaded, NEW target \in Int, NEW error \in BOOLEAN, NEW skew \in {-1, 1},
         s = [stream |-> u.stream, play |-> u.play, left |-> u.left, fifo |-> Rest(u.fifo), tracker |-> s.tracker],
         s.tracker \in TrackerType, Linked(u, loaded, target),
         u.stream.inFlight <=> loaded # Zlp,
         target # NoStart => loaded # u.play.id,
         NEW v, v = Commit(s, error, skew)
  PROVE  /\ v.tracker \in TrackerType
         /\ Linked(v, Next1(u.fifo), target)
         /\ Completed(u, v, Off(loaded), IF loaded = u.play.id THEN 1 ELSE 0)
         /\ v.stream.inFlight <=> Next1(u.fifo) # Zlp
         /\ v.play.mismatched <=> u.play.mismatched \/ (error /\ u.play.pending # 0)
         /\ Reckoned(s, u, loaded, v, skew)
<1>. DEFINE k == ConfirmLoaded(s, error)
            inFlight == InFlight(s, k)
            mismatched == s.play.mismatched \/ (error /\ s.play.pending # 0)
            doubted == [s EXCEPT !.stream.inFlight = InFlight(s, k),
                                 !.play.mismatched = @ \/ (error /\ s.play.pending # 0)]
            tracked == TrackInterval([doubted EXCEPT !.stream.state = "streaming"], skew)
            x == [tracked EXCEPT !.stream.sent = (@ + k) % Wrap]
            sent == u.stream.sent
            rs == u.stream.records
            next == Next1(u.fifo)
            g == IF loaded = u.play.id THEN 1 ELSE 0
<1>1. v = IF s.stream.state = "priming" /\ k = 0 THEN doubted ELSE Retire(x)
  BY DEF Commit
<1>2. s.stream = u.stream /\ s.play = u.play /\ s.left = u.left /\ s.fifo = Rest(u.fifo)
  <2>1. \A t : [stream |-> u.stream, play |-> u.play, left |-> u.left, fifo |-> Rest(u.fifo), tracker |-> t].stream = u.stream
    OBVIOUS
  <2>2. QED
    OBVIOUS
<1>3. /\ Shaped(u, loaded) /\ Paired(u, loaded) /\ Indexed(u) /\ Owned(u)
      /\ u.stream \in StreamType /\ u.play \in PlayType /\ u.stream.state # "closed"
  BY DEF Linked, Shaped
<1>4. sent \in Index /\ rs \in Seq(Record) /\ u.fifo \in Seq(Chunk) /\ Len(rs) \in Nat /\ Len(rs) =< Capacity /\ u.play.id \in Nat
  <2>1. sent \in Index /\ rs \in Seq(Record)
    BY <1>3 DEF StreamType, Record
  <2>2. u.fifo \in Seq(Chunk) /\ Len(rs) =< Capacity
    BY <1>3 DEF Shaped
  <2>3. u.play.id \in Nat
    BY <1>3, UacConstants DEF PlayType
  <2>4. QED
    BY <2>1, <2>2, <2>3
<1>5. k = Off(loaded) /\ k \in 0..1
  BY <1>2 DEF ConfirmLoaded, Off
<1>6. inFlight <=> next # Zlp
  BY <1>2, <1>5, InFlightFacts
<1>7. inFlight \in BOOLEAN /\ mismatched \in BOOLEAN
  BY DEF InFlight
<1>. DEFINE ds == [u.stream EXCEPT !.inFlight = inFlight]
            dp == [u.play EXCEPT !.mismatched = mismatched]
            ss == [ds EXCEPT !.state = "streaming"]
            n == (sent + k) % Wrap
            xs == [ss EXCEPT !.sent = n]
<1>8. doubted = [stream |-> ds, play |-> dp, left |-> u.left, fifo |-> Rest(u.fifo), tracker |-> s.tracker]
  <2>. DEFINE t == s.tracker
              y == [stream |-> u.stream, play |-> u.play, left |-> u.left, fifo |-> Rest(u.fifo), tracker |-> t]
  <2>1. s = y
    OBVIOUS
  <2>2. doubted = [s EXCEPT !.stream.inFlight = inFlight, !.play.mismatched = mismatched]
    OBVIOUS
  <2>. HIDE DEF t, inFlight, mismatched, doubted
  <2>3. [y EXCEPT !.stream.inFlight = inFlight, !.play.mismatched = mismatched]
          = [stream |-> ds, play |-> dp, left |-> u.left, fifo |-> Rest(u.fifo), tracker |-> t]
    <3>1. [y EXCEPT !.stream.inFlight = inFlight, !.play.mismatched = mismatched] = [y EXCEPT !.stream = ds, !.play = dp]
      OBVIOUS
    <3>. HIDE DEF ds, dp
    <3>2. [y EXCEPT !.stream = ds]
            = [stream |-> ds, play |-> u.play, left |-> u.left, fifo |-> Rest(u.fifo), tracker |-> t]
      OBVIOUS
    <3>3. [y EXCEPT !.stream = ds, !.play = dp] = [[y EXCEPT !.stream = ds] EXCEPT !.play = dp]
      OBVIOUS
    <3>4. [[stream |-> ds, play |-> u.play, left |-> u.left, fifo |-> Rest(u.fifo), tracker |-> t] EXCEPT !.play = dp]
            = [stream |-> ds, play |-> dp, left |-> u.left, fifo |-> Rest(u.fifo), tracker |-> t]
      OBVIOUS
    <3>5. QED
      BY <3>1, <3>2, <3>3, <3>4
  <2>4. QED
    BY <2>1, <2>2, <2>3 DEF t
<1>9. ds \in StreamType /\ dp \in PlayType /\ ss \in StreamType /\ n \in Index
  <2>1. ds \in StreamType
    BY <1>3, <1>7 DEF StreamType
  <2>2. dp \in PlayType
    BY <1>3, <1>7 DEF PlayType
  <2>3. n \in Index
    <3>1. Turn(sent + k) \in Index
      BY <1>4, <1>5, Wraps
    <3>2. QED
      BY <3>1 DEF Turn
  <2>. HIDE DEF ds
  <2>4. ss \in StreamType
    BY <2>1 DEF StreamType
  <2>5. QED
    BY <2>1, <2>2, <2>3, <2>4
<1>10. xs \in StreamType
  <2>. HIDE DEF ss, n
  <2>1. QED
    BY <1>9 DEF StreamType
<1>11. /\ ds.records = rs /\ ds.sent = sent /\ ds.queued = u.stream.queued /\ ds.opens = u.stream.opens
       /\ ds.configured = u.stream.configured /\ ds.state = u.stream.state /\ ds.state # "closed" /\ (ds.inFlight <=> inFlight)
       /\ xs.records = rs /\ xs.sent = n /\ xs.queued = u.stream.queued /\ xs.opens = u.stream.opens
       /\ xs.configured = u.stream.configured /\ xs.state = "streaming" /\ (xs.inFlight <=> inFlight)
  <2>. HIDE DEF n, inFlight, sent, rs
  <2>1. /\ ds.records = u.stream.records /\ ds.sent = u.stream.sent /\ ds.queued = u.stream.queued /\ ds.opens = u.stream.opens
        /\ ds.configured = u.stream.configured /\ ds.state = u.stream.state /\ ds.state # "closed" /\ (ds.inFlight <=> inFlight)
    BY <1>3 DEF StreamType
  <2>2. /\ xs.records = u.stream.records /\ xs.sent = n /\ xs.queued = u.stream.queued /\ xs.opens = u.stream.opens
        /\ xs.configured = u.stream.configured /\ xs.state = "streaming" /\ (xs.inFlight <=> inFlight)
    BY <1>3 DEF StreamType
  <2>3. QED
    BY <2>1, <2>2 DEF rs, sent
<1>12. Judging([u.play EXCEPT !.mismatched = dp.mismatched], dp) /\ (dp.mismatched <=> mismatched)
       /\ dp.id = u.play.id /\ dp.opens = u.play.opens /\ dp.armed = u.play.armed /\ dp.start = u.play.start
       /\ dp.file = u.play.file /\ dp.pending = u.play.pending /\ dp.missed = u.play.missed /\ dp.judged = u.play.judged
       /\ dp.unprimed = u.play.unprimed
  <2>. HIDE DEF mismatched
  <2>1. QED
    BY <1>3 DEF PlayType, Judging
<1>13. mismatched <=> u.play.mismatched \/ (error /\ u.play.pending # 0)
  BY <1>2
<1>. HIDE DEF k, inFlight, mismatched, doubted, tracked, ds, dp, ss, n, xs
<1>14. CASE s.stream.state = "priming" /\ k = 0
  <2>1. v.stream = ds /\ v.play = dp /\ v.left = u.left /\ v.fifo = Rest(u.fifo) /\ v.tracker = s.tracker
    BY <1>1, <1>8, <1>14
  <2>2. loaded = Zlp /\ g = 0
    BY <1>4, <1>5, <1>14 DEF Off, Zlp
  <2>3. sent + 0 = sent /\ sent % Wrap = sent
    <3>1. sent \in Int /\ 0 =< sent /\ sent < Wrap /\ Turn(sent) = sent
      BY <1>4, Wraps
    <3>2. QED
      BY <3>1 DEF Turn
  <2>4. u.play.file + 0 = u.play.file /\ u.play.pending - 0 = u.play.pending
    BY <1>3 DEF PlayType
  <2>5. Completed(u, v, 0, 0)
    BY <1>9, <1>11, <1>12, <2>1, <2>3, <2>4 DEF Completed
  <2>6. Linked(v, next, target)
    BY <2>2, <2>5, NoneRetiredKeeps
  <2>7. Reckoned(s, u, loaded, v, skew)
    BY <1>2, <1>11, <1>12, <1>14, <2>1, <2>2 DEF Reckoned
  <2>8. QED
    BY <1>5, <1>6, <1>11, <1>12, <1>13, <1>14, <2>1, <2>2, <2>5, <2>6, <2>7
<1>15. CASE ~(s.stream.state = "priming" /\ k = 0)
  <2>1. v = Retire(x)
    BY <1>1, <1>15
  <2>. DEFINE d == [doubted EXCEPT !.stream.state = "streaming"]
  <2>2. d = [stream |-> ss, play |-> dp, left |-> u.left, fifo |-> Rest(u.fifo), tracker |-> s.tracker]
    BY <1>8 DEF ss
  <2>3. /\ d.stream = ss /\ d.play = dp /\ d.left = u.left /\ d.fifo = Rest(u.fifo) /\ d.tracker = s.tracker
        /\ d = [stream |-> d.stream, play |-> d.play, left |-> d.left, fifo |-> d.fifo, tracker |-> d.tracker]
    BY <2>2
  <2>4. tracked = TrackInterval(d, skew)
    BY DEF tracked
  <2>. HIDE DEF d
  <2>5. /\ tracked = [stream |-> ss, play |-> tracked.play, left |-> u.left, fifo |-> Rest(u.fifo), tracker |-> tracked.tracker]
        /\ tracked.play \in PlayType /\ tracked.tracker \in TrackerType
        /\ Judging(dp, tracked.play) /\ Measured(s.tracker, dp, tracked.tracker, tracked.play, skew)
    <3>1. d.tracker \in TrackerType /\ d.play \in PlayType
      BY <1>9, <2>3
    <3>2. /\ tracked = [stream |-> d.stream, play |-> tracked.play, left |-> d.left, fifo |-> d.fifo, tracker |-> tracked.tracker]
          /\ tracked.play \in PlayType /\ tracked.tracker \in TrackerType
          /\ Judging(d.play, tracked.play) /\ Measured(d.tracker, d.play, tracked.tracker, tracked.play, skew)
      BY <2>3, <2>4, <3>1, TrackFacts
    <3>3. QED
      BY <2>3, <3>2
  <2>. DEFINE tp == tracked.play
              tt == tracked.tracker
  <2>. HIDE DEF tp, tt
  <2>6. tracked = [stream |-> ss, play |-> tp, left |-> u.left, fifo |-> Rest(u.fifo), tracker |-> tt]
    BY <2>5 DEF tp, tt
  <2>7. ss.sent = sent
    <3>1. ss.sent = ds.sent
      BY <1>9 DEF ss, StreamType
    <3>2. QED
      BY <1>11, <3>1
  <2>8. x = [stream |-> xs, play |-> tp, left |-> u.left, fifo |-> Rest(u.fifo), tracker |-> tt]
    <3>1. [ss EXCEPT !.sent = (@ + k) % Wrap] = xs
      BY <1>9, <2>7 DEF xs, n, StreamType
    <3>2. x = [stream |-> [ss EXCEPT !.sent = (@ + k) % Wrap], play |-> tp, left |-> u.left, fifo |-> Rest(u.fifo), tracker |-> tt]
      BY <2>6
    <3>3. QED
      BY <3>1, <3>2
  <2>. HIDE DEF x
  <2>9. x.stream = xs /\ x.play = tp /\ x.left = u.left /\ x.fifo = Rest(u.fifo) /\ x.tracker = tt
    BY <2>8
  <2>10. /\ tp.id = u.play.id /\ tp.opens = u.play.opens /\ tp.armed = u.play.armed /\ tp.start = u.play.start
         /\ tp.file = u.play.file /\ tp.pending = u.play.pending /\ (tp.mismatched <=> mismatched)
         /\ tp \in PlayType /\ tt \in TrackerType
    BY <1>12, <2>5 DEF Judging, tp, tt
  <2>. DEFINE reckoned == Measured(s.tracker, u.play, tt, tp, skew)
  <2>11. reckoned /\ ~(u.stream.state = "priming" /\ loaded = Zlp)
    <3>1. Measured(s.tracker, dp, tt, tp, skew)
      BY <2>5 DEF tp, tt
    <3>2. reckoned
      BY <1>12, <3>1 DEF Measured
    <3>3. k = 0 <=> loaded = Zlp
      BY <1>5 DEF Off
    <3>4. QED
      BY <1>2, <1>15, <3>2, <3>3
  <2>12. \A i \in 1..Len(rs) : rs[i].start = (sent + i - 1) % Wrap
    BY <1>3 DEF Indexed
  <2>13. /\ sent \in Int /\ 0 =< sent /\ sent < Wrap /\ Turn(sent) = sent
    BY <1>4, Wraps
  <2>14. CASE k = 0
    <3>1. loaded = Zlp /\ g = 0
      BY <1>4, <1>5, <2>14 DEF Off, Zlp
    <3>2. n = sent
      BY <2>13, <2>14 DEF n, Turn
    <3>3. RetireOldest(x) = x
      <4>1. CASE rs = << >>
        BY <1>11, <2>9, <4>1 DEF RetireOldest
      <4>2. CASE rs # << >>
        <5>1. Head(rs) = rs[1] /\ 1 \in 1..Len(rs)
          BY <1>4, <4>2
        <5>2. rs[1].start = (sent + 1 - 1) % Wrap
          BY <2>12, <5>1
        <5>3. sent + 1 - 1 = sent
          BY <2>13
        <5>4. Head(rs).start = sent
          BY <2>13, <5>1, <5>2, <5>3 DEF Turn
        <5>5. ~Sent(x, Head(rs))
          BY <1>4, <1>11, <2>9, <3>2, <5>4, NotSent
        <5>6. QED
          BY <1>11, <2>9, <5>5 DEF RetireOldest
      <4>3. QED
        BY <4>1, <4>2
    <3>4. v = x
      BY <2>1, <3>3, RetireIsOnce
    <3>5. u.play.file + 0 = u.play.file /\ u.play.pending - 0 = u.play.pending
      BY <1>3 DEF PlayType
    <3>6. n = (sent + 0) % Wrap
      BY <2>14 DEF n
    <3>7. Completed(u, v, 0, 0)
      BY <1>10, <1>11, <2>9, <2>10, <3>4, <3>5, <3>6 DEF Completed
    <3>8. Linked(v, next, target)
      BY <3>1, <3>7, NoneRetiredKeeps
    <3>9. Reckoned(s, u, loaded, v, skew)
      BY <1>11, <2>9, <2>11, <3>4 DEF Reckoned
    <3>10. QED
      BY <1>5, <1>6, <1>11, <1>13, <2>9, <2>10, <2>14, <3>1, <3>4, <3>7, <3>8, <3>9
  <2>15. CASE k = 1
    <3>1. loaded # Zlp /\ Off(loaded) = 1
      BY <1>5, <2>15 DEF Off
    <3>2. rs # << >> /\ Head(rs) = rs[1] /\ Len(rs) >= 1 /\ rs[1] \in Record
      <4>1. Len(rs) = 1 + Len(u.fifo)
        BY <1>3, <3>1 DEF Paired
      <4>2. Len(u.fifo) \in Nat
        BY <1>4
      <4>3. Len(rs) >= 1
        BY <4>1, <4>2
      <4>4. rs # << >>
        BY <4>3
      <4>5. QED
        BY <1>4, <4>3, <4>4
    <3>3. Head(rs).start = sent
      <4>1. rs[1].start = (sent + 1 - 1) % Wrap
        BY <1>4, <2>12, <3>2
      <4>2. sent + 1 - 1 = sent
        BY <2>13
      <4>3. QED
        BY <2>13, <3>2, <4>1, <4>2 DEF Turn
    <3>4. n = (sent + 1) % Wrap
      BY <2>15 DEF n
    <3>5. Sent(x, Head(rs))
      <4>1. (((sent + 1) % Wrap) - sent) % Wrap = 1
        <5>1. 1 \in Nat /\ 1 < Wrap
          BY UacConstants
        <5>2. QED
          BY <1>4, <5>1, CountUp
      <4>2. 1 \in 1..Capacity
        BY UacConstants
      <4>3. QED
        BY <1>11, <2>9, <3>3, <3>4, <4>1, <4>2 DEF Sent
    <3>. DEFINE h == Head(rs)
                r == RetireOldest(x)
                ap == Apply(tp, h)
                rst == [xs EXCEPT !.records = Tail(rs)]
    <3>6. r = [stream |-> rst, play |-> ap, left |-> u.left, fifo |-> Rest(u.fifo), tracker |-> tt]
      <4>1. r = [x EXCEPT !.play = Apply(@, h), !.stream.records = Tail(rs)]
        BY <1>11, <2>9, <3>2, <3>5 DEF RetireOldest
      <4>2. QED
        BY <2>8, <4>1
    <3>7. h.file \in 0..1 /\ h.file = g /\ (h.file = 1 <=> loaded = u.play.id)
      <4>1. h.file \in 0..1
        BY <3>2 DEF Record
      <4>2. h.file = 1 <=> loaded = u.play.id
        BY <1>3, <3>1, <3>2 DEF Paired
      <4>3. QED
        BY <4>1, <4>2
    <3>8. h.file = 1 => u.play.pending >= 1
      <4>1. FileCount(rs) = FileCount(Tail(rs)) + h.file
        BY <1>4, <3>2, FileCountTail
      <4>2. FileCount(Tail(rs)) \in Nat
        <5>1. Tail(rs) \in Seq(Record) /\ Len(Tail(rs)) \in Nat
          BY <1>4, <3>2
        <5>2. FileCount(Tail(rs)) \in 0..Len(Tail(rs))
          BY <5>1, FileCountFacts
        <5>3. QED
          BY <5>1, <5>2
      <4>3. u.play.pending = FileCount(rs)
        BY <1>3 DEF Owned
      <4>. HIDE DEF h
      <4>4. QED
        BY <3>7, <4>1, <4>2, <4>3
    <3>. HIDE DEF h
    <3>9. /\ ap \in PlayType /\ ap.file = u.play.file + g /\ ap.pending = u.play.pending - g
          /\ ap.id = u.play.id /\ ap.opens = u.play.opens /\ ap.armed = u.play.armed /\ ap.start = u.play.start
          /\ (ap.mismatched <=> mismatched) /\ ap.missed = tp.missed /\ ap.judged = tp.judged /\ ap.unprimed = tp.unprimed
      <4>1. tp.file \in Nat /\ tp.pending \in Nat
        BY <2>10 DEF PlayType
      <4>2. CASE h.file = 0
        <5>1. ap = tp /\ g = 0
          BY <3>7, <4>2 DEF Apply
        <5>2. QED
          BY <2>10, <4>1, <5>1
      <4>3. CASE h.file = 1
        <5>. DEFINE a == tp.file + 1
                    b == tp.pending - Lesser(tp.pending, 1)
                    y == [tp EXCEPT !.file = a, !.pending = b]
        <5>1. b = tp.pending - 1 /\ a \in Nat /\ b \in Nat /\ g = 1
          <6>1. tp.pending >= 1
            BY <2>10, <3>8, <4>3
          <6>2. Lesser(tp.pending, 1) = 1
            BY <4>1, <6>1 DEF Lesser
          <6>3. g = 1
            BY <3>7, <4>3
          <6>4. QED
            BY <4>1, <6>1, <6>2, <6>3
        <5>2. ap = y
          BY <2>10, <4>3 DEF Apply, PlayType
        <5>. HIDE DEF a, b
        <5>3. y \in PlayType
          BY <2>10, <5>1 DEF PlayType
        <5>4. /\ y.file = a /\ y.pending = b /\ y.id = tp.id /\ y.opens = tp.opens /\ y.armed = tp.armed /\ y.start = tp.start
              /\ y.mismatched = tp.mismatched /\ y.missed = tp.missed /\ y.judged = tp.judged /\ y.unprimed = tp.unprimed
          BY <2>10 DEF PlayType
        <5>. HIDE DEF y
        <5>5. ap.file = u.play.file + g /\ ap.pending = u.play.pending - g
          BY <2>10, <5>1, <5>2, <5>4 DEF a
        <5>6. QED
          BY <2>10, <5>2, <5>3, <5>4, <5>5
      <4>4. QED
        BY <3>7, <4>2, <4>3
    <3>10. /\ Tail(rs) \in Seq(Record) /\ (Tail(rs) # << >> => Head(Tail(rs)) = rs[2] /\ 2 \in 1..Len(rs))
      BY <1>4, <3>2
    <3>11. /\ rst \in StreamType /\ rst.records = Tail(rs) /\ rst.sent = n /\ rst.queued = u.stream.queued
           /\ rst.opens = u.stream.opens /\ rst.configured = u.stream.configured /\ rst.state = "streaming"
           /\ (rst.inFlight <=> inFlight)
      <4>. DEFINE tail == Tail(rs)
      <4>1. tail \in Seq([start : Index, file : 0..1])
        BY <3>10 DEF Record
      <4>. HIDE DEF tail
      <4>2. rst = [xs EXCEPT !.records = tail]
        BY DEF tail
      <4>. HIDE DEF rst
      <4>3. rst \in StreamType
        BY <1>10, <4>1, <4>2 DEF StreamType
      <4>4. /\ rst.records = tail /\ rst.sent = xs.sent /\ rst.queued = xs.queued /\ rst.opens = xs.opens
            /\ rst.configured = xs.configured /\ rst.state = xs.state /\ rst.inFlight = xs.inFlight
        BY <1>10, <4>2 DEF StreamType
      <4>5. QED
        BY <1>11, <4>3, <4>4 DEF tail
    <3>. HIDE DEF r, ap, rst
    <3>12. r.stream = rst /\ r.play = ap /\ r.left = u.left /\ r.fifo = Rest(u.fifo) /\ r.tracker = tt
      BY <3>6
    <3>13. RetireOldest(r) = r
      <4>1. CASE Tail(rs) = << >>
        BY <3>11, <3>12, <4>1 DEF RetireOldest
      <4>2. CASE Tail(rs) # << >>
        <5>1. Head(Tail(rs)).start = (sent + 2 - 1) % Wrap
          BY <2>12, <3>10, <4>2
        <5>2. sent + 2 - 1 = sent + 1
          BY <2>13
        <5>3. Head(Tail(rs)).start = r.stream.sent /\ r.stream.sent \in Index
          BY <1>9, <3>4, <3>11, <3>12, <5>1, <5>2
        <5>4. ~Sent(r, Head(Tail(rs)))
          BY <5>3, NotSent
        <5>5. QED
          BY <3>11, <3>12, <5>4 DEF RetireOldest
      <4>3. QED
        BY <4>1, <4>2
    <3>14. v = r
      BY <2>1, <3>13, RetireIsOnce DEF r
    <3>15. Completed(u, v, 1, g)
      BY <3>4, <3>9, <3>11, <3>12, <3>14 DEF Completed
    <3>16. Linked(v, next, target)
      <4>1. Completed(u, v, 1, Head(u.stream.records).file)
        BY <3>7, <3>15 DEF h
      <4>2. QED
        BY <3>1, <4>1, OneRetiredKeeps
    <3>17. Reckoned(s, u, loaded, v, skew)
      BY <2>11, <3>9, <3>11, <3>12, <3>14 DEF Reckoned, Measured
    <3>18. QED
      BY <1>6, <1>13, <2>10, <3>1, <3>9, <3>11, <3>12, <3>14, <3>15, <3>16, <3>17
  <2>16. QED
    BY <1>5, <2>14, <2>15
<1>16. QED
  BY <1>14, <1>15

-----------------------------------------------------------------------------
(* UacInv of a stream that is open, and of one that is closed, in the      *)
(* terms above.                                                            *)

Now == [stream |-> stream, play |-> play, left |-> left, fifo |-> wire.fifo]

OpenFits ==
  /\ stream.state # "closed"
  /\ Linked(Now, wire.loaded, truth.target)
  /\ stream.inFlight <=> wire.loaded # Zlp
  /\ tracker \in TrackerType /\ wire \in WireType /\ truth \in TruthType
  /\ play.id = truth.plays /\ wire.loaded =< truth.plays
  /\ HostHasSent /\ PlayIsTrue
  /\ truth.target # NoStart => ~(wire.done /\ wire.loaded = play.id)

ClosedFits ==
  /\ stream.state = "closed" /\ UacTypes /\ ClosedHoldsNothing
  /\ play.id = truth.plays /\ play.opens =< stream.opens
  /\ left =< 0 /\ (left = Unarmed => play.file = 0 /\ truth.target = NoStart)
  /\ play.file =< FileChunks /\ PlayIsTrue

LEMMA NowFields == Now.stream = stream /\ Now.play = play /\ Now.left = left /\ Now.fifo = wire.fifo
BY DEF Now

(* The records and the chunks, the one that is loaded in front.            *)
ChunksOf(loaded, fifo) == (IF loaded = Zlp THEN << >> ELSE <<loaded>>) \o fifo
SameFile(records, chunks, id) == \A i \in DOMAIN records : records[i].file = 1 <=> chunks[i] = id
PairedFile(records, loaded, fifo, id) ==
  /\ loaded # Zlp => (records[1].file = 1 <=> loaded = id)
  /\ \A i \in 1..Len(fifo) : records[Off(loaded) + i].file = 1 <=> fifo[i] = id

LEMMA ChunksPaired ==
  ASSUME NEW records \in Seq(Record), NEW loaded \in Chunk \cup {Zlp}, NEW fifo \in Seq(Chunk), NEW id
  PROVE  /\ Len(ChunksOf(loaded, fifo)) = Off(loaded) + Len(fifo)
         /\ Len(records) = Len(ChunksOf(loaded, fifo)) =>
              (SameFile(records, ChunksOf(loaded, fifo), id) <=> PairedFile(records, loaded, fifo, id))
<1>. DEFINE chunks == ChunksOf(loaded, fifo)
<1>0. chunks = (IF loaded = Zlp THEN << >> ELSE <<loaded>>) \o fifo
  BY DEF ChunksOf
<1>. HIDE DEF chunks
<1>. SUFFICES /\ Len(chunks) = Off(loaded) + Len(fifo)
              /\ Len(records) = Len(chunks) => (SameFile(records, chunks, id) <=> PairedFile(records, loaded, fifo, id))
  BY DEF chunks
<1>1. Len(fifo) \in Nat /\ DOMAIN records = 1..Len(records) /\ Len(records) \in Nat
  OBVIOUS
<1>2. CASE loaded = Zlp
  <2>1. chunks = fifo /\ Off(loaded) = 0
    BY <1>0, <1>2 DEF Off
  <2>2. \A i \in 1..Len(fifo) : Off(loaded) + i = i
    BY <1>1, <2>1
  <2>3. QED
    BY <1>1, <1>2, <2>1, <2>2 DEF SameFile, PairedFile
<1>3. CASE loaded # Zlp
  <2>1. Off(loaded) = 1 /\ loaded \in Chunk
    BY <1>3 DEF Off
  <2>2. chunks = <<loaded>> \o fifo
    BY <1>0, <1>3
  <2>3. Len(chunks) = 1 + Len(fifo) /\ chunks[1] = loaded /\ \A i \in 1..Len(fifo) : chunks[1 + i] = fifo[i]
    BY <1>1, <2>1, <2>2
  <2>4. ASSUME Len(records) = Len(chunks), \A i \in DOMAIN records : records[i].file = 1 <=> chunks[i] = id
        PROVE  /\ records[1].file = 1 <=> loaded = id
               /\ \A i \in 1..Len(fifo) : records[1 + i].file = 1 <=> fifo[i] = id
    <3>1. 1 \in DOMAIN records /\ \A i \in 1..Len(fifo) : 1 + i \in DOMAIN records
      BY <1>1, <2>3, <2>4
    <3>2. QED
      BY <2>3, <2>4, <3>1
  <2>5. ASSUME Len(records) = Len(chunks), records[1].file = 1 <=> loaded = id,
               \A i \in 1..Len(fifo) : records[1 + i].file = 1 <=> fifo[i] = id,
               NEW i \in DOMAIN records
        PROVE  records[i].file = 1 <=> chunks[i] = id
    <3>1. CASE i = 1
      BY <2>3, <2>5, <3>1
    <3>2. CASE i # 1
      <4>1. i - 1 \in 1..Len(fifo) /\ 1 + (i - 1) = i
        BY <1>1, <2>3, <2>5, <3>2
      <4>2. (records[1 + (i - 1)].file = 1 <=> fifo[i - 1] = id) /\ chunks[1 + (i - 1)] = fifo[i - 1]
        BY <2>3, <2>5, <4>1
      <4>3. QED
        BY <4>1, <4>2
    <3>3. QED
      BY <3>1, <3>2
  <2>6. QED
    BY <1>3, <2>1, <2>3, <2>4, <2>5 DEF SameFile, PairedFile
<1>4. QED
  BY <1>2, <1>3

LEMMA InvOpens == UacInv /\ stream.state # "closed" => OpenFits
<1>1. SUFFICES ASSUME UacInv, stream.state # "closed" PROVE OpenFits
  OBVIOUS
<1>. DEFINE s == Now
            rs == stream.records
<1>2. /\ UacTypes /\ UacTypeOK /\ RecordsMatchFifo /\ PlayIsTrue
      /\ PlaysArePast /\ FileIsShared /\ HostHasSent /\ StartIsAhead /\ FirstAtTarget
  BY <1>1 DEF UacInv, InStep
<1>3. /\ stream \in StreamType /\ play \in PlayType /\ tracker \in TrackerType /\ wire \in WireType /\ truth \in TruthType
      /\ left \in {Unarmed} \cup 0..FileChunks
  BY <1>2 DEF UacTypes
<1>4. /\ rs \in Seq(Record) /\ wire.fifo \in Seq(Chunk) /\ wire.loaded \in Chunk \cup {Zlp} /\ Len(rs) \in Nat
      /\ DOMAIN rs = 1..Len(rs)
  <2>1. rs \in Seq(Record)
    BY <1>3 DEF StreamType, Record
  <2>2. wire.fifo \in Seq(Chunk) /\ wire.loaded \in Chunk \cup {Zlp}
    BY <1>3 DEF WireType
  <2>3. QED
    BY <2>1, <2>2
<1>5. s.stream = stream /\ s.play = play /\ s.left = left /\ s.fifo = wire.fifo
  BY NowFields
<1>. HIDE DEF s
<1>. DEFINE chunks == ChunksOf(wire.loaded, wire.fifo)
<1>6. /\ Len(rs) = Len(chunks) /\ Len(wire.fifo) =< Target
      /\ stream.inFlight <=> wire.loaded # Zlp
      /\ stream.queued = (stream.sent + Len(rs)) % Wrap
      /\ \A i \in DOMAIN rs : rs[i].start = (stream.sent + i - 1) % Wrap
      /\ SameFile(rs, chunks, play.id)
      /\ play.pending = FileCount(rs)
  <2>1. LET c == (IF wire.loaded = Zlp THEN << >> ELSE <<wire.loaded>>) \o wire.fifo
            records == stream.records
        IN /\ Len(records) = Len(c) /\ Len(wire.fifo) =< Target
           /\ stream.inFlight <=> wire.loaded # Zlp
           /\ stream.queued = (stream.sent + Len(records)) % Wrap
           /\ \A i \in DOMAIN records : /\ records[i].start = (stream.sent + i - 1) % Wrap
                                        /\ (records[i].file = 1) <=> (c[i] = play.id)
           /\ play.pending = Cardinality({i \in DOMAIN records : records[i].file = 1})
    BY <1>1, <1>2, Zenon DEF RecordsMatchFifo
  <2>2. /\ Len(rs) = Len(chunks) /\ Len(wire.fifo) =< Target
        /\ stream.inFlight <=> wire.loaded # Zlp
        /\ stream.queued = (stream.sent + Len(rs)) % Wrap
    BY <2>1, Zenon DEF ChunksOf
  <2>3. play.pending = FileCount(rs)
    BY <2>1, Zenon DEF FileCount, FileAt
  <2>4. \A i \in DOMAIN rs : /\ rs[i].start = (stream.sent + i - 1) % Wrap
                             /\ (rs[i].file = 1) <=> (chunks[i] = play.id)
    BY <2>1, Zenon DEF ChunksOf
  <2>5. ASSUME NEW i \in DOMAIN rs PROVE rs[i].start = (stream.sent + i - 1) % Wrap
    BY <2>4
  <2>6. ASSUME NEW i \in DOMAIN rs PROVE rs[i].file = 1 <=> chunks[i] = play.id
    BY <2>4
  <2>7. SameFile(rs, chunks, play.id)
    BY <2>6 DEF SameFile
  <2>8. QED
    BY <2>2, <2>3, <2>5, <2>7
<1>7. Len(rs) =< Capacity
  BY <1>2 DEF UacTypeOK
<1>8. Shaped(s, wire.loaded)
  BY <1>1, <1>3, <1>4, <1>5, <1>6, <1>7 DEF Shaped
<1>9. Paired(s, wire.loaded)
  <2>. HIDE DEF rs
  <2>1. /\ Len(chunks) = Off(wire.loaded) + Len(wire.fifo)
        /\ PairedFile(rs, wire.loaded, wire.fifo, play.id)
    BY <1>4, <1>6, ChunksPaired
  <2>2. QED
    BY <1>5, <1>6, <2>1 DEF Paired, PairedFile, rs
<1>10. Indexed(s)
  BY <1>4, <1>5, <1>6 DEF Indexed
<1>11. Owned(s)
  <2>1. DOMAIN wire.fifo = 1..Len(wire.fifo)
    BY <1>4
  <2>2. QED
    BY <1>2, <1>5, <1>6, <2>1 DEF Owned, PlaysArePast
<1>12. Shared(s)
  BY <1>2, <1>5 DEF Shared, FileIsShared
<1>13. Timely(s)
  BY <1>2, <1>5 DEF Timely, StartIsAhead
<1>14. OnTarget(s, truth.target)
  <2>1. SUFFICES ASSUME truth.target # NoStart PROVE OnTarget(s, truth.target)
    BY DEF OnTarget
  <2>2. left # Unarmed
    BY <1>2, <2>1 DEF FileIsShared
  <2>3. play.armed => IF play.start = NoStart THEN play.pending # 0 ELSE play.start = truth.target /\ play.pending = 0
    BY <1>2, <2>1 DEF FirstAtTarget
  <2>4. ASSUME NEW i \in 1..Len(rs), rs[i].file = 1, \A j \in 1..i - 1 : rs[j].file = 0
        PROVE  rs[i].start = truth.target
    BY <1>2, <1>4, <2>1, <2>4 DEF FirstAtTarget
  <2>5. QED
    BY <1>5, <2>2, <2>3, <2>4 DEF OnTarget
<1>15. Linked(s, wire.loaded, truth.target)
  BY <1>8, <1>9, <1>10, <1>11, <1>12, <1>13, <1>14 DEF Linked
<1>16. QED
  BY <1>1, <1>2, <1>3, <1>6, <1>15 DEF OpenFits, PlaysArePast, FirstAtTarget, s

LEMMA OpenSuffices == OpenFits => UacInv
<1>1. SUFFICES ASSUME OpenFits PROVE UacInv
  OBVIOUS
<1>. DEFINE s == Now
            rs == stream.records
<1>2. s.stream = stream /\ s.play = play /\ s.left = left /\ s.fifo = wire.fifo
  BY NowFields
<1>. HIDE DEF s
<1>3. /\ Shaped(s, wire.loaded) /\ Paired(s, wire.loaded) /\ Indexed(s) /\ Owned(s) /\ Shared(s) /\ Timely(s)
      /\ OnTarget(s, truth.target)
      /\ stream.state # "closed"
      /\ stream.inFlight <=> wire.loaded # Zlp
      /\ tracker \in TrackerType /\ wire \in WireType /\ truth \in TruthType
      /\ play.id = truth.plays /\ wire.loaded =< truth.plays
      /\ HostHasSent /\ PlayIsTrue
      /\ truth.target # NoStart => ~(wire.done /\ wire.loaded = play.id)
  BY <1>1 DEF OpenFits, Linked, s
<1>4. /\ stream \in StreamType /\ play \in PlayType /\ left \in {Unarmed} \cup 0..FileChunks
      /\ wire.fifo \in Seq(Chunk) /\ wire.loaded \in Chunk \cup {Zlp} /\ Len(rs) =< Capacity /\ Len(wire.fifo) =< Target
  BY <1>2, <1>3 DEF Shaped
<1>5. UacTypes
  BY <1>3, <1>4 DEF UacTypes
<1>6. rs \in Seq(Record) /\ Len(rs) \in Nat /\ DOMAIN rs = 1..Len(rs) /\ DOMAIN wire.fifo = 1..Len(wire.fifo)
  <2>1. rs \in Seq(Record)
    BY <1>4 DEF StreamType, Record
  <2>2. QED
    BY <1>4, <2>1
<1>7. FileCount(rs) \in Nat /\ FileCount(rs) =< Len(rs)
  BY <1>6, FileCountFacts
<1>8. play.pending = FileCount(rs)
  BY <1>2, <1>3 DEF Owned
<1>9. play.file \in Nat /\ play.file =< FileChunks /\ FileChunks \in Nat /\ Capacity \in Nat
  <2>1. play.file \in Nat /\ FileChunks \in Nat /\ Capacity \in Nat
    BY <1>4, UacConstants DEF PlayType
  <2>2. play.file + play.pending + (IF left > 0 THEN left ELSE 0) =< FileChunks
    BY <1>2, <1>3 DEF Shared
  <2>. DEFINE r == IF left > 0 THEN left ELSE 0
  <2>3. r \in Nat
    BY <1>4, <2>1 DEF Unarmed
  <2>4. play.file + play.pending + r =< FileChunks
    BY <2>2
  <2>. HIDE DEF r
  <2>5. QED
    BY <1>7, <1>8, <2>1, <2>3, <2>4
<1>10. UacTypeOK
  <2>1. play.pending \in 0..Capacity /\ play.file \in 0..FileChunks
    BY <1>4, <1>6, <1>7, <1>8, <1>9
  <2>2. /\ stream.state \in {"closed", "priming", "streaming"} /\ stream.configured \in BOOLEAN /\ stream.inFlight \in BOOLEAN
        /\ stream.opens \in 0..Budget /\ stream.queued \in Index /\ stream.sent \in Index
    BY <1>4 DEF StreamType
  <2>3. play.id \in 0..Budget /\ play.opens \in 0..Budget /\ play.start \in Index \cup {NoStart}
    BY <1>4 DEF PlayType
  <2>4. QED
    BY <1>4, <2>1, <2>2, <2>3 DEF UacTypeOK
<1>11. RecordsMatchFifo
  <2>. DEFINE chunks == ChunksOf(wire.loaded, wire.fifo)
  <2>1. Len(rs) = Off(wire.loaded) + Len(wire.fifo) /\ PairedFile(rs, wire.loaded, wire.fifo, play.id)
    BY <1>2, <1>3 DEF Paired, PairedFile
  <2>2. Len(rs) = Len(chunks) /\ SameFile(rs, chunks, play.id)
    BY <1>4, <1>6, <2>1, ChunksPaired
  <2>3. /\ stream.queued = (stream.sent + Len(rs)) % Wrap
        /\ \A i \in 1..Len(rs) : rs[i].start = (stream.sent + i - 1) % Wrap
    BY <1>2, <1>3 DEF Indexed
  <2>4. \A i \in DOMAIN rs : /\ rs[i].start = (stream.sent + i - 1) % Wrap
                             /\ (rs[i].file = 1) <=> (chunks[i] = play.id)
    <3>. HIDE DEF chunks
    <3>1. QED
      BY <1>6, <2>2, <2>3 DEF SameFile
  <2>5. play.pending = Cardinality({i \in DOMAIN rs : rs[i].file = 1})
    BY <1>8, Zenon DEF FileCount, FileAt
  <2>6. QED
    BY <1>3, <1>4, <2>2, <2>3, <2>4, <2>5, Zenon DEF RecordsMatchFifo, ChunksOf
<1>12. ClosedHoldsNothing
  BY <1>3 DEF ClosedHoldsNothing
<1>13. PlaysArePast
  BY <1>2, <1>3, <1>6 DEF PlaysArePast, Owned
<1>14. FileIsShared
  <2>1. left = Unarmed => truth.target = NoStart
    BY <1>2, <1>3 DEF OnTarget
  <2>2. QED
    BY <1>2, <1>3, <2>1 DEF FileIsShared, Shared
<1>15. StartIsAhead
  BY <1>2, <1>3 DEF StartIsAhead, Timely
<1>16. FirstAtTarget
  <2>1. SUFFICES ASSUME truth.target # NoStart PROVE FirstAtTarget
    BY DEF FirstAtTarget
  <2>2. /\ play.armed => IF play.start = NoStart THEN play.pending # 0 ELSE play.start = truth.target /\ play.pending = 0
        /\ \A i \in 1..Len(rs) :
             /\ rs[i].file = 1
             /\ \A j \in 1..i - 1 : rs[j].file = 0
             => rs[i].start = truth.target
    BY <1>2, <1>3, <2>1 DEF OnTarget
  <2>3. QED
    BY <1>3, <1>6, <2>1, <2>2 DEF FirstAtTarget
<1>17. QED
  BY <1>3, <1>5, <1>10, <1>11, <1>12, <1>13, <1>14, <1>15, <1>16 DEF UacInv, InStep

LEMMA OpenSufficesNext == OpenFits' => UacInv'
BY OpenSuffices, PTL

LEMMA InvCloses == UacInv /\ stream.state = "closed" => ClosedFits
BY UacConstants DEF UacInv, ClosedFits, PlaysArePast, FileIsShared, ClosedHoldsNothing, UacTypes, UacTypeOK, InStep, Unarmed, Zlp

LEMMA ClosedSuffices == ClosedFits => UacInv
<1>1. SUFFICES ASSUME ClosedFits PROVE UacInv
  OBVIOUS
<1>2. /\ stream.state = "closed" /\ UacTypes /\ ClosedHoldsNothing
      /\ play.id = truth.plays /\ play.opens =< stream.opens
      /\ left =< 0 /\ (left = Unarmed => play.file = 0 /\ truth.target = NoStart)
      /\ play.file =< FileChunks /\ PlayIsTrue
      /\ truth.plays \in Nat
  BY <1>1 DEF ClosedFits, UacTypes, TruthType
<1>3. /\ stream.records = << >> /\ ~stream.inFlight /\ stream.sent = 0 /\ stream.queued = 0
      /\ wire = Unplugged /\ truth.index = 0 /\ ~play.armed /\ play.pending = 0
  BY <1>2 DEF ClosedHoldsNothing
<1>4. wire.fifo = << >> /\ wire.loaded = Zlp /\ ~wire.done
  BY <1>3 DEF Unplugged
<1>5. stream \in StreamType /\ play \in PlayType /\ left \in {Unarmed} \cup 0..FileChunks
  BY <1>2 DEF UacTypes
<1>6. UacTypeOK
  <2>1. /\ stream.state \in {"closed", "priming", "streaming"} /\ stream.configured \in BOOLEAN /\ stream.inFlight \in BOOLEAN
        /\ stream.opens \in 0..Budget /\ stream.queued \in Index /\ stream.sent \in Index
    BY <1>5 DEF StreamType
  <2>2. play.id \in 0..Budget /\ play.opens \in 0..Budget /\ play.start \in Index \cup {NoStart} /\ play.file \in Nat
    BY <1>5 DEF PlayType
  <2>3. Len(stream.records) =< Capacity /\ play.pending \in 0..Capacity /\ play.file \in 0..FileChunks
    BY <1>2, <1>3, <2>2, UacConstants
  <2>4. QED
    BY <1>5, <2>1, <2>2, <2>3 DEF UacTypeOK
<1>7. RecordsMatchFifo
  BY <1>2 DEF RecordsMatchFifo
<1>8. PlaysArePast
  BY <1>2, <1>3, <1>4 DEF PlaysArePast, Zlp
<1>9. FileIsShared
  <2>1. play.file \in Nat /\ FileChunks \in Nat
    BY <1>5, UacConstants DEF PlayType
  <2>2. ~(left > 0)
    BY <1>2, <1>5, UacConstants DEF Unarmed
  <2>3. QED
    BY <1>2, <1>3, <2>1, <2>2 DEF FileIsShared
<1>10. HostHasSent /\ StartIsAhead
  BY <1>2, <1>3 DEF HostHasSent, StartIsAhead
<1>11. FirstAtTarget
  BY <1>3, <1>4 DEF FirstAtTarget
<1>12. QED
  BY <1>2, <1>6, <1>7, <1>8, <1>9, <1>10, <1>11 DEF UacInv, InStep

LEMMA ClosedSufficesNext == ClosedFits' => UacInv'
BY ClosedSuffices, PTL

(* The terms above of the state after a step.                              *)
LEMMA NextFields ==
  /\ Now'.stream = stream' /\ Now'.play = play' /\ Now'.left = left' /\ Now'.fifo = wire'.fifo
  /\ Now' = [stream |-> stream', play |-> play', left |-> left', fifo |-> wire'.fifo]
BY DEF Now

-----------------------------------------------------------------------------
(* What the operators on the records leave.                                *)

LEMMA UnpluggedFacts ==
  /\ Unplugged \in WireType /\ NoInterval \in TrackerType
  /\ Unplugged.fifo = << >> /\ Unplugged.loaded = Zlp /\ Unplugged.done = FALSE
<1>1. NoTimer \in [left : Int, expired : BOOLEAN]
  BY DEF NoTimer
<1>2. << >> \in Seq(Chunk) /\ Zlp \in Chunk \cup {Zlp}
  OBVIOUS
<1>3. Unplugged \in WireType
  BY <1>1, <1>2 DEF Unplugged, WireType
<1>4. QED
  BY <1>3, TrackerStarts DEF Unplugged

LEMMA EndStreamFacts ==
  ASSUME NEW s \in StreamType, NEW e, e = EndStream(s)
  PROVE  /\ e \in StreamType /\ e.state = "closed" /\ e.records = << >> /\ e.inFlight = FALSE /\ e.sent = 0 /\ e.queued = 0
         /\ e.opens = s.opens /\ e.configured = s.configured
<1>1. 0 \in Index /\ << >> \in Seq([start : Index, file : 0..1])
  BY Wraps
<1>2. e = [s EXCEPT !.state = "closed", !.records = << >>, !.inFlight = FALSE, !.sent = 0, !.queued = 0]
  BY DEF EndStream
<1>3. e = [state |-> "closed", configured |-> s.configured, opens |-> s.opens, queued |-> 0, sent |-> 0, inFlight |-> FALSE, records |-> << >>]
  BY <1>2 DEF StreamType
<1>4. s.configured \in BOOLEAN /\ s.opens \in 0..Budget
  BY DEF StreamType
<1>5. QED
  BY <1>1, <1>3, <1>4 DEF StreamType

LEMMA EndPlayFacts ==
  ASSUME NEW p \in PlayType, NEW e, e = EndPlay(p)
  PROVE  /\ e \in PlayType /\ e.pending = 0 /\ e.start = NoStart /\ ~e.armed
         /\ e.id = p.id /\ e.opens = p.opens /\ e.file = p.file /\ e.mismatched = p.mismatched
         /\ e.missed = p.missed /\ e.judged = FALSE /\ e.unprimed = p.unprimed
<1>. DEFINE interrupted == p.interrupted \/ p.armed
<1>1. e = [p EXCEPT !.pending = 0, !.judged = FALSE, !.start = NoStart, !.armed = FALSE, !.interrupted = interrupted]
  BY DEF EndPlay
<1>2. interrupted \in BOOLEAN
  OBVIOUS
<1>. HIDE DEF interrupted
<1>3. e.pending = 0 /\ e.start = NoStart /\ e.armed = FALSE /\ e.judged = FALSE /\ e.interrupted = interrupted
  BY <1>1 DEF PlayType
<1>4. /\ e.id = p.id /\ e.opens = p.opens /\ e.file = p.file /\ e.mismatched = p.mismatched
      /\ e.missed = p.missed /\ e.unprimed = p.unprimed /\ e.unconfirmed = p.unconfirmed
  BY <1>1 DEF PlayType
<1>5. e = [id |-> p.id, opens |-> p.opens, armed |-> FALSE, interrupted |-> interrupted, start |-> NoStart, file |-> p.file,
           pending |-> 0, missed |-> p.missed, unprimed |-> p.unprimed, unconfirmed |-> p.unconfirmed, judged |-> FALSE,
           mismatched |-> p.mismatched]
  BY <1>1 DEF PlayType
<1>6. e \in PlayType
  BY <1>2, <1>5 DEF PlayType
<1>7. QED
  BY <1>3, <1>4, <1>6

LEMMA NothingSeenFacts ==
  ASSUME truth \in TruthType
  PROVE  /\ NothingSeen \in TruthType /\ NothingSeen.index = 0
         /\ NothingSeen.plays = truth.plays /\ NothingSeen.sent = truth.sent /\ NothingSeen.target = truth.target
         /\ NothingSeen.astray = truth.astray /\ NothingSeen.doubt = truth.doubt
         /\ NothingSeen.device = 0 /\ NothingSeen.host = 0
<1>1. 0 \in Index
  BY Wraps
<1>2. /\ NothingSeen.plays = truth.plays /\ NothingSeen.sent = truth.sent /\ NothingSeen.target = truth.target
      /\ NothingSeen.astray = truth.astray /\ NothingSeen.doubt = truth.doubt
      /\ NothingSeen.device = 0 /\ NothingSeen.host = 0
  BY DEF NothingSeen, TruthType
<1>. DEFINE a == [truth EXCEPT !.device = 0]
            b == [a EXCEPT !.host = 0]
            c == [b EXCEPT !.errors = 0]
            d == [c EXCEPT !.late = FALSE]
            e == [d EXCEPT !.base = FALSE]
            f == [e EXCEPT !.index = 0]
<1>3. f = NothingSeen
  BY DEF NothingSeen
<1>4. a \in TruthType
  BY DEF TruthType
<1>. HIDE DEF a
<1>5. b \in TruthType
  BY <1>4 DEF TruthType
<1>. HIDE DEF b
<1>6. c \in TruthType
  BY <1>5 DEF TruthType
<1>. HIDE DEF c
<1>7. d \in TruthType
  BY <1>6 DEF TruthType
<1>. HIDE DEF d
<1>8. e \in TruthType
  BY <1>7 DEF TruthType
<1>. HIDE DEF e
<1>9. f \in TruthType /\ f.index = 0
  BY <1>1, <1>8 DEF TruthType
<1>10. QED
  BY <1>2, <1>3, <1>9

-----------------------------------------------------------------------------
(* The stream closes: a configuration, and close().                        *)

LEMMA ClosingKeeps ==
  ASSUME UacInv, stream' \in StreamType, stream'.state = "closed", stream'.records = << >>, ~stream'.inFlight,
         stream'.sent = 0, stream'.queued = 0, stream'.opens = stream.opens,
         play' = EndPlay(play), left' = IF play.armed THEN 0 ELSE left,
         wire' = Unplugged, tracker' = NoInterval, truth' = NothingSeen
  PROVE  UacInv'
<1>1. /\ UacTypes /\ UacTypeOK /\ PlayIsTrue /\ PlaysArePast /\ FileIsShared
  BY DEF UacInv, InStep
<1>2. /\ play \in PlayType /\ truth \in TruthType /\ left \in {Unarmed} \cup 0..FileChunks
  BY <1>1 DEF UacTypes
<1>3. /\ play' \in PlayType /\ play'.pending = 0 /\ play'.start = NoStart /\ ~play'.armed
      /\ play'.id = play.id /\ play'.opens = play.opens /\ play'.file = play.file /\ play'.mismatched = play.mismatched
  BY <1>2, EndPlayFacts
<1>4. /\ truth' \in TruthType /\ truth'.index = 0
      /\ truth'.plays = truth.plays /\ truth'.sent = truth.sent /\ truth'.target = truth.target
      /\ truth'.astray = truth.astray /\ truth'.doubt = truth.doubt
  BY <1>2, NothingSeenFacts
<1>5. wire' \in WireType /\ tracker' \in TrackerType
  BY UnpluggedFacts
<1>6. left' \in {Unarmed} \cup 0..FileChunks /\ left' =< 0 /\ (left' = Unarmed => left = Unarmed)
  BY <1>1, <1>2, UacConstants DEF FileIsShared, Unarmed
<1>7. UacTypes'
  BY <1>3, <1>4, <1>5, <1>6 DEF UacTypes
<1>8. ClosedHoldsNothing'
  BY <1>3, <1>4 DEF ClosedHoldsNothing, Unplugged, NoTimer
<1>9. PlayIsTrue'
  BY <1>1, <1>3, <1>4 DEF PlayIsTrue, Current
<1>10. play'.file =< FileChunks
  BY <1>1, <1>3, UacConstants DEF UacTypeOK
<1>11. /\ play'.id = truth'.plays /\ play'.opens =< stream'.opens
       /\ left' = Unarmed => play'.file = 0 /\ truth'.target = NoStart
  BY <1>1, <1>3, <1>4, <1>6 DEF PlaysArePast, FileIsShared
<1>12. ClosedFits'
  BY <1>6, <1>7, <1>8, <1>9, <1>10, <1>11 DEF ClosedFits
<1>13. QED
  BY <1>12, ClosedSufficesNext

LEMMA ConfigureStep == ASSUME UacInv, NEW configured \in BOOLEAN, Configure(configured) PROVE UacInv'
<1>. DEFINE e == EndStream(stream)
<1>1. stream \in StreamType
  BY DEF UacInv, UacTypes
<1>2. /\ e \in StreamType /\ e.state = "closed" /\ e.records = << >> /\ e.inFlight = FALSE /\ e.sent = 0 /\ e.queued = 0
      /\ e.opens = stream.opens
  BY <1>1, EndStreamFacts
<1>3. /\ stream' = [e EXCEPT !.configured = configured]
      /\ play' = EndPlay(play) /\ left' = IF play.armed THEN 0 ELSE left
      /\ wire' = Unplugged /\ tracker' = NoInterval /\ truth' = NothingSeen
  BY DEF Configure
<1>. HIDE DEF e
<1>4. /\ stream' \in StreamType /\ stream'.state = "closed" /\ stream'.records = << >> /\ ~stream'.inFlight
      /\ stream'.sent = 0 /\ stream'.queued = 0 /\ stream'.opens = stream.opens
  BY <1>2, <1>3 DEF StreamType
<1>5. QED
  BY <1>3, <1>4, ClosingKeeps

LEMMA CloseStep == ASSUME UacInv, Close PROVE UacInv'
<1>1. stream \in StreamType
  BY DEF UacInv, UacTypes
<1>2. /\ stream' = EndStream(stream)
      /\ play' = EndPlay(play) /\ left' = IF play.armed THEN 0 ELSE left
      /\ wire' = Unplugged /\ tracker' = NoInterval /\ truth' = NothingSeen
  BY DEF Close
<1>3. /\ stream' \in StreamType /\ stream'.state = "closed" /\ stream'.records = << >> /\ stream'.inFlight = FALSE
      /\ stream'.sent = 0 /\ stream'.queued = 0 /\ stream'.opens = stream.opens
  BY <1>1, <1>2, EndStreamFacts
<1>4. QED
  BY <1>2, <1>3, ClosingKeeps

-----------------------------------------------------------------------------
(* The stream opens: open() pre-fills TinyUSB's FIFO.                      *)

(* What an opening leaves of the play before it.                           *)
Opens ==
  /\ stream'.state = "priming" /\ ~wire'.done /\ tracker' = NoInterval /\ truth' = NothingSeen
  /\ play'.missed = play.missed /\ ~play'.judged /\ ~play'.armed /\ play'.opens # stream'.opens
  /\ play'.unprimed = play.unprimed /\ wire'.timer = NoTimer
  /\ left' =< 0 /\ (left' = Unarmed => left = Unarmed)

LEMMA OpenStep == ASSUME UacInv, Open PROVE UacInv' /\ Opens
<1>. DEFINE es == EndStream(stream)
            opened == [es EXCEPT !.state = "priming", !.opens = @ + 1]
            ep == EndPlay(play)
            given == IF play.armed THEN 0 ELSE left
            s == [stream |-> opened, play |-> ep, fifo |-> << >>, left |-> given]
            t == TopUp(s)
<1>1. /\ UacTypes /\ UacTypeOK /\ PlayIsTrue /\ PlaysArePast /\ FileIsShared
  BY DEF UacInv, InStep
<1>2. /\ stream \in StreamType /\ play \in PlayType /\ truth \in TruthType /\ left \in {Unarmed} \cup 0..FileChunks
  BY <1>1 DEF UacTypes
<1>3. /\ Spent < Budget /\ stream' = t.stream /\ play' = t.play /\ left' = t.left
      /\ wire' = [Unplugged EXCEPT !.fifo = t.fifo]
      /\ tracker' = NoInterval /\ truth' = NothingSeen
  BY DEF Open, Becomes
<1>4. /\ ep \in PlayType /\ ep.pending = 0 /\ ep.start = NoStart /\ ~ep.armed
      /\ ep.id = play.id /\ ep.opens = play.opens /\ ep.file = play.file /\ ep.mismatched = play.mismatched
      /\ ep.missed = play.missed /\ ep.judged = FALSE /\ ep.unprimed = play.unprimed
  BY <1>2, EndPlayFacts
<1>5. /\ NothingSeen \in TruthType /\ NothingSeen.index = 0
      /\ NothingSeen.plays = truth.plays /\ NothingSeen.sent = truth.sent /\ NothingSeen.target = truth.target
      /\ NothingSeen.astray = truth.astray /\ NothingSeen.doubt = truth.doubt
  BY <1>2, NothingSeenFacts
<1>6. /\ es \in StreamType /\ es.records = << >> /\ es.inFlight = FALSE /\ es.sent = 0 /\ es.queued = 0
      /\ es.opens = stream.opens
  BY <1>2, EndStreamFacts
<1>7. stream.opens \in Nat /\ stream.opens + 1 \in 0..Budget
  <2>1. /\ stream.opens \in Nat /\ truth.plays \in Nat /\ truth.device \in Nat /\ truth.host \in Nat /\ truth.errors \in Nat
    BY <1>2, UacConstants DEF StreamType, TruthType
  <2>2. stream.opens + truth.plays + (truth.device + truth.host) + truth.errors < Budget
    BY <1>3, Zenon DEF Spent, Lost
  <2>3. QED
    BY <2>1, <2>2, UacConstants
<1>. HIDE DEF es, ep
<1>8. /\ opened \in StreamType /\ opened.state = "priming" /\ opened.records = << >> /\ opened.inFlight = FALSE
      /\ opened.sent = 0 /\ opened.queued = 0 /\ opened.opens = stream.opens + 1
  BY <1>6, <1>7 DEF StreamType
<1>9. given \in {Unarmed} \cup 0..FileChunks /\ given =< 0 /\ (given = Unarmed => left = Unarmed)
  BY <1>1, <1>2, UacConstants DEF FileIsShared, Unarmed
<1>. HIDE DEF opened, given
<1>10. s.stream = opened /\ s.play = ep /\ s.fifo = << >> /\ s.left = given
  OBVIOUS
<1>. HIDE DEF s
<1>11. Linked(s, Zlp, truth.target)
  <2>1. Shaped(s, Zlp)
    BY <1>4, <1>8, <1>9, <1>10, UacConstants DEF Shaped
  <2>2. Paired(s, Zlp)
    BY <1>8, <1>10 DEF Paired, Off
  <2>3. Indexed(s)
    <3>1. Turn(0 + 0) = 0
      BY Wraps
    <3>2. QED
      BY <1>8, <1>10, <3>1 DEF Indexed, Turn
  <2>4. Owned(s)
    <3>1. << >> \in Seq(Record) /\ FileCount(<< >>) = 0
      <4>1. << >> \in Seq(Record) /\ Len(<< >>) = 0
        OBVIOUS
      <4>2. FileCount(<< >>) \in 0..0
        BY <4>1, FileCountFacts
      <4>3. QED
        BY <4>1, <4>2
    <3>2. play.opens \in Nat /\ play.opens =< stream.opens
      BY <1>1, <1>2, UacConstants DEF PlaysArePast, PlayType
    <3>3. QED
      BY <1>4, <1>7, <1>8, <1>10, <3>1, <3>2 DEF Owned
  <2>5. Shared(s)
    <3>1. ~(given > 0) /\ (given = Unarmed => play.file = 0)
      BY <1>1, <1>9, UacConstants DEF FileIsShared, Unarmed
    <3>2. play.file \in Nat /\ play.file =< FileChunks
      BY <1>1, <1>2, UacConstants DEF UacTypeOK, PlayType
    <3>3. QED
      BY <1>4, <1>10, <3>1, <3>2 DEF Shared
  <2>6. Timely(s)
    BY <1>4, <1>10 DEF Timely
  <2>7. OnTarget(s, truth.target)
    BY <1>1, <1>4, <1>8, <1>9, <1>10 DEF OnTarget, FileIsShared
  <2>8. QED
    BY <2>1, <2>2, <2>3, <2>4, <2>5, <2>6, <2>7 DEF Linked
<1>12. truth.target \in Int
  BY <1>2, Wraps DEF TruthType, NoStart
<1>13. Linked(t, Zlp, truth.target) /\ Same(s, t) /\ Begins(s, t)
  BY <1>11, <1>12, TopUpKeeps
<1>. HIDE DEF t
<1>14. /\ t.stream.state = "priming" /\ t.stream.opens = stream.opens + 1 /\ t.stream.sent = 0 /\ t.stream.inFlight = FALSE
       /\ t.play.id = play.id /\ t.play.opens = play.opens /\ t.play.file = play.file /\ t.play.mismatched = play.mismatched
       /\ t.play.missed = play.missed /\ ~t.play.judged /\ ~t.play.armed /\ t.play.unprimed = play.unprimed
  BY <1>4, <1>8, <1>10, <1>13 DEF Same
<1>15. t.fifo \in Seq(Chunk) /\ Shaped(t, Zlp)
  BY <1>13 DEF Linked, Shaped
<1>16. wire' \in WireType /\ wire'.fifo = t.fifo /\ wire'.loaded = Zlp /\ wire'.done = FALSE
  BY <1>3, <1>15, UnpluggedFacts DEF WireType
<1>17. Linked(Now', wire'.loaded, truth'.target)
  <2>1. /\ Now'.stream = t.stream /\ Now'.play = t.play /\ Now'.left = t.left /\ Now'.fifo = t.fifo
    BY <1>3, <1>16, NextFields
  <2>2. truth'.target = truth.target
    BY <1>3, <1>5
  <2>. HIDE DEF Now
  <2>3. QED
    BY <1>13, <1>16, <2>1, <2>2 DEF Linked, Shaped, Paired, Indexed, Owned, Shared, Timely, OnTarget
<1>18. HostHasSent'
  <2>1. Turn(0 + 0) = 0
    BY Wraps
  <2>2. truth'.index = 0 /\ stream'.sent = 0 /\ ~wire'.done
    BY <1>3, <1>5, <1>14, <1>16
  <2>3. QED
    BY <2>1, <2>2 DEF HostHasSent, Turn
<1>19. PlayIsTrue'
  <2>1. play.opens # stream.opens + 1
    BY <1>1, <1>2, <1>7, UacConstants DEF PlaysArePast, PlayType
  <2>2. QED
    BY <1>1, <1>3, <1>5, <1>14, <2>1 DEF PlayIsTrue, Current
<1>20. /\ tracker' \in TrackerType /\ truth' \in TruthType
       /\ play'.id = truth'.plays /\ wire'.loaded =< truth'.plays
  <2>1. truth.plays \in Nat
    BY <1>2 DEF TruthType
  <2>2. QED
    BY <1>1, <1>3, <1>5, <1>14, <1>16, <2>1, UnpluggedFacts DEF PlaysArePast, Zlp
<1>21. OpenFits'
  BY <1>3, <1>14, <1>16, <1>17, <1>18, <1>19, <1>20 DEF OpenFits
<1>22. Opens
  <2>1. play.opens # stream.opens + 1
    BY <1>1, <1>2, <1>7, UacConstants DEF PlaysArePast, PlayType
  <2>2. t.left =< given /\ (t.left = Unarmed => given = Unarmed)
    BY <1>10, <1>13 DEF Begins
  <2>3. t.left \in Int /\ given \in Int
    BY <1>9, <1>13, UacConstants DEF Linked, Shaped, Unarmed
  <2>4. left' =< 0 /\ (left' = Unarmed => left = Unarmed)
    BY <1>3, <1>9, <2>2, <2>3
  <2>5. wire'.timer = NoTimer
    BY <1>3 DEF Unplugged
  <2>6. QED
    BY <1>3, <1>14, <1>16, <2>1, <2>4, <2>5 DEF Opens
<1>23. QED
  BY <1>21, <1>22, OpenSufficesNext

-----------------------------------------------------------------------------
(* The player's calls.                                                     *)

LEMMA ForgetFacts ==
  ASSUME NEW records \in Seq(Record), NEW r, r = Forget(records)
  PROVE  /\ r \in Seq(Record) /\ Len(r) = Len(records)
         /\ \A i \in 1..Len(records) : r[i].start = records[i].start /\ r[i].file = 0
         /\ FileCount(r) = 0
<1>1. Len(records) \in Nat /\ DOMAIN records = 1..Len(records)
  OBVIOUS
<1>2. ASSUME NEW i \in 1..Len(records)
      PROVE  /\ [records[i] EXCEPT !.file = 0] \in Record
             /\ [records[i] EXCEPT !.file = 0].start = records[i].start /\ [records[i] EXCEPT !.file = 0].file = 0
  <2>1. records[i] \in Record
    BY <1>1
  <2>2. QED
    BY <2>1 DEF Record
<1>3. r = [i \in 1..Len(records) |-> [records[i] EXCEPT !.file = 0]]
  BY <1>1 DEF Forget
<1>4. r \in Seq(Record) /\ Len(r) = Len(records)
  BY <1>1, <1>2, <1>3
<1>5. \A i \in 1..Len(records) : r[i].start = records[i].start /\ r[i].file = 0
  BY <1>2, <1>3
<1>6. FileCount(r) = 0
  BY <1>1, <1>4, <1>5, FileCountFacts
<1>7. QED
  BY <1>4, <1>5, <1>6

NewPlay(id, opens) == [NoPlay(id) EXCEPT !.opens = opens]

LEMMA NewPlayFacts ==
  ASSUME NEW id \in 0..Budget, NEW opens \in 0..Budget
  PROVE  /\ NewPlay(id, opens) \in PlayType /\ NewPlay(id, opens).id = id /\ NewPlay(id, opens).opens = opens
         /\ ~NewPlay(id, opens).armed /\ NewPlay(id, opens).start = NoStart
         /\ NewPlay(id, opens).file = 0 /\ NewPlay(id, opens).pending = 0
         /\ NewPlay(id, opens).missed = 0 /\ NewPlay(id, opens).judged = FALSE /\ NewPlay(id, opens).unprimed = 0
<1>. DEFINE n == NoPlay(id)
<1>1. NoStart \in Index \cup {NoStart} /\ 0 \in 0..Budget
  BY UacConstants
<1>2. /\ n \in PlayType /\ n.id = id /\ n.armed = FALSE /\ n.start = NoStart /\ n.file = 0 /\ n.pending = 0
      /\ n.missed = 0 /\ n.judged = FALSE /\ n.unprimed = 0
  BY <1>1 DEF NoPlay, PlayType
<1>3. NewPlay(id, opens) = [n EXCEPT !.opens = opens]
  BY DEF NewPlay
<1>. HIDE DEF n
<1>4. QED
  BY <1>2, <1>3 DEF PlayType

LEMMA NewPlayTruth ==
  ASSUME truth \in TruthType,
         NEW t, t = [truth EXCEPT !.plays = @ + 1, !.sent = 0, !.target = NoStart, !.astray = FALSE, !.doubt = FALSE]
  PROVE  /\ t \in TruthType /\ t.plays = truth.plays + 1 /\ t.sent = 0 /\ t.target = NoStart /\ t.astray = FALSE /\ t.doubt = FALSE
         /\ t.index = truth.index
<1>. DEFINE p == truth.plays + 1
            a == [truth EXCEPT !.plays = p]
            b == [a EXCEPT !.sent = 0]
            c == [b EXCEPT !.target = NoStart]
            d == [c EXCEPT !.astray = FALSE]
            e == [d EXCEPT !.doubt = FALSE]
<1>1. p \in Nat
  BY DEF TruthType
<1>2. e = t
  OBVIOUS
<1>. HIDE DEF p
<1>3. a \in TruthType /\ a.plays = p /\ a.index = truth.index
  BY <1>1 DEF TruthType
<1>. HIDE DEF a
<1>4. b \in TruthType /\ b.plays = p /\ b.index = truth.index /\ b.sent = 0
  BY <1>3 DEF TruthType
<1>. HIDE DEF b
<1>5. c \in TruthType /\ c.plays = p /\ c.index = truth.index /\ c.sent = 0 /\ c.target = NoStart
  BY <1>4 DEF TruthType
<1>. HIDE DEF c
<1>6. d \in TruthType /\ d.plays = p /\ d.index = truth.index /\ d.sent = 0 /\ d.target = NoStart /\ d.astray = FALSE
  BY <1>5 DEF TruthType
<1>. HIDE DEF d
<1>7. e \in TruthType /\ e.plays = p /\ e.index = truth.index /\ e.sent = 0 /\ e.target = NoStart /\ e.astray = FALSE /\ e.doubt = FALSE
  BY <1>6 DEF TruthType
<1>8. QED
  BY <1>2, <1>7 DEF p

LEMMA RestartStep ==
  ASSUME UacInv, NEW opens \in 0..Budget, opens =< stream.opens, NEW chunks \in {Unarmed, 0}, RestartPlay(opens, chunks)
  PROVE  UacInv'
<1>. DEFINE rs == stream.records
            forgot == Forget(rs)
            id == truth.plays + 1
<1>1. /\ UacTypes /\ UacTypeOK /\ PlayIsTrue /\ PlaysArePast /\ FileIsShared /\ HostHasSent
  BY DEF UacInv, InStep
<1>2. /\ stream \in StreamType /\ play \in PlayType /\ truth \in TruthType /\ wire \in WireType /\ tracker \in TrackerType
  BY <1>1 DEF UacTypes
<1>3. /\ Spent < Budget
      /\ play' = NewPlay(id, opens)
      /\ stream' = [stream EXCEPT !.records = forgot]
      /\ truth' = [truth EXCEPT !.plays = @ + 1, !.sent = 0, !.target = NoStart, !.astray = FALSE, !.doubt = FALSE]
      /\ left' = chunks /\ wire' = wire /\ tracker' = tracker
  BY DEF RestartPlay, NewPlay
<1>4. id \in 0..Budget /\ truth.plays \in Nat
  <2>1. /\ stream.opens \in Nat /\ truth.plays \in Nat /\ truth.device \in Nat /\ truth.host \in Nat /\ truth.errors \in Nat
    BY <1>2, UacConstants DEF StreamType, TruthType
  <2>2. stream.opens + truth.plays + (truth.device + truth.host) + truth.errors < Budget
    BY <1>3, Zenon DEF Spent, Lost
  <2>3. QED
    BY <2>1, <2>2, UacConstants
<1>. HIDE DEF id
<1>5. /\ play' \in PlayType /\ play'.id = id /\ play'.opens = opens /\ ~play'.armed /\ play'.start = NoStart
      /\ play'.file = 0 /\ play'.pending = 0
  BY <1>3, <1>4, NewPlayFacts
<1>6. /\ truth' \in TruthType /\ truth'.plays = id /\ truth'.sent = 0 /\ truth'.target = NoStart /\ truth'.astray = FALSE
      /\ truth'.doubt = FALSE /\ truth'.index = truth.index
  BY <1>2, <1>3, NewPlayTruth DEF id
<1>7. rs \in Seq(Record) /\ Len(rs) \in Nat
  <2>1. rs \in Seq(Record)
    BY <1>2 DEF StreamType, Record
  <2>2. QED
    BY <2>1
<1>8. /\ forgot \in Seq(Record) /\ Len(forgot) = Len(rs) /\ FileCount(forgot) = 0
      /\ \A i \in 1..Len(rs) : forgot[i].start = rs[i].start /\ forgot[i].file = 0
  BY <1>7, ForgetFacts
<1>. HIDE DEF forgot
<1>9. /\ stream' \in StreamType /\ stream'.records = forgot
      /\ stream'.state = stream.state /\ stream'.opens = stream.opens /\ stream'.queued = stream.queued
      /\ stream'.sent = stream.sent /\ stream'.inFlight = stream.inFlight
  <2>1. forgot \in Seq([start : Index, file : 0..1])
    BY <1>8 DEF Record
  <2>2. QED
    BY <1>2, <1>3, <2>1 DEF StreamType
<1>10. left' \in {Unarmed} \cup 0..FileChunks /\ left' =< 0
  BY <1>3, UacConstants DEF Unarmed
<1>11. wire.loaded # id /\ wire.loaded =< id /\ \A i \in 1..Len(wire.fifo) : wire.fifo[i] # id /\ wire.fifo[i] =< id
  <2>1. wire.loaded \in Int /\ wire.fifo \in Seq(Int)
    BY <1>2 DEF WireType, Chunk, Zlp, Silence
  <2>2. DOMAIN wire.fifo = 1..Len(wire.fifo) /\ \A i \in 1..Len(wire.fifo) : wire.fifo[i] \in Int
    BY <2>1
  <2>3. wire.loaded =< truth.plays /\ \A i \in 1..Len(wire.fifo) : wire.fifo[i] =< truth.plays
    BY <1>1, <2>2 DEF PlaysArePast
  <2>4. \A c \in Int : c =< truth.plays => c # id /\ c =< id
    BY <1>4 DEF id
  <2>5. QED
    BY <2>1, <2>2, <2>3, <2>4
<1>12. PlayIsTrue'
  BY <1>3, <1>5, <1>6, <1>11 DEF PlayIsTrue
<1>13. CASE stream.state = "closed"
  <2>1. ClosedHoldsNothing
    BY DEF UacInv
  <2>2. forgot = << >>
    BY <1>7, <1>8, <1>13, <2>1 DEF ClosedHoldsNothing
  <2>3. ClosedHoldsNothing'
    BY <1>3, <1>5, <1>6, <1>9, <1>13, <2>1, <2>2 DEF ClosedHoldsNothing
  <2>4. UacTypes'
    BY <1>2, <1>3, <1>5, <1>6, <1>9, <1>10 DEF UacTypes
  <2>5. play'.file =< FileChunks
    BY <1>5, UacConstants
  <2>6. ClosedFits'
    BY <1>5, <1>6, <1>9, <1>10, <1>12, <1>13, <2>3, <2>4, <2>5 DEF ClosedFits
  <2>7. QED
    BY <2>6, ClosedSufficesNext
<1>14. CASE stream.state # "closed"
  <2>. DEFINE s == Now
              t == Now'
  <2>1. OpenFits
    BY <1>14, InvOpens
  <2>2. s.stream = stream /\ s.play = play /\ s.left = left /\ s.fifo = wire.fifo
    BY NowFields
  <2>3. t.stream = stream' /\ t.play = play' /\ t.left = left' /\ t.fifo = wire.fifo
    BY <1>3, NextFields
  <2>4. Shaped(s, wire.loaded) /\ Paired(s, wire.loaded) /\ Indexed(s) /\ (stream.inFlight <=> wire.loaded # Zlp)
    BY <2>1 DEF OpenFits, Linked
  <2>. HIDE DEF s, t
  <2>5. Shaped(t, wire.loaded)
    BY <1>5, <1>8, <1>9, <1>10, <1>14, <2>2, <2>3, <2>4 DEF Shaped
  <2>6. Paired(t, wire.loaded)
    <3>1. wire.fifo \in Seq(Chunk) /\ Len(wire.fifo) \in Nat /\ Len(rs) = Off(wire.loaded) + Len(wire.fifo) /\ Off(wire.loaded) \in 0..1
      BY <2>2, <2>4 DEF Shaped, Paired, Off
    <3>2. \A i \in 1..Len(wire.fifo) : Off(wire.loaded) + i \in 1..Len(rs)
      BY <3>1
    <3>3. wire.loaded # Zlp => 1 \in 1..Len(rs)
      BY <3>1 DEF Off
    <3>4. wire.loaded # Zlp => ~(forgot[1].file = 1)
      BY <1>8, <3>3
    <3>5. \A i \in 1..Len(wire.fifo) : ~(forgot[Off(wire.loaded) + i].file = 1)
      BY <1>8, <3>2
    <3>6. t.stream.records = forgot /\ t.fifo = wire.fifo /\ t.play.id = id /\ Len(forgot) = Len(rs)
      BY <1>5, <1>8, <1>9, <2>3
    <3>7. QED
      BY <1>11, <3>1, <3>4, <3>5, <3>6 DEF Paired
  <2>7. Indexed(t)
    BY <1>7, <1>8, <1>9, <2>2, <2>3, <2>4 DEF Indexed
  <2>8. Owned(t)
    BY <1>5, <1>8, <1>9, <1>11, <2>3 DEF Owned
  <2>9. Shared(t)
    <3>1. ~(left' > 0)
      BY <1>10, UacConstants DEF Unarmed
    <3>2. QED
      BY <1>5, <2>3, <3>1, UacConstants DEF Shared
  <2>10. Timely(t) /\ OnTarget(t, NoStart)
    BY <1>5, <2>3 DEF Timely, OnTarget
  <2>11. Linked(t, wire.loaded, NoStart)
    BY <2>5, <2>6, <2>7, <2>8, <2>9, <2>10 DEF Linked
  <2>12. Linked(Now', wire'.loaded, truth'.target)
    BY <1>3, <1>6, <2>11 DEF t
  <2>13. HostHasSent'
    BY <1>1, <1>3, <1>6, <1>9 DEF HostHasSent
  <2>14. OpenFits'
    BY <1>2, <1>3, <1>5, <1>6, <1>9, <1>11, <1>12, <1>14, <2>4, <2>12, <2>13 DEF OpenFits
  <2>15. QED
    BY <2>14, OpenSufficesNext
<1>15. QED
  BY <1>13, <1>14

LEMMA AcceptPlayStep == ASSUME UacInv, AcceptPlay PROVE UacInv'
<1>1. stream \in StreamType
  BY DEF UacInv, UacTypes
<1>2. stream.opens \in 0..Budget /\ stream.opens =< stream.opens
  BY <1>1, UacConstants DEF StreamType
<1>3. QED
  BY <1>2, RestartStep DEF AcceptPlay

LEMMA ClearPlayStep == ASSUME UacInv, ClearPlay PROVE UacInv'
<1>1. play \in PlayType /\ play.opens =< stream.opens
  BY DEF UacInv, UacTypes, PlaysArePast
<1>2. play.opens \in 0..Budget
  BY <1>1 DEF PlayType
<1>3. QED
  BY <1>1, <1>2, RestartStep DEF ClearPlay

(* What arm() and disarm() leave of the play.                              *)
LEMMA ArmedFacts ==
  ASSUME NEW p \in PlayType, NEW armed \in BOOLEAN, NEW start \in Index \cup {NoStart}, NEW interrupted \in BOOLEAN
  PROVE  /\ [p EXCEPT !.armed = armed, !.start = start] \in PlayType
         /\ [p EXCEPT !.armed = armed, !.start = start].armed = armed
         /\ [p EXCEPT !.armed = armed, !.start = start].start = start
         /\ [p EXCEPT !.interrupted = interrupted] \in PlayType
         /\ [p EXCEPT !.armed = armed] \in PlayType /\ [p EXCEPT !.armed = armed].armed = armed
         /\ \A q \in {[p EXCEPT !.armed = armed, !.start = start], [p EXCEPT !.interrupted = interrupted], [p EXCEPT !.armed = armed]} :
              /\ q.id = p.id /\ q.opens = p.opens /\ q.file = p.file /\ q.pending = p.pending /\ q.mismatched = p.mismatched
<1>1. /\ [p EXCEPT !.armed = armed, !.start = start] \in PlayType
      /\ [p EXCEPT !.armed = armed, !.start = start].armed = armed
      /\ [p EXCEPT !.armed = armed, !.start = start].start = start
  BY DEF PlayType
<1>2. [p EXCEPT !.interrupted = interrupted] \in PlayType
  BY DEF PlayType
<1>3. [p EXCEPT !.armed = armed] \in PlayType /\ [p EXCEPT !.armed = armed].armed = armed
  BY DEF PlayType
<1>4. \A q \in {[p EXCEPT !.armed = armed, !.start = start], [p EXCEPT !.interrupted = interrupted], [p EXCEPT !.armed = armed]} :
        /\ q.id = p.id /\ q.opens = p.opens /\ q.file = p.file /\ q.pending = p.pending /\ q.mismatched = p.mismatched
  BY DEF PlayType
<1>5. QED
  BY <1>1, <1>2, <1>3, <1>4

(* The play changes while the stream, its FIFO and what the host has do    *)
(* not: the play keeps its identity and its chunks.                        *)
LEMMA PlayCallKeeps ==
  ASSUME UacInv, stream' = stream, wire' = wire, tracker' = tracker, truth' \in TruthType,
         truth'.index = truth.index, truth'.plays = truth.plays, truth'.sent = truth.sent,
         truth'.astray = truth.astray, truth'.doubt = truth.doubt,
         play' \in PlayType, play'.id = play.id, play'.opens = play.opens, play'.file = play.file,
         play'.pending = play.pending, play'.mismatched = play.mismatched,
         left' \in 0..FileChunks, play'.file + play'.pending + left' =< FileChunks,
         left' > 0 => play'.armed,
         play'.armed => stream.state # "closed" /\ play.opens = stream.opens,
         Timely(Now'),
         stream.state # "closed" => OnTarget(Now', truth'.target) /\ (truth'.target # NoStart => ~(wire.done /\ wire.loaded = play.id))
  PROVE  UacInv'
<1>1. /\ UacTypes /\ UacTypeOK /\ PlayIsTrue /\ PlaysArePast /\ FileIsShared /\ HostHasSent
  BY DEF UacInv, InStep
<1>2. /\ stream \in StreamType /\ play \in PlayType /\ truth \in TruthType /\ wire \in WireType /\ tracker \in TrackerType
  BY <1>1 DEF UacTypes
<1>3. PlayIsTrue'
  BY <1>1 DEF PlayIsTrue, Current
<1>4. CASE stream.state = "closed"
  <2>1. ~play'.armed /\ ~(left' > 0) /\ left' =< 0 /\ left' # Unarmed
    BY <1>4, UacConstants DEF Unarmed
  <2>2. ClosedHoldsNothing'
    BY <1>4, <2>1 DEF UacInv, ClosedHoldsNothing
  <2>3. UacTypes'
    BY <1>2 DEF UacTypes
  <2>4. play'.file =< FileChunks /\ play'.opens =< stream'.opens /\ play'.id = truth'.plays
    BY <1>1, UacConstants DEF UacTypeOK, PlaysArePast
  <2>5. ClosedFits'
    BY <1>3, <1>4, <2>1, <2>2, <2>3, <2>4 DEF ClosedFits
  <2>6. QED
    BY <2>5, ClosedSufficesNext
<1>5. CASE stream.state # "closed"
  <2>. DEFINE s == Now
              t == Now'
  <2>1. OpenFits
    BY <1>5, InvOpens
  <2>2. s.stream = stream /\ s.play = play /\ s.left = left /\ s.fifo = wire.fifo
    BY NowFields
  <2>3. t.stream = stream /\ t.play = play' /\ t.left = left' /\ t.fifo = wire.fifo
    BY NextFields
  <2>4. Shaped(s, wire.loaded) /\ Paired(s, wire.loaded) /\ Indexed(s) /\ Owned(s) /\ (stream.inFlight <=> wire.loaded # Zlp)
    BY <2>1 DEF OpenFits, Linked
  <2>5. Timely(t) /\ OnTarget(t, truth'.target)
    BY <1>5
  <2>. HIDE DEF s, t
  <2>6. Shaped(t, wire.loaded)
    BY <2>2, <2>3, <2>4 DEF Shaped
  <2>7. Paired(t, wire.loaded)
    BY <2>2, <2>3, <2>4 DEF Paired
  <2>8. Indexed(t)
    BY <2>2, <2>3, <2>4 DEF Indexed
  <2>9. Owned(t)
    BY <2>2, <2>3, <2>4 DEF Owned
  <2>10. Shared(t)
    <3>1. play'.file \in Nat /\ play'.pending \in Nat /\ left' \in Nat /\ left' # Unarmed
      BY UacConstants DEF PlayType, Unarmed
    <3>2. play'.file + play'.pending + (IF left' > 0 THEN left' ELSE 0) =< FileChunks
      BY <3>1
    <3>3. QED
      BY <2>3, <3>1, <3>2 DEF Shared
  <2>11. Linked(t, wire.loaded, truth'.target)
    BY <2>5, <2>6, <2>7, <2>8, <2>9, <2>10 DEF Linked
  <2>12. Linked(Now', wire'.loaded, truth'.target)
    BY <2>11 DEF t
  <2>13. HostHasSent'
    BY <1>1 DEF HostHasSent
  <2>14. play'.id = truth'.plays /\ wire'.loaded =< truth'.plays
    BY <1>1 DEF PlaysArePast
  <2>15. OpenFits'
    BY <1>2, <1>3, <1>5, <2>4, <2>12, <2>13, <2>14 DEF OpenFits
  <2>16. QED
    BY <2>15, OpenSufficesNext
<1>6. QED
  BY <1>4, <1>5

LEMMA DisarmStep == ASSUME UacInv, Disarm PROVE UacInv'
<1>1. /\ UacTypes /\ UacTypeOK /\ ClosedHoldsNothing /\ PlaysArePast /\ FileIsShared /\ FirstAtTarget
  BY DEF UacInv, InStep
<1>2. /\ play \in PlayType /\ truth \in TruthType /\ left \in {Unarmed} \cup 0..FileChunks
  BY <1>1 DEF UacTypes
<1>3. /\ play.armed /\ play' = [play EXCEPT !.armed = FALSE] /\ left' = 0
      /\ stream' = stream /\ tracker' = tracker /\ wire' = wire /\ truth' = truth
  BY DEF Disarm
<1>4. play.start \in Index \cup {NoStart}
  BY <1>2 DEF PlayType
<1>5. /\ play' \in PlayType /\ play'.armed = FALSE
      /\ play'.id = play.id /\ play'.opens = play.opens /\ play'.file = play.file /\ play'.pending = play.pending
      /\ play'.mismatched = play.mismatched
  BY <1>2, <1>3, <1>4, ArmedFacts
<1>6. left' \in 0..FileChunks /\ ~(left' > 0) /\ play'.file + play'.pending + left' =< FileChunks
  <2>1. /\ play.file \in Nat /\ play.pending \in Nat /\ FileChunks \in Nat
        /\ play.file + play.pending + (IF left > 0 THEN left ELSE 0) =< FileChunks
    BY <1>1, <1>2, UacConstants DEF PlayType, FileIsShared
  <2>. DEFINE r == IF left > 0 THEN left ELSE 0
  <2>2. r \in Nat /\ play.file + play.pending + r =< FileChunks
    BY <1>2, <2>1 DEF Unarmed
  <2>. HIDE DEF r
  <2>3. QED
    BY <1>3, <1>5, <2>1, <2>2
<1>7. Timely(Now')
  BY <1>5, NextFields DEF Timely
<1>8. ASSUME stream.state # "closed"
      PROVE  OnTarget(Now', truth'.target) /\ (truth'.target # NoStart => ~(wire.done /\ wire.loaded = play.id))
  <2>1. OpenFits
    BY <1>8, InvOpens
  <2>2. OnTarget(Now, truth.target)
    BY <2>1 DEF OpenFits, Linked
  <2>3. Now'.stream = stream /\ ~Now'.play.armed /\ Now'.left = 0 /\ Now'.left # Unarmed
    BY <1>3, <1>5, NextFields DEF Unarmed
  <2>4. OnTarget(Now', truth.target)
    BY <2>2, <2>3, NowFields DEF OnTarget
  <2>5. QED
    BY <1>1, <1>3, <2>4 DEF FirstAtTarget
<1>9. QED
  BY <1>2, <1>3, <1>5, <1>6, <1>7, <1>8, PlayCallKeeps

LEMMA ArmStep ==
  ASSUME UacInv, NEW start \in Index \cup {NoStart}, NEW opens, Arm(start, opens)
  PROVE  UacInv'
<1>. DEFINE ahead == start # NoStart /\ opens = stream.opens /\ ~IndexReached(stream.queued, start)
            begin == IF ahead THEN start ELSE NoStart
<1>1. /\ UacTypes /\ UacTypeOK /\ ClosedHoldsNothing /\ PlaysArePast /\ FileIsShared /\ FirstAtTarget
  BY DEF UacInv, InStep
<1>2. /\ play \in PlayType /\ truth \in TruthType
  BY <1>1 DEF UacTypes
<1>3. /\ left = Unarmed /\ stream' = stream /\ tracker' = tracker /\ wire' = wire
  BY DEF Arm
<1>4. /\ ~play.armed /\ play.file = 0 /\ play.pending = 0 /\ truth.target = NoStart
  BY <1>1, <1>3 DEF FileIsShared
<1>5. begin \in Index \cup {NoStart} /\ play.start \in Index \cup {NoStart}
  BY <1>2 DEF PlayType
<1>6. CASE stream.state = "closed" \/ stream.opens # play.opens
  <2>1. play' = [play EXCEPT !.interrupted = TRUE] /\ left' = 0 /\ truth' = truth
    BY <1>6 DEF Arm
  <2>2. /\ play' \in PlayType
        /\ play'.id = play.id /\ play'.opens = play.opens /\ play'.file = play.file /\ play'.pending = play.pending
        /\ play'.mismatched = play.mismatched
    BY <1>2, <1>5, <2>1, ArmedFacts
  <2>3. play'.armed = play.armed
    BY <1>2, <2>1 DEF PlayType
  <2>4. left' \in 0..FileChunks /\ ~(left' > 0) /\ play'.file + play'.pending + left' =< FileChunks
    BY <1>4, <2>1, <2>2, UacConstants
  <2>5. Timely(Now') /\ OnTarget(Now', truth'.target)
    BY <1>4, <2>1, <2>3, NextFields DEF Timely, OnTarget
  <2>6. QED
    BY <1>2, <1>3, <1>4, <2>1, <2>2, <2>3, <2>4, <2>5, PlayCallKeeps
<1>7. CASE stream.state # "closed" /\ stream.opens = play.opens
  <2>1. /\ play' = [play EXCEPT !.armed = TRUE, !.start = begin]
        /\ truth' = [truth EXCEPT !.target = begin]
        /\ left' = FileChunks
    BY <1>7 DEF Arm
  <2>. HIDE DEF begin
  <2>2. /\ play' \in PlayType /\ play'.armed = TRUE /\ play'.start = begin
        /\ play'.id = play.id /\ play'.opens = play.opens /\ play'.file = play.file /\ play'.pending = play.pending
        /\ play'.mismatched = play.mismatched
    BY <1>2, <1>5, <2>1 DEF PlayType
  <2>3. /\ truth' \in TruthType /\ truth'.target = begin /\ truth'.index = truth.index /\ truth'.plays = truth.plays
        /\ truth'.sent = truth.sent /\ truth'.astray = truth.astray /\ truth'.doubt = truth.doubt
    BY <1>2, <1>5, <2>1 DEF TruthType
  <2>4. left' \in 0..FileChunks /\ left' > 0 /\ left' # Unarmed /\ play'.file + play'.pending + left' =< FileChunks
    BY <1>4, <2>1, <2>2, UacConstants DEF Unarmed
  <2>5. Timely(Now')
    BY <1>3, <2>2, <2>4, NextFields DEF Timely, begin
  <2>6. OpenFits
    BY <1>7, InvOpens
  <2>7. Shaped(Now, wire.loaded) /\ Paired(Now, wire.loaded) /\ Owned(Now)
    BY <2>6 DEF OpenFits, Linked
  <2>8. \A i \in DOMAIN stream.records : stream.records[i].file = 0
    <3>1. stream.records \in Seq(Record)
      BY <1>1 DEF UacTypes, StreamType, Record
    <3>2. FileCount(stream.records) = 0
      BY <1>4, <2>7, NowFields DEF Owned
    <3>3. QED
      BY <3>1, <3>2, FileCountFacts
  <2>9. DOMAIN stream.records = 1..Len(stream.records) /\ Len(stream.records) \in Nat
    BY <1>1 DEF UacTypes, StreamType
  <2>10. OnTarget(Now', truth'.target)
    BY <1>3, <1>4, <2>2, <2>3, <2>4, <2>8, <2>9, NextFields DEF OnTarget
  <2>11. wire.loaded # play.id
    <3>1. wire.loaded # Zlp => Len(stream.records) >= 1
      <4>1. Len(stream.records) = Off(wire.loaded) + Len(wire.fifo) /\ Len(wire.fifo) \in Nat
        BY <2>7, NowFields DEF Paired, Shaped
      <4>2. QED
        BY <4>1 DEF Off
    <3>2. wire.loaded # Zlp => (stream.records[1].file = 1 <=> wire.loaded = play.id)
      BY <2>7, NowFields DEF Paired
    <3>3. play.id # Zlp
      BY <1>2, UacConstants DEF PlayType, Zlp
    <3>4. QED
      BY <2>8, <2>9, <3>1, <3>2, <3>3
  <2>12. QED
    BY <1>3, <1>7, <2>2, <2>3, <2>4, <2>5, <2>10, <2>11, PlayCallKeeps
<1>8. QED
  BY <1>6, <1>7

-----------------------------------------------------------------------------
(* The interrupt and the bus: what they leave of the tracker and the timer.*)

LEMMA SampledFacts == \A t \in TrackerType : Sampled(t) \in TrackerType
<1>1. SUFFICES ASSUME NEW t \in TrackerType PROVE Sampled(t) \in TrackerType
  OBVIOUS
<1>2. [t EXCEPT !.skipped = @ + 1] \in TrackerType
  BY DEF TrackerType
<1>3. [t EXCEPT !.sampled = TRUE] \in TrackerType
  BY DEF TrackerType
<1>4. QED
  BY <1>2, <1>3 DEF Sampled

TimerType == [left : Int, expired : BOOLEAN]

LEMMA TimerFacts ==
  /\ \A t \in TimerType : TimerDown(t) \in TimerType
  /\ \A t \in TimerType : RunTimer(Load(t)) \in TimerType
  /\ RunTimer(ShortLoad) \in TimerType
<1>1. ASSUME NEW t \in TimerType PROVE TimerDown(t) \in TimerType
  <2>. DEFINE expired == t.left = 1
              n == t.left - 1
  <2>1. n \in Int /\ expired \in BOOLEAN
    BY DEF TimerType
  <2>2. TimerDown(t) = IF t.left > 0 THEN [t EXCEPT !.left = n, !.expired = expired] ELSE t
    BY DEF TimerDown
  <2>. HIDE DEF expired, n
  <2>3. [t EXCEPT !.left = n, !.expired = expired] \in TimerType
    BY <2>1 DEF TimerType
  <2>4. QED
    BY <2>2, <2>3
<1>2. ASSUME NEW t \in TimerType PROVE RunTimer(Load(t)) \in TimerType
  BY DEF TimerType, RunTimer, Load, ShortLoad, LongLoad
<1>3. RunTimer(ShortLoad) \in TimerType
  BY DEF TimerType, RunTimer, ShortLoad
<1>4. QED
  BY <1>1, <1>2, <1>3

LEMMA SampleStep == ASSUME UacInv, Sample PROVE UacInv'
<1>1. /\ UacTypes /\ PlayIsTrue /\ PlaysArePast /\ HostHasSent /\ ClosedHoldsNothing /\ FirstAtTarget
  BY DEF UacInv
<1>2. /\ truth \in TruthType /\ wire \in WireType /\ tracker \in TrackerType
  BY <1>1 DEF UacTypes
<1>3. /\ wire.timer.expired /\ tracker' = Sampled(tracker) /\ wire' = [wire EXCEPT !.timer = RunTimer(ShortLoad)]
      /\ stream' = stream /\ play' = play /\ truth' = truth /\ left' = left
  BY DEF Sample
<1>4. wire' \in WireType /\ wire'.fifo = wire.fifo /\ wire'.loaded = wire.loaded /\ wire'.done = wire.done
  <2>. DEFINE timer == RunTimer(ShortLoad)
  <2>1. timer \in [left : Int, expired : BOOLEAN]
    BY TimerFacts DEF TimerType
  <2>. HIDE DEF timer
  <2>2. wire' = [wire EXCEPT !.timer = timer]
    BY <1>3 DEF timer
  <2>3. QED
    BY <1>2, <2>1, <2>2 DEF WireType
<1>5. stream.state # "closed"
  BY <1>1, <1>3 DEF ClosedHoldsNothing, Unplugged, NoTimer
<1>6. tracker' \in TrackerType
  BY <1>2, <1>3, SampledFacts
<1>7. OpenFits
  BY <1>5, InvOpens
<1>8. Linked(Now', wire'.loaded, truth'.target)
  <2>1. Now' = Now
    BY <1>3, <1>4, NextFields DEF Now
  <2>2. Linked(Now, wire.loaded, truth.target)
    BY <1>7 DEF OpenFits
  <2>3. QED
    BY <1>3, <1>4, <2>1, <2>2
<1>9. HostHasSent' /\ PlayIsTrue'
  BY <1>1, <1>3, <1>4 DEF HostHasSent, PlayIsTrue, Current
<1>10. OpenFits'
  BY <1>2, <1>3, <1>4, <1>5, <1>6, <1>7, <1>8, <1>9 DEF OpenFits
<1>11. QED
  BY <1>10, OpenSufficesNext

-----------------------------------------------------------------------------
(* A completion is handled.                                                *)

(* The tracker as the watchdog's sample leaves it, and what the completion *)
(* then does to the counts of missed intervals and to what they rest on.   *)
Watched == IF wire.timer.expired THEN Sampled(tracker) ELSE tracker

Completes(skew) ==
  /\ stream.state # "closed" /\ wire.done /\ ~wire'.done /\ wire'.half = wire.half
  /\ truth'.device = truth.device /\ truth'.host = truth.host
  /\ truth'.base = IF tracker'.valid /\ ~tracker.valid THEN wire.behind ELSE truth.base
  /\ stream'.opens = stream.opens /\ play'.opens = play.opens /\ play'.armed = play.armed
  /\ wire'.timer = RunTimer(Load(wire.timer)) /\ truth'.late = FALSE
  /\ IF stream.state = "priming" /\ wire.loaded = Zlp
     THEN /\ stream'.state = "priming" /\ tracker' = Watched
          /\ play'.missed = play.missed /\ play'.judged = play.judged /\ play'.unprimed = play.unprimed
     ELSE stream'.state = "streaming" /\ Measured(Watched, play, tracker', play', skew)

(* The play begins once its start is reached and it has chunks left.       *)
CompletionBegins ==
  /\ left' =< left /\ (left' = Unarmed => left = Unarmed)
  /\ play'.start # NoStart => play'.start = play.start
  /\ play'.armed /\ play'.start # NoStart /\ play.pending = 0 => play'.pending = 0
  /\ play.pending = 0 /\ play'.pending # 0 => left > 0
  /\ left' > 0 /\ play'.pending = 0 => play'.start # NoStart

LEMMA TxDoneStep ==
  ASSUME UacInv, NEW error \in BOOLEAN, NEW skew \in {-1, 1}, TxDone(error, skew)
  PROVE  UacInv' /\ Completes(skew) /\ CompletionBegins
<1>. DEFINE tr == Watched
            s == [stream |-> stream, play |-> play, left |-> left, fifo |-> Rest(wire.fifo), tracker |-> tr]
            v == Commit(s, error, skew)
            t == TopUp(v)
            g == IF wire.loaded = play.id THEN 1 ELSE 0
            next == Next1(wire.fifo)
            target == truth.target
<1>1. /\ UacTypes /\ UacTypeOK /\ PlayIsTrue /\ PlaysArePast /\ HostHasSent /\ ClosedHoldsNothing /\ FirstAtTarget
  BY DEF UacInv, InStep
<1>2. /\ stream \in StreamType /\ play \in PlayType /\ truth \in TruthType /\ wire \in WireType /\ tracker \in TrackerType
  BY <1>1 DEF UacTypes
<1>3. wire.done /\ stream.state # "closed"
  BY <1>1 DEF TxDone, ClosedHoldsNothing, Unplugged
<1>4. OpenFits
  BY <1>3, InvOpens
<1>5. /\ Linked(Now, wire.loaded, target) /\ (stream.inFlight <=> wire.loaded # Zlp)
      /\ (target # NoStart => wire.loaded # play.id)
      /\ play.id = truth.plays
  BY <1>3, <1>4 DEF OpenFits
<1>6. tr \in TrackerType
  BY <1>2, SampledFacts DEF Watched
<1>7. target \in Int
  BY <1>2, Wraps DEF TruthType, NoStart
<1>. HIDE DEF tr
<1>8. /\ s.tracker \in TrackerType /\ s.tracker = Watched
      /\ s = [stream |-> Now.stream, play |-> Now.play, left |-> Now.left, fifo |-> Rest(Now.fifo), tracker |-> s.tracker]
  BY <1>6, NowFields DEF tr
<1>. HIDE DEF s, target
<1>9. /\ v.tracker \in TrackerType /\ Linked(v, next, target) /\ Completed(Now, v, Off(wire.loaded), g)
      /\ v.stream.inFlight <=> next # Zlp
      /\ v.play.mismatched <=> play.mismatched \/ (error /\ play.pending # 0)
      /\ Reckoned(s, Now, wire.loaded, v, skew)
  <2>1. /\ Now.stream.inFlight <=> wire.loaded # Zlp
        /\ target # NoStart => wire.loaded # Now.play.id
    BY <1>5, NowFields
  <2>2. /\ v.tracker \in TrackerType
        /\ Linked(v, Next1(Now.fifo), target)
        /\ Completed(Now, v, Off(wire.loaded), IF wire.loaded = Now.play.id THEN 1 ELSE 0)
        /\ v.stream.inFlight <=> Next1(Now.fifo) # Zlp
        /\ v.play.mismatched <=> Now.play.mismatched \/ (error /\ Now.play.pending # 0)
        /\ Reckoned(s, Now, wire.loaded, v, skew)
    BY <1>5, <1>7, <1>8, <2>1, CommitKeeps
  <2>. HIDE DEF v
  <2>3. QED
    BY <2>2, NowFields
<1>. HIDE DEF v
<1>10. Linked(t, next, target) /\ Same(v, t) /\ Begins(v, t) /\ (HasRoom(v) => Filled(t))
  BY <1>7, <1>9, TopUpKeeps
<1>. HIDE DEF t
<1>11. /\ v.stream.state # "closed" /\ v.stream.opens = stream.opens /\ v.stream.sent = (stream.sent + Off(wire.loaded)) % Wrap
       /\ v.play.id = play.id /\ v.play.opens = play.opens /\ v.play.file = play.file + g
  BY <1>9, NowFields DEF Completed
<1>12. /\ t.stream.state # "closed" /\ t.stream.opens = stream.opens /\ t.stream.sent = (stream.sent + Off(wire.loaded)) % Wrap
       /\ t.stream.inFlight = v.stream.inFlight
       /\ t.play.id = play.id /\ t.play.opens = play.opens /\ t.play.file = play.file + g
       /\ t.play.mismatched = v.play.mismatched
  BY <1>10, <1>11 DEF Same
<1>13. /\ stream' = t.stream /\ play' = t.play /\ left' = t.left /\ tracker' = v.tracker
       /\ wire' = [wire EXCEPT !.fifo = t.fifo, !.loaded = Loaded, !.done = FALSE, !.behind = FALSE, !.timer = RunTimer(Load(@))]
       /\ truth' = [truth EXCEPT !.errors = IF error THEN @ + 1 ELSE @, !.doubt = @ \/ (error /\ wire.loaded = play.id),
                                 !.base = IF v.tracker.valid /\ ~tracker.valid THEN wire.behind ELSE @, !.late = FALSE]
  BY DEF TxDone, Becomes, v, t, s, tr, Rest, Watched
<1>14. t.fifo \in Seq(Chunk) /\ next \in Chunk \cup {Zlp} /\ Loaded = next
  <2>1. t.fifo \in Seq(Chunk) /\ next \in Chunk \cup {Zlp}
    BY <1>10 DEF Linked, Shaped
  <2>2. QED
    BY <2>1 DEF Loaded, Next1
<1>15. wire' \in WireType /\ wire'.fifo = t.fifo /\ wire'.loaded = next /\ wire'.done = FALSE
  <2>. DEFINE timer == RunTimer(Load(wire.timer))
  <2>1. timer \in [left : Int, expired : BOOLEAN]
    BY <1>2, TimerFacts DEF TimerType, WireType
  <2>. HIDE DEF timer, next
  <2>2. wire' = [wire EXCEPT !.fifo = t.fifo, !.loaded = next, !.done = FALSE, !.behind = FALSE, !.timer = timer]
    BY <1>13, <1>14 DEF timer
  <2>3. QED
    BY <1>2, <1>14, <2>1, <2>2 DEF WireType
<1>16. /\ truth' \in TruthType /\ truth'.index = truth.index /\ truth'.plays = truth.plays /\ truth'.sent = truth.sent
       /\ truth'.target = target /\ truth'.astray = truth.astray
       /\ truth'.doubt = (truth.doubt \/ (error /\ wire.loaded = play.id))
  <2>. DEFINE errors == IF error THEN truth.errors + 1 ELSE truth.errors
              doubt == truth.doubt \/ (error /\ wire.loaded = play.id)
              base == IF v.tracker.valid /\ ~tracker.valid THEN wire.behind ELSE truth.base
  <2>1. errors \in Nat /\ doubt \in BOOLEAN /\ base \in BOOLEAN
    BY <1>2 DEF TruthType, WireType
  <2>2. truth' = [truth EXCEPT !.errors = errors, !.doubt = doubt, !.base = base, !.late = FALSE]
    BY <1>13
  <2>. HIDE DEF errors, doubt, base
  <2>3. QED
    BY <1>2, <2>1, <2>2 DEF TruthType, target, doubt
<1>17. Linked(Now', wire'.loaded, truth'.target)
  <2>1. Now'.stream = t.stream /\ Now'.play = t.play /\ Now'.left = t.left /\ Now'.fifo = t.fifo
    BY <1>13, <1>15, NextFields
  <2>2. QED
    BY <1>10, <1>15, <1>16, <2>1 DEF Linked, Shaped, Paired, Indexed, Owned, Shared, Timely, OnTarget
<1>18. HostHasSent'
  <2>1. truth.index = (stream.sent + Off(wire.loaded)) % Wrap
    BY <1>1, <1>3 DEF HostHasSent, Off
  <2>2. truth.index \in Index
    BY <1>2 DEF TruthType
  <2>3. truth.index \in Int /\ Turn(truth.index + 0) = truth.index
    BY <2>2, Wraps
  <2>4. truth'.index = (stream'.sent + 0) % Wrap
    BY <1>12, <1>13, <1>16, <2>1, <2>3 DEF Turn
  <2>5. QED
    BY <1>15, <2>4 DEF HostHasSent
<1>19. wire.loaded = play.id => play.pending # 0 /\ play.opens = stream.opens
  <2>1. SUFFICES ASSUME wire.loaded = play.id PROVE play.pending # 0 /\ play.opens = stream.opens
    OBVIOUS
  <2>2. Shaped(Now, wire.loaded) /\ Paired(Now, wire.loaded) /\ Owned(Now)
    BY <1>5 DEF Linked
  <2>3. wire.loaded # Zlp
    BY <1>2, <2>1, UacConstants DEF PlayType, Zlp
  <2>4. stream.records \in Seq(Record) /\ Len(wire.fifo) \in Nat
    BY <1>2 DEF StreamType, Record, WireType
  <2>5. Len(stream.records) >= 1 /\ stream.records[1].file = 1
    BY <2>1, <2>2, <2>3, <2>4, NowFields DEF Paired, Off
  <2>6. 1 \in DOMAIN stream.records
    BY <2>4, <2>5
  <2>7. FileCount(stream.records) # 0
    BY <2>4, <2>5, <2>6, FileCountFacts
  <2>8. QED
    BY <2>2, <2>7, NowFields DEF Owned
<1>20. PlayIsTrue'
  <2>1. play.file \in Nat /\ truth.sent \in Nat /\ g \in 0..1
    BY <1>2 DEF PlayType, TruthType
  <2>2. play'.file = play.file + g /\ truth'.sent = truth.sent /\ ~wire'.done
    BY <1>12, <1>13, <1>15, <1>16
  <2>3. Current => play.file = truth.sent - g
    BY <1>1, <1>3 DEF PlayIsTrue
  <2>4. Current' <=> Current
    BY <1>3, <1>12, <1>13 DEF Current
  <2>5. ~Current => g = 0
    BY <1>3, <1>19 DEF Current
  <2>6. play.file =< truth.sent
    BY <1>1 DEF PlayIsTrue
  <2>7. play'.file =< truth'.sent /\ (Current' => play'.file = truth'.sent)
    BY <2>1, <2>2, <2>3, <2>4, <2>5, <2>6
  <2>8. Current' => play'.file = truth'.sent - (IF wire'.done /\ wire'.loaded = play'.id THEN 1 ELSE 0)
    BY <2>1, <2>2, <2>7
  <2>9. truth'.doubt => play'.mismatched
    BY <1>1, <1>9, <1>12, <1>13, <1>16, <1>19 DEF PlayIsTrue
  <2>10. ~truth'.astray
    BY <1>1, <1>16 DEF PlayIsTrue
  <2>11. QED
    BY <2>7, <2>8, <2>9, <2>10 DEF PlayIsTrue
<1>21. next =< truth.plays
  <2>1. wire.fifo \in Seq(Chunk) /\ truth.plays \in Nat
    BY <1>2 DEF WireType, TruthType
  <2>2. next # Zlp => next = wire.fifo[1] /\ 1 \in DOMAIN wire.fifo
    <3>1. next # Zlp => next = wire.fifo[1] /\ Len(wire.fifo) >= 1
      BY <2>1, LoadFacts
    <3>2. QED
      BY <2>1, <3>1
  <2>3. QED
    BY <1>1, <2>1, <2>2 DEF PlaysArePast, Zlp
<1>22. OpenFits'
  BY <1>5, <1>9, <1>12, <1>13, <1>15, <1>16, <1>17, <1>18, <1>20, <1>21 DEF OpenFits
<1>23. /\ wire'.half = wire.half /\ wire'.timer = RunTimer(Load(wire.timer)) /\ truth'.late = FALSE
       /\ truth'.device = truth.device /\ truth'.host = truth.host
       /\ truth'.base = IF v.tracker.valid /\ ~tracker.valid THEN wire.behind ELSE truth.base
  BY <1>2, <1>13 DEF WireType, TruthType
<1>24. /\ t.play.missed = v.play.missed /\ t.play.judged = v.play.judged /\ t.play.armed = v.play.armed
       /\ t.play.unprimed = v.play.unprimed
       /\ t.stream.state = v.stream.state
  BY <1>10 DEF Same
<1>25. Completes(skew)
  <2>1. IF stream.state = "priming" /\ wire.loaded = Zlp
        THEN /\ v.stream.state = "priming" /\ v.tracker = Watched
             /\ v.play.missed = play.missed /\ v.play.judged = play.judged /\ v.play.unprimed = play.unprimed
        ELSE v.stream.state = "streaming" /\ Measured(Watched, play, v.tracker, v.play, skew)
    BY <1>8, <1>9, NowFields DEF Reckoned
  <2>2. Measured(Watched, play, v.tracker, v.play, skew) => Measured(Watched, play, tracker', play', skew)
    BY <1>13, <1>24 DEF Measured
  <2>3. play'.armed = play.armed
    BY <1>9, <1>13, <1>24, NowFields DEF Completed
  <2>4. QED
    BY <1>3, <1>12, <1>13, <1>15, <1>23, <1>24, <2>1, <2>2, <2>3 DEF Completes
<1>26. CompletionBegins
  <2>1. v.left = left /\ v.play.start = play.start /\ v.play.pending = play.pending - g
    BY <1>9, NowFields DEF Completed
  <2>2. v.play \in PlayType /\ v.stream \in StreamType /\ v.fifo = Rest(wire.fifo) /\ Len(wire.fifo) =< Target
    BY <1>5, <1>9, NowFields DEF Completed, Linked, Shaped
  <2>3. play.pending \in Nat /\ v.play.pending \in Nat /\ g \in 0..1
    BY <1>2, <2>2 DEF PlayType
  <2>4. play.pending = 0 => v.play.pending = 0
    <3>1. \A a, b \in Nat, c \in 0..1 : b = a - c /\ a = 0 => b = 0
      OBVIOUS
    <3>. HIDE DEF g
    <3>2. QED
      BY <2>1, <2>3, <3>1, Zenon
  <2>5. HasRoom(v)
    <3>1. Len(v.stream.records) = Off(next) + Len(v.fifo)
      BY <1>9 DEF Linked, Paired
    <3>2. /\ Len(wire.fifo) = Off(next) + Len(v.fifo) /\ Off(next) \in 0..1 /\ Len(v.fifo) \in Nat
          /\ (next # Zlp <=> wire.fifo # << >>)
      <4>1. wire.fifo \in Seq(Chunk)
        BY <1>2 DEF WireType
      <4>2. /\ Rest(wire.fifo) \in Seq(Chunk) /\ Len(wire.fifo) = Off(Next1(wire.fifo)) + Len(Rest(wire.fifo))
            /\ Off(Next1(wire.fifo)) \in 0..1 /\ (Next1(wire.fifo) # Zlp <=> wire.fifo # << >>)
        BY <4>1, LoadFacts
      <4>3. QED
        BY <2>2, <4>2
    <3>3. next = Zlp => Len(v.fifo) = 0
      BY <2>2, <3>2 DEF Rest
    <3>4. next # Zlp => Off(next) = 1
      BY DEF Off
    <3>. HIDE DEF next
    <3>5. Len(v.stream.records) < Capacity
      BY <2>2, <3>1, <3>2, UacConstants
    <3>6. Len(v.fifo) < Target
      BY <2>2, <3>2, <3>3, <3>4, UacConstants
    <3>7. QED
      BY <3>5, <3>6 DEF HasRoom
  <2>6. Begins(v, t) /\ Filled(t)
    BY <1>10, <2>5
  <2>7. play' = t.play /\ left' = t.left
    BY <1>13
  <2>8. left' =< left /\ (left' = Unarmed => left = Unarmed) /\ (play'.start # NoStart => play'.start = play.start)
    BY <2>1, <2>6, <2>7 DEF Begins
  <2>9. play'.armed /\ play'.start # NoStart /\ play.pending = 0 => play'.pending = 0
    BY <2>4, <2>6, <2>7 DEF Begins
  <2>10. play.pending = 0 /\ play'.pending # 0 => left > 0
    BY <2>1, <2>4, <2>6, <2>7 DEF Begins
  <2>11. left' > 0 /\ play'.pending = 0 => play'.start # NoStart
    BY <2>6, <2>7 DEF Filled
  <2>12. QED
    BY <2>8, <2>9, <2>10, <2>11 DEF CompletionBegins
<1>27. QED
  BY <1>22, <1>25, <1>26, OpenSufficesNext

-----------------------------------------------------------------------------
(* Half a frame passes; the host may take the packet that is primed.       *)

LEMMA TickStep == ASSUME UacInv, NEW polls \in BOOLEAN, Tick(polls) PROVE UacInv'
<1>. DEFINE point == Half = PollHalf
            taken == polls /\ Primed
            chunk == taken /\ wire.loaded # Zlp
            file == taken /\ wire.loaded = play.id
            lost == point /\ tracker.valid /\ ~taken
            target == truth.target
            rs == stream.records
<1>1. /\ UacTypes /\ UacTypeOK /\ PlayIsTrue /\ PlaysArePast /\ HostHasSent /\ FirstAtTarget
  BY DEF UacInv, InStep
<1>2. /\ stream \in StreamType /\ play \in PlayType /\ truth \in TruthType /\ wire \in WireType /\ tracker \in TrackerType
  BY <1>1 DEF UacTypes
<1>3. /\ stream.state # "closed" /\ stream' = stream /\ play' = play /\ left' = left
      /\ wire' = [wire EXCEPT !.half = Half, !.timer = TimerDown(@), !.done = @ \/ taken, !.behind = @ \/ (Half = 0 /\ wire.done)]
      /\ tracker' = [tracker EXCEPT !.behind = IF Half = 0 /\ tracker.valid THEN @ + 1 ELSE @]
      /\ truth' = [truth EXCEPT !.index = IF chunk THEN (@ + 1) % Wrap ELSE @,
                                !.astray = @ \/ (file /\ truth.target \notin {NoStart, truth.index}),
                                !.target = IF file THEN NoStart ELSE @,
                                !.sent = IF file THEN @ + 1 ELSE @,
                                !.device = IF lost /\ polls THEN @ + 1 ELSE @,
                                !.host = IF lost /\ ~polls THEN @ + 1 ELSE @,
                                !.late = @ \/ wire.done \/ wire.timer.expired]
  BY DEF Tick
<1>4. OpenFits
  BY <1>3, InvOpens
<1>5. /\ Linked(Now, wire.loaded, target) /\ (stream.inFlight <=> wire.loaded # Zlp)
      /\ play.id = truth.plays /\ wire.loaded =< truth.plays
  BY <1>4 DEF OpenFits
<1>6. wire.done \in BOOLEAN /\ taken \in BOOLEAN /\ (taken => ~wire.done) /\ chunk \in BOOLEAN /\ file \in BOOLEAN
      /\ (file => taken /\ wire.loaded = play.id)
  BY <1>2 DEF WireType, Primed
<1>7. file => chunk
  BY <1>2, UacConstants DEF PlayType, Zlp
<1>8. wire' \in WireType /\ wire'.fifo = wire.fifo /\ wire'.loaded = wire.loaded /\ wire'.done = (wire.done \/ taken)
  <2>. DEFINE half == Half
              timer == TimerDown(wire.timer)
              done == wire.done \/ taken
              behind == wire.behind \/ (Half = 0 /\ wire.done)
  <2>1. half \in 0..1 /\ done \in BOOLEAN /\ behind \in BOOLEAN
    BY <1>2 DEF WireType, Half
  <2>2. timer \in [left : Int, expired : BOOLEAN]
    BY <1>2, TimerFacts DEF TimerType, WireType
  <2>3. wire' = [wire EXCEPT !.half = half, !.timer = timer, !.done = done, !.behind = behind]
    BY <1>3
  <2>. HIDE DEF half, timer, done, behind
  <2>4. wire' \in WireType /\ wire'.fifo = wire.fifo /\ wire'.loaded = wire.loaded /\ wire'.done = done
    BY <1>2, <2>1, <2>2, <2>3 DEF WireType
  <2>5. QED
    BY <2>4 DEF done
<1>9. tracker' \in TrackerType
  <2>. DEFINE behind == IF Half = 0 /\ tracker.valid THEN tracker.behind + 1 ELSE tracker.behind
  <2>1. behind \in Int /\ tracker' = [tracker EXCEPT !.behind = behind]
    BY <1>2, <1>3 DEF TrackerType
  <2>. HIDE DEF behind
  <2>2. QED
    BY <1>2, <2>1 DEF TrackerType
<1>10. /\ truth' \in TruthType
       /\ truth'.index = (IF chunk THEN (truth.index + 1) % Wrap ELSE truth.index)
       /\ truth'.astray = (truth.astray \/ (file /\ truth.target \notin {NoStart, truth.index}))
       /\ truth'.target = (IF file THEN NoStart ELSE truth.target) /\ truth'.sent = (IF file THEN truth.sent + 1 ELSE truth.sent)
       /\ truth'.plays = truth.plays /\ truth'.doubt = truth.doubt
  <2>. DEFINE astray == truth.astray \/ (file /\ truth.target \notin {NoStart, truth.index})
              device == IF lost /\ polls THEN truth.device + 1 ELSE truth.device
              host == IF lost /\ ~polls THEN truth.host + 1 ELSE truth.host
              late == truth.late \/ wire.done \/ wire.timer.expired
  <2>1. astray \in BOOLEAN /\ device \in Nat /\ host \in Nat
    BY <1>2 DEF TruthType
  <2>2. late \in BOOLEAN
    BY <1>2 DEF TruthType, WireType
  <2>. DEFINE index == IF chunk THEN (truth.index + 1) % Wrap ELSE truth.index
              start == IF file THEN NoStart ELSE truth.target
              sent == IF file THEN truth.sent + 1 ELSE truth.sent
              a == [truth EXCEPT !.index = index]
              b == [a EXCEPT !.astray = astray]
              c == [b EXCEPT !.target = start]
              d == [c EXCEPT !.sent = sent]
              e == [d EXCEPT !.device = device]
              f == [e EXCEPT !.host = host]
              h == [f EXCEPT !.late = late]
  <2>3. index \in Index
    <3>1. truth.index \in Int /\ truth.index \in Index
      BY <1>2, Wraps DEF TruthType
    <3>2. Turn(truth.index + 1) \in Index
      BY <3>1, Wraps
    <3>3. QED
      BY <3>1, <3>2 DEF Turn
  <2>4. start \in Index \cup {NoStart} /\ sent \in Nat
    BY <1>2 DEF TruthType
  <2>5. h = truth'
    BY <1>3
  <2>. HIDE DEF index, start, sent, astray, device, host, late
  <2>6. a \in TruthType /\ a.index = index /\ a.plays = truth.plays /\ a.doubt = truth.doubt
    BY <1>2, <2>3 DEF TruthType
  <2>. HIDE DEF a
  <2>7. b \in TruthType /\ b.index = index /\ b.astray = astray /\ b.plays = truth.plays /\ b.doubt = truth.doubt
    BY <2>1, <2>6 DEF TruthType
  <2>. HIDE DEF b
  <2>8. c \in TruthType /\ c.index = index /\ c.astray = astray /\ c.target = start /\ c.plays = truth.plays /\ c.doubt = truth.doubt
    BY <2>4, <2>7 DEF TruthType
  <2>. HIDE DEF c
  <2>9. /\ d \in TruthType /\ d.index = index /\ d.astray = astray /\ d.target = start /\ d.sent = sent
        /\ d.plays = truth.plays /\ d.doubt = truth.doubt
    BY <2>4, <2>8 DEF TruthType
  <2>. HIDE DEF d
  <2>10. /\ e \in TruthType /\ e.index = index /\ e.astray = astray /\ e.target = start /\ e.sent = sent
         /\ e.plays = truth.plays /\ e.doubt = truth.doubt
    BY <2>1, <2>9 DEF TruthType
  <2>. HIDE DEF e
  <2>11. /\ f \in TruthType /\ f.index = index /\ f.astray = astray /\ f.target = start /\ f.sent = sent
         /\ f.plays = truth.plays /\ f.doubt = truth.doubt
    BY <2>1, <2>10 DEF TruthType
  <2>. HIDE DEF f
  <2>12. /\ h \in TruthType /\ h.index = index /\ h.astray = astray /\ h.target = start /\ h.sent = sent
         /\ h.plays = truth.plays /\ h.doubt = truth.doubt
    BY <2>2, <2>11 DEF TruthType
  <2>. HIDE DEF h
  <2>13. QED
    BY <2>5, <2>12 DEF index, start, sent, astray
<1>. HIDE DEF taken, file, chunk, lost
<1>11. taken => truth.index = stream.sent /\ stream.sent \in Index
  <2>1. stream.sent \in Index /\ stream.sent \in Int /\ Turn(stream.sent + 0) = stream.sent
    BY <1>2, Wraps DEF StreamType
  <2>2. taken => truth.index = (stream.sent + 0) % Wrap
    BY <1>1, <1>3, <1>6 DEF HostHasSent
  <2>3. QED
    BY <2>1, <2>2 DEF Turn
<1>12. file => target \in {NoStart, truth.index}
  <2>1. SUFFICES ASSUME file, target # NoStart PROVE target = truth.index
    OBVIOUS
  <2>2. Shaped(Now, wire.loaded) /\ Paired(Now, wire.loaded) /\ Indexed(Now) /\ OnTarget(Now, target)
    BY <1>5 DEF Linked
  <2>3. wire.loaded # Zlp /\ wire.loaded = play.id
    BY <1>2, <1>6, <2>1, UacConstants DEF PlayType, Zlp
  <2>4. rs \in Seq(Record) /\ Len(wire.fifo) \in Nat
    BY <1>2 DEF StreamType, Record, WireType
  <2>5. 1 \in 1..Len(rs) /\ rs[1].file = 1
    BY <2>2, <2>3, <2>4, NowFields DEF Paired, Off
  <2>6. \A j \in 1..1 - 1 : rs[j].file = 0
    OBVIOUS
  <2>7. rs[1].start = target
    BY <2>1, <2>2, <2>5, <2>6, NowFields DEF OnTarget
  <2>8. rs[1].start = (stream.sent + 1 - 1) % Wrap
    BY <2>2, <2>5, NowFields DEF Indexed
  <2>9. truth.index = stream.sent /\ stream.sent \in Index
    BY <1>6, <1>11, <2>1
  <2>10. stream.sent + 1 - 1 = stream.sent /\ Turn(stream.sent) = stream.sent
    BY <2>9, Wraps
  <2>11. QED
    BY <2>7, <2>8, <2>9, <2>10 DEF Turn
<1>13. Linked(Now', wire'.loaded, truth'.target)
  <2>1. Now' = Now
    BY <1>3, <1>8, NextFields DEF Now
  <2>2. Linked(Now, wire.loaded, NoStart)
    BY <1>5 DEF Linked, OnTarget
  <2>3. truth'.target = target \/ truth'.target = NoStart
    BY <1>10
  <2>4. QED
    BY <1>5, <1>8, <2>1, <2>2, <2>3
<1>14. HostHasSent'
  <2>1. CASE chunk
    <3>1. taken /\ wire.loaded # Zlp
      BY <2>1 DEF chunk
    <3>2. truth'.index = (stream.sent + 1) % Wrap
      BY <1>10, <1>11, <2>1, <3>1
    <3>3. QED
      BY <1>3, <1>8, <3>1, <3>2 DEF HostHasSent
  <2>2. CASE ~chunk
    <3>1. truth'.index = truth.index
      BY <1>10, <2>2
    <3>2. wire'.done /\ wire'.loaded # Zlp <=> wire.done /\ wire.loaded # Zlp
      BY <1>8, <2>2 DEF chunk
    <3>3. QED
      BY <1>1, <1>3, <3>1, <3>2 DEF HostHasSent
  <2>3. QED
    BY <2>1, <2>2
<1>15. PlayIsTrue'
  <2>1. play.file \in Nat /\ truth.sent \in Nat
    BY <1>2 DEF PlayType, TruthType
  <2>2. /\ play.file =< truth.sent /\ (truth.doubt => play.mismatched) /\ ~truth.astray
        /\ Current => play.file = truth.sent - (IF wire.done /\ wire.loaded = play.id THEN 1 ELSE 0)
    BY <1>1 DEF PlayIsTrue
  <2>3. Current' <=> Current
    BY <1>3 DEF Current
  <2>4. ~truth'.astray /\ (truth'.doubt => play'.mismatched)
    BY <1>3, <1>10, <1>12, <2>2
  <2>5. play'.file =< truth'.sent
    BY <1>3, <1>10, <2>1, <2>2
  <2>6. Current' => play'.file = truth'.sent - (IF wire'.done /\ wire'.loaded = play'.id THEN 1 ELSE 0)
    <3>1. CASE file
      <4>1. ~wire.done /\ wire'.done /\ wire'.loaded = play'.id /\ truth'.sent = truth.sent + 1
        BY <1>3, <1>6, <1>8, <1>10, <3>1
      <4>2. QED
        BY <1>3, <2>1, <2>2, <2>3, <4>1
    <3>2. CASE ~file
      <4>1. wire'.done /\ wire'.loaded = play'.id <=> wire.done /\ wire.loaded = play.id
        BY <1>3, <1>8, <3>2 DEF file
      <4>2. truth'.sent = truth.sent
        BY <1>10, <3>2
      <4>3. QED
        BY <1>3, <2>2, <2>3, <4>1, <4>2
    <3>3. QED
      BY <3>1, <3>2
  <2>7. QED
    BY <2>4, <2>5, <2>6 DEF PlayIsTrue
<1>16. truth'.target # NoStart => ~(wire'.done /\ wire'.loaded = play'.id)
  BY <1>1, <1>3, <1>8, <1>10 DEF FirstAtTarget, file
<1>17. OpenFits'
  BY <1>3, <1>5, <1>8, <1>9, <1>10, <1>13, <1>14, <1>15, <1>16 DEF OpenFits
<1>18. QED
  BY <1>17, OpenSufficesNext

-----------------------------------------------------------------------------
(* The theorems.                                                           *)

(* Before the first opening nothing is queued, played or sent.             *)
THEOREM UacStarts == Init => UacInv
<1>1. SUFFICES ASSUME Init PROVE UacInv
  OBVIOUS
<1>2. 0 \in Index /\ 0 \in 0..Budget /\ 0 \in 0..FileChunks /\ FileChunks \in Nat
  BY Wraps, UacConstants
<1>3. stream \in StreamType
  <2>1. << >> \in Seq([start : Index, file : 0..1])
    OBVIOUS
  <2>2. QED
    BY <1>1, <1>2, <2>1 DEF Init, StreamType
<1>4. /\ play \in PlayType /\ play.id = 0 /\ play.opens = 0 /\ play.file = 0 /\ play.pending = 0 /\ ~play.armed
      /\ play.mismatched = FALSE
  BY <1>1, <1>2 DEF Init, PlayType, NoPlay
<1>5. truth \in TruthType /\ truth.plays = 0 /\ truth.sent = 0 /\ truth.target = NoStart /\ ~truth.astray /\ ~truth.doubt /\ truth.index = 0
  BY <1>1, <1>2 DEF Init, TruthType
<1>6. wire = Unplugged /\ wire \in WireType /\ tracker \in TrackerType /\ left = 0
  BY <1>1, UnpluggedFacts DEF Init
<1>7. /\ stream.state = "closed" /\ stream.records = << >> /\ ~stream.inFlight /\ stream.sent = 0 /\ stream.queued = 0
      /\ stream.opens = 0
  BY <1>1 DEF Init
<1>8. UacTypes
  BY <1>2, <1>3, <1>4, <1>5, <1>6 DEF UacTypes
<1>9. ClosedHoldsNothing
  BY <1>4, <1>5, <1>6, <1>7 DEF ClosedHoldsNothing
<1>10. PlayIsTrue
  BY <1>4, <1>5, <1>7 DEF PlayIsTrue, Current
<1>11. ClosedFits
  BY <1>2, <1>4, <1>5, <1>6, <1>7, <1>8, <1>9, <1>10 DEF ClosedFits, Unarmed
<1>12. QED
  BY <1>11, ClosedSuffices

(* No call of the player, no interrupt and no frame breaks the invariant.  *)
THEOREM UacStep == UacInv /\ [Next]_vars => UacInv'
<1>1. SUFFICES ASSUME UacInv, [Next]_vars PROVE UacInv'
  OBVIOUS
<1>2. ASSUME NEW configured \in BOOLEAN, Configure(configured) PROVE UacInv'
  BY <1>1, <1>2, ConfigureStep
<1>3. CASE Open
  BY <1>1, <1>3, OpenStep
<1>4. CASE Close
  BY <1>1, <1>4, CloseStep
<1>5. CASE AcceptPlay
  BY <1>1, <1>5, AcceptPlayStep
<1>6. CASE ClearPlay
  BY <1>1, <1>6, ClearPlayStep
<1>7. CASE Disarm
  BY <1>1, <1>7, DisarmStep
<1>8. ASSUME NEW ahead \in 0..Ahead, NEW opens \in {stream.opens - 1, stream.opens},
             Arm(IF ahead = 0 THEN NoStart ELSE (stream.queued + ahead) % Wrap, opens)
      PROVE  UacInv'
  <2>. DEFINE start == IF ahead = 0 THEN NoStart ELSE (stream.queued + ahead) % Wrap
  <2>1. stream.queued \in Int /\ Wrap \in Nat \ {0} /\ Ahead \in Nat
    BY <1>1, Wraps, UacConstants DEF UacInv, UacTypes, StreamType
  <2>2. (stream.queued + ahead) % Wrap \in 0..Wrap - 1
    BY <2>1
  <2>3. start \in Index \cup {NoStart}
    BY <2>2 DEF Index
  <2>4. Arm(start, opens)
    BY <1>8
  <2>. HIDE DEF start
  <2>5. QED
    BY <1>1, <2>3, <2>4, ArmStep
<1>9. CASE Sample
  BY <1>1, <1>9, SampleStep
<1>10. ASSUME NEW error \in BOOLEAN, NEW skew \in {-1, 1}, TxDone(error, skew) PROVE UacInv'
  BY <1>1, <1>10, TxDoneStep
<1>11. ASSUME NEW polls \in BOOLEAN, Tick(polls) PROVE UacInv'
  BY <1>1, <1>11, TickStep
<1>12. CASE UNCHANGED vars
  <2>1. stream' = stream /\ tracker' = tracker /\ play' = play /\ wire' = wire /\ truth' = truth /\ left' = left
    BY <1>12 DEF vars
  <2>2. UacTypes' /\ UacTypeOK'
    BY <1>1, <2>1 DEF UacInv, InStep, UacTypes, UacTypeOK
  <2>3. RecordsMatchFifo'
    BY <1>1, <2>1 DEF UacInv, InStep, RecordsMatchFifo
  <2>4. PlayIsTrue'
    BY <1>1, <2>1 DEF UacInv, PlayIsTrue, Current
  <2>5. ClosedHoldsNothing' /\ PlaysArePast' /\ FileIsShared'
    BY <1>1, <2>1 DEF UacInv, ClosedHoldsNothing, PlaysArePast, FileIsShared
  <2>6. HostHasSent' /\ StartIsAhead' /\ FirstAtTarget'
    BY <1>1, <2>1 DEF UacInv, HostHasSent, StartIsAhead, FirstAtTarget
  <2>7. QED
    BY <2>2, <2>3, <2>4, <2>5, <2>6 DEF UacInv, InStep
<1>13. CASE PlayerCalls
  BY <1>5, <1>6, <1>7, <1>8, <1>13, Zenon DEF PlayerCalls
<1>14. CASE Interrupt
  BY <1>9, <1>10, <1>14, Zenon DEF Interrupt
<1>15. CASE Next
  BY <1>2, <1>3, <1>4, <1>11, <1>13, <1>14, <1>15, Zenon DEF Next
<1>16. QED
  BY <1>1, <1>12, <1>15

(* Whatever the FIFO's depth, the width of the indices and the length of   *)
(* the file: every state of the stream has the invariant.                  *)
THEOREM UacInvariant == Spec => []UacInv
<1>1. QED
  BY UacStarts, UacStep, PTL DEF Spec

(* The records are the chunks TinyUSB still holds, in order, by index and  *)
(* by play (top_up(), confirm_loaded() and retire_sent_chunks()).          *)
THEOREM TheStreamIsInStep == Spec => []InStep
<1>1. UacInv => InStep
  BY DEF UacInv
<1>2. QED
  BY <1>1, UacInvariant, PTL

(* What a play reports as sent is what the host took of it, the first of   *)
(* it at the scheduled index, and a mismatched completion marks it         *)
(* (on_tx_done(), arm() and restart_play()).                               *)
THEOREM ThePlayIsTrue == Spec => []PlayIsTrue
<1>1. UacInv => PlayIsTrue
  BY DEF UacInv
<1>2. QED
  BY <1>1, UacInvariant, PTL

-----------------------------------------------------------------------------
(* The missed intervals.                                                   *)

(* The ticks tell how often the frame number has wrapped, when they are at *)
(* most one off: dealiased_gap() finds the frames elapsed.                 *)
LEMMA GapIsExact ==
  ASSUME NEW b \in Nat, NEW skew \in {-1, 1}
  PROVE  Dealiased(b % Modulus, b + skew) = b
<1>. DEFINE h == Modulus \div 2
            q == b \div Modulus
            a == b % Modulus
            x == ((b + skew) - a) + h
<1>1. Modulus \in Nat \ {0} /\ Modulus > 2
  BY UacConstants
<1>2. h \in Int /\ 1 =< h /\ h + 1 < Modulus
  BY <1>1
<1>3. q \in Int /\ a \in Int /\ 0 =< a /\ a < Modulus /\ b = q * Modulus + a
  BY <1>1
<1>4. skew \in Int /\ -1 =< skew /\ skew =< 1
  OBVIOUS
<1>. HIDE DEF h, q, a
<1>5. q >= 0
  <2>1. SUFFICES ASSUME q =< -1 PROVE FALSE
    BY <1>3
  <2>2. q * Modulus =< -Modulus
    BY <1>1, <1>3, <2>1
  <2>3. QED
    BY <1>1, <1>3, <2>2
<1>6. CASE q = 0
  <2>1. b = a
    BY <1>1, <1>3, <1>6
  <2>2. b + skew =< a + h
    BY <1>2, <1>4, <2>1
  <2>3. Dealiased(a, b + skew) = a
    BY <2>2 DEF Dealiased, h
  <2>4. QED
    BY <2>1, <2>3 DEF a
<1>7. CASE q >= 1
  <2>1. q * Modulus >= Modulus /\ q * Modulus \in Int
    BY <1>1, <1>3, <1>7
  <2>2. ~(b + skew =< a + h)
    BY <1>1, <1>2, <1>3, <1>4, <2>1
  <2>3. x = q * Modulus + (skew + h)
    BY <1>2, <1>3, <1>4, <2>1
  <2>4. skew + h \in Int /\ 0 =< skew + h /\ skew + h < Modulus
    BY <1>1, <1>2, <1>4
  <2>5. \A r \in Int : 0 =< r /\ r < Modulus => (q * Modulus + r) \div Modulus = q
    BY <1>1, <1>3
  <2>6. x \div Modulus = q
    BY <2>3, <2>4, <2>5
  <2>7. Dealiased(a, b + skew) = IF b + skew =< a + h THEN a ELSE a + (x \div Modulus) * Modulus
    BY DEF Dealiased, h
  <2>. HIDE DEF x
  <2>8. Dealiased(a, b + skew) = a + q * Modulus
    BY <2>2, <2>6, <2>7
  <2>9. a + q * Modulus = b
    BY <1>3, <2>1
  <2>10. QED
    BY <2>8, <2>9 DEF a
<1>8. QED
  BY <1>3, <1>5, <1>6, <1>7

(* A gap of one frame misses none, and a count never goes below zero; the  *)
(* larger of two counts stays so.                                          *)
LEMMA MissedFacts ==
  ASSUME NEW m \in Nat, NEW n \in Nat, NEW gap \in Nat
  PROVE  /\ MissedAfterGap(m, gap) \in Nat
         /\ m =< n => MissedAfterGap(m, gap) =< MissedAfterGap(n, gap)
         /\ MissedAfterGap(m, gap) = IF m = 0 /\ gap = 0 THEN 0 ELSE m + gap - 1
         /\ MissedAfterGap(m, 0) =< m
BY DEF MissedAfterGap

(* What MissInv is about has its type.                                     *)
Missing ==
  /\ tracker.valid \in BOOLEAN /\ tracker.missed \in Int /\ tracker.behind \in Int
  /\ play.missed \in Int /\ play.pending \in Nat /\ play.judged \in BOOLEAN /\ play.armed \in BOOLEAN
  /\ truth.device \in Nat /\ truth.host \in Nat /\ truth.base \in BOOLEAN
  /\ wire.done \in BOOLEAN /\ wire.behind \in BOOLEAN /\ wire.half \in 0..1
  /\ left \in Int /\ PollHalf \in 0..1

LEMMA MissTypes == UacTypes => Missing
<1>1. SUFFICES ASSUME UacTypes PROVE Missing
  OBVIOUS
<1>2. /\ play \in PlayType /\ tracker \in TrackerType /\ truth \in TruthType /\ wire \in WireType
      /\ left \in {Unarmed} \cup 0..FileChunks
  BY <1>1 DEF UacTypes
<1>3. left \in Int /\ PollHalf \in 0..1
  BY <1>2, UacConstants DEF Unarmed
<1>4. /\ tracker.valid \in BOOLEAN /\ tracker.missed \in Int /\ tracker.behind \in Int
  BY <1>2 DEF TrackerType
<1>5. play.missed \in Int /\ play.pending \in Nat /\ play.judged \in BOOLEAN /\ play.armed \in BOOLEAN
  BY <1>2 DEF PlayType
<1>6. /\ truth.device \in Nat /\ truth.host \in Nat /\ truth.base \in BOOLEAN
  BY <1>2 DEF TruthType
<1>7. wire.done \in BOOLEAN /\ wire.behind \in BOOLEAN /\ wire.half \in 0..1
  BY <1>2 DEF WireType
<1>8. QED
  BY <1>3, <1>4, <1>5, <1>6, <1>7 DEF Missing

LEMMA MissTypesNext == UacTypes' => Missing'
BY MissTypes, PTL

(* A stream that closes or opens counts from nothing; a play that ends     *)
(* keeps its count.                                                        *)
LEMMA MissCloses ==
  ASSUME UacInv, MissInv, tracker' = NoInterval, truth' = NothingSeen, ~wire'.done, stream'.state # "streaming",
         play'.missed = play.missed, ~play'.judged, ~play'.armed, play'.pending = 0, ~Current',
         left' =< 0, left' = Unarmed => left = Unarmed, left' \in Int
  PROVE  MissInv'
<1>1. truth \in TruthType /\ Missing
  BY MissTypes DEF UacInv, UacTypes
<1>2. truth'.device = 0 /\ truth'.host = 0
  BY <1>1, NothingSeenFacts
<1>3. tracker'.valid = FALSE /\ tracker'.missed = 0 /\ tracker'.behind = 0
  BY DEF NoInterval
<1>4. StreamMisses'
  BY <1>2, <1>3 DEF StreamMisses, Lost
<1>5. play.missed >= 0 /\ (left = Unarmed => play.missed = 0)
  BY DEF MissInv, PlayMisses
<1>6. PlayMisses'
  <2>1. ~(left' > 0)
    OBVIOUS
  <2>2. QED
    BY <1>5, <2>1 DEF PlayMisses
<1>7. QED
  BY <1>4, <1>6 DEF MissInv

LEMMA MissEnds ==
  ASSUME UacInv, UacInv', MissInv, tracker' = NoInterval, truth' = NothingSeen, wire' = Unplugged, play' = EndPlay(play),
         left' = IF play.armed THEN 0 ELSE left, stream'.state = "closed"
  PROVE  MissInv'
<1>1. play \in PlayType /\ left \in {Unarmed} \cup 0..FileChunks
  BY DEF UacInv, UacTypes
<1>2. /\ play'.pending = 0 /\ ~play'.armed /\ play'.missed = play.missed /\ play'.judged = FALSE
  BY <1>1, EndPlayFacts
<1>3. left' =< 0 /\ (left' = Unarmed => left = Unarmed) /\ left' \in Int
  <2>1. left > 0 => play.armed
    BY DEF UacInv, FileIsShared
  <2>2. QED
    BY <1>1, <2>1, UacConstants DEF Unarmed
<1>4. ~wire'.done /\ ~Current' /\ stream'.state # "streaming"
  BY UnpluggedFacts DEF Current
<1>5. QED
  BY <1>2, <1>3, <1>4, MissCloses

LEMMA ConfigureMisses == ASSUME UacInv, UacInv', MissInv, NEW configured \in BOOLEAN, Configure(configured) PROVE MissInv'
<1>. DEFINE e == EndStream(stream)
<1>1. stream \in StreamType
  BY DEF UacInv, UacTypes
<1>2. e \in StreamType /\ e.state = "closed"
  BY <1>1, EndStreamFacts
<1>3. /\ stream' = [e EXCEPT !.configured = configured]
      /\ play' = EndPlay(play) /\ left' = IF play.armed THEN 0 ELSE left
      /\ wire' = Unplugged /\ tracker' = NoInterval /\ truth' = NothingSeen
  BY DEF Configure
<1>. HIDE DEF e
<1>4. stream'.state = "closed"
  BY <1>2, <1>3 DEF StreamType
<1>5. QED
  BY <1>3, <1>4, MissEnds

LEMMA CloseMisses == ASSUME UacInv, UacInv', MissInv, Close PROVE MissInv'
<1>1. stream \in StreamType
  BY DEF UacInv, UacTypes
<1>2. /\ stream' = EndStream(stream) /\ play' = EndPlay(play) /\ left' = IF play.armed THEN 0 ELSE left
      /\ wire' = Unplugged /\ tracker' = NoInterval /\ truth' = NothingSeen
  BY DEF Close
<1>3. stream'.state = "closed"
  BY <1>1, <1>2, EndStreamFacts
<1>4. QED
  BY <1>2, <1>3, MissEnds

LEMMA OpenMisses == ASSUME UacInv, UacInv', MissInv, Open PROVE MissInv'
<1>1. Opens
  BY OpenStep
<1>2. play'.pending = 0
  BY <1>1 DEF Opens, UacInv, PlaysArePast
<1>3. left' \in Int
  BY MissTypesNext DEF UacInv, Missing
<1>4. ~Current'
  BY <1>1 DEF Opens, Current
<1>5. QED
  BY <1>1, <1>2, <1>3, <1>4, MissCloses DEF Opens

(* What leaves the bus, the counts and the frames alone leaves the account *)
(* of the missed intervals alone.                                          *)
SameBus ==
  /\ (stream'.state = "streaming" <=> stream.state = "streaming")
  /\ tracker'.valid = tracker.valid /\ tracker'.missed = tracker.missed /\ tracker'.behind = tracker.behind
  /\ wire'.done = wire.done /\ wire'.behind = wire.behind /\ wire'.half = wire.half
  /\ truth'.device = truth.device /\ truth'.host = truth.host /\ truth'.base = truth.base

LEMMA BusKept ==
  ASSUME StreamMisses, SameBus
  PROVE  StreamMisses' /\ Uncounted' = Uncounted /\ Lost' = Lost /\ Hidden' = Hidden /\ Phase' = Phase
<1>1. Lost' = Lost /\ Hidden' = Hidden /\ Phase' = Phase
  BY DEF SameBus, Lost, Hidden, Phase
<1>2. Uncounted' = Uncounted
  BY <1>1 DEF SameBus, Uncounted
<1>3. StreamMisses'
  BY <1>1, <1>2 DEF SameBus, StreamMisses
<1>4. QED
  BY <1>1, <1>2, <1>3

(* The bound on what a play has counted.                                   *)
MissBound == IF tracker.valid THEN Lost + 1 - Uncounted ELSE 0

LEMMA BoundFacts ==
  ASSUME Missing, StreamMisses
  PROVE  /\ Lost \in Nat /\ Uncounted \in Int /\ Hidden \in 0..1 /\ Phase \in 0..1
         /\ MissBound \in Nat
<1>1. Lost \in Nat /\ Hidden \in 0..1 /\ Phase \in 0..1
  BY DEF Missing, Lost, Hidden, Phase
<1>2. Uncounted \in Int
  BY <1>1 DEF Missing, Uncounted
<1>3. tracker.valid => Uncounted =< 1
  BY <1>1, <1>2 DEF StreamMisses
<1>4. QED
  BY <1>1, <1>2, <1>3 DEF MissBound

(* A new play has counted none.                                            *)
LEMMA RestartMisses ==
  ASSUME UacInv, UacInv', MissInv, NEW opens \in 0..Budget, NEW chunks \in {Unarmed, 0}, RestartPlay(opens, chunks)
  PROVE  MissInv'
<1>. DEFINE id == truth.plays + 1
<1>1. Missing /\ StreamMisses
  BY MissTypes DEF UacInv, MissInv
<1>2. /\ stream \in StreamType /\ truth \in TruthType
  BY DEF UacInv, UacTypes
<1>3. /\ play' = NewPlay(id, opens) /\ stream' = [stream EXCEPT !.records = Forget(@)]
      /\ truth' = [truth EXCEPT !.plays = @ + 1, !.sent = 0, !.target = NoStart, !.astray = FALSE, !.doubt = FALSE]
      /\ left' = chunks /\ wire' = wire /\ tracker' = tracker
  BY DEF RestartPlay, NewPlay
<1>4. stream'.state = stream.state /\ truth'.device = truth.device /\ truth'.host = truth.host /\ truth'.base = truth.base
  BY <1>2, <1>3 DEF StreamType, TruthType
<1>5. play'.missed = 0 /\ play'.judged = FALSE /\ ~play'.armed /\ play'.pending = 0
  BY <1>3 DEF NewPlay, NoPlay
<1>6. StreamMisses' /\ Uncounted' = Uncounted /\ Lost' = Lost
  <2>1. SameBus
    BY <1>3, <1>4 DEF SameBus
  <2>2. QED
    BY <1>1, <2>1, BusKept
<1>7. 0 =< (IF tracker'.valid THEN Lost' + 1 - Uncounted' ELSE 0)
  <2>1. MissBound \in Nat
    BY <1>1, BoundFacts
  <2>2. QED
    BY <1>3, <1>6, <2>1 DEF MissBound
<1>8. tracker'.missed >= 0
  BY <1>6 DEF StreamMisses
<1>9. PlayMisses'
  BY <1>5, <1>7, <1>8 DEF PlayMisses
<1>10. QED
  BY <1>6, <1>9 DEF MissInv

(* Nor has one that is armed.                                              *)
LEMMA ArmMisses ==
  ASSUME UacInv, UacInv', MissInv, NEW start, NEW opens, Arm(start, opens)
  PROVE  MissInv'
<1>. DEFINE ahead == start # NoStart /\ opens = stream.opens /\ ~IndexReached(stream.queued, start)
            begin == IF ahead THEN start ELSE NoStart
<1>1. Missing /\ StreamMisses /\ PlayMisses
  BY MissTypes DEF UacInv, MissInv
<1>2. /\ play \in PlayType /\ truth \in TruthType
  BY DEF UacInv, UacTypes
<1>3. left = Unarmed /\ stream' = stream /\ tracker' = tracker /\ wire' = wire
  BY DEF Arm
<1>4. play.missed = 0 /\ ~play.judged /\ play.pending = 0 /\ ~play.armed
  BY <1>1, <1>3 DEF PlayMisses, UacInv, FileIsShared
<1>5. \/ play' = [play EXCEPT !.interrupted = TRUE] /\ left' = 0 /\ truth' = truth
      \/ play' = [play EXCEPT !.armed = TRUE, !.start = begin] /\ truth' = [truth EXCEPT !.target = begin] /\ left' = FileChunks
  BY DEF Arm
<1>. HIDE DEF begin
<1>6. play'.missed = 0 /\ ~play'.judged /\ play'.pending = 0
  BY <1>2, <1>4, <1>5 DEF PlayType
<1>7. truth'.device = truth.device /\ truth'.host = truth.host /\ truth'.base = truth.base
  BY <1>2, <1>5 DEF TruthType
<1>8. StreamMisses' /\ Uncounted' = Uncounted /\ Lost' = Lost
  <2>1. SameBus
    BY <1>3, <1>7 DEF SameBus
  <2>2. QED
    BY <1>1, <2>1, BusKept
<1>9. 0 =< (IF tracker'.valid THEN Lost' + 1 - Uncounted' ELSE 0)
  <2>1. MissBound \in Nat
    BY <1>1, BoundFacts
  <2>2. QED
    BY <1>3, <1>8, <2>1 DEF MissBound
<1>10. PlayMisses'
  BY <1>6, <1>9 DEF PlayMisses
<1>11. QED
  BY <1>8, <1>10 DEF MissInv

(* What leaves the play's counts alone too.                                *)
LEMMA PlayKept ==
  ASSUME MissInv, SameBus, stream'.opens = stream.opens, stream'.state = stream.state, play'.opens = play.opens,
         play'.missed = play.missed, play'.judged = play.judged, play'.pending = play.pending, play'.start = play.start,
         play'.armed => play.armed, left' = left \/ left' = 0
  PROVE  MissInv'
<1>1. StreamMisses /\ PlayMisses
  BY DEF MissInv
<1>2. StreamMisses' /\ Uncounted' = Uncounted /\ Lost' = Lost
  BY <1>1, BusKept
<1>3. Current' <=> Current
  BY DEF Current
<1>4. tracker'.missed = tracker.missed /\ tracker'.valid = tracker.valid
  BY DEF SameBus
<1>5. left' = Unarmed \/ left' > 0 => left' = left
  BY DEF Unarmed
<1>6. PlayMisses'
  BY <1>1, <1>2, <1>3, <1>4, <1>5 DEF PlayMisses
<1>7. QED
  BY <1>2, <1>6 DEF MissInv

LEMMA DisarmMisses == ASSUME UacInv, MissInv, Disarm PROVE MissInv'
<1>1. play \in PlayType
  BY DEF UacInv, UacTypes
<1>2. /\ play' = [play EXCEPT !.armed = FALSE] /\ left' = 0
      /\ stream' = stream /\ tracker' = tracker /\ wire' = wire /\ truth' = truth
  BY DEF Disarm
<1>3. /\ play'.opens = play.opens /\ play'.missed = play.missed /\ play'.judged = play.judged /\ play'.pending = play.pending
      /\ play'.start = play.start /\ ~play'.armed
  BY <1>1, <1>2 DEF PlayType
<1>4. SameBus
  BY <1>2 DEF SameBus
<1>5. QED
  BY <1>2, <1>3, <1>4, PlayKept

LEMMA SampledKeeps ==
  ASSUME NEW t \in TrackerType
  PROVE  Sampled(t).valid = t.valid /\ Sampled(t).missed = t.missed /\ Sampled(t).behind = t.behind
<1>1. \A n : LET u == [t EXCEPT !.skipped = n] IN u.valid = t.valid /\ u.missed = t.missed /\ u.behind = t.behind
  BY DEF TrackerType
<1>2. LET u == [t EXCEPT !.sampled = TRUE] IN u.valid = t.valid /\ u.missed = t.missed /\ u.behind = t.behind
  BY DEF TrackerType
<1>3. QED
  BY <1>1, <1>2 DEF Sampled

LEMMA SampleMisses == ASSUME UacInv, MissInv, Sample PROVE MissInv'
<1>1. tracker \in TrackerType /\ wire \in WireType
  BY DEF UacInv, UacTypes
<1>2. /\ tracker' = Sampled(tracker) /\ wire' = [wire EXCEPT !.timer = RunTimer(ShortLoad)]
      /\ stream' = stream /\ play' = play /\ truth' = truth /\ left' = left
  BY DEF Sample
<1>3. wire'.done = wire.done /\ wire'.behind = wire.behind /\ wire'.half = wire.half
  BY <1>1, <1>2 DEF WireType
<1>4. tracker'.valid = tracker.valid /\ tracker'.missed = tracker.missed /\ tracker'.behind = tracker.behind
  BY <1>1, <1>2, SampledKeeps
<1>5. SameBus
  BY <1>2, <1>3, <1>4 DEF SameBus
<1>6. QED
  BY <1>2, <1>5, PlayKept

(* Each frame has one poll: it is taken, and a completion is due, or it is *)
(* lost; and each frame that ends is one more that the next completion     *)
(* finds elapsed.  Phase is the frame whose poll is still to come.         *)
LEMMA TickMisses == ASSUME UacInv, UacInv', MissInv, NEW polls \in BOOLEAN, Tick(polls) PROVE MissInv'
<1>. DEFINE point == Half = PollHalf
            taken == polls /\ Primed
            lost == point /\ tracker.valid /\ ~taken
            more == IF lost THEN 1 ELSE 0
            turned == IF Half = 0 /\ tracker.valid THEN 1 ELSE 0
<1>1. Missing /\ StreamMisses /\ PlayMisses
  BY MissTypes DEF UacInv, MissInv
<1>2. Missing'
  BY MissTypesNext DEF UacInv
<1>3. /\ tracker \in TrackerType /\ wire \in WireType /\ truth \in TruthType
  BY DEF UacInv, UacTypes
<1>4. /\ stream' = stream /\ play' = play /\ left' = left /\ (polls => point)
      /\ wire' = [wire EXCEPT !.half = Half, !.timer = TimerDown(@), !.done = @ \/ taken, !.behind = @ \/ (Half = 0 /\ wire.done)]
      /\ tracker' = [tracker EXCEPT !.behind = IF Half = 0 /\ tracker.valid THEN @ + 1 ELSE @]
  BY DEF Tick
<1>5. /\ truth'.device = (IF lost /\ polls THEN truth.device + 1 ELSE truth.device)
      /\ truth'.host = (IF lost /\ ~polls THEN truth.host + 1 ELSE truth.host)
      /\ truth'.base = truth.base
  BY <1>3 DEF Tick, TruthType
<1>6. wire'.half = Half /\ wire'.done = (wire.done \/ taken) /\ wire'.behind = (wire.behind \/ (Half = 0 /\ wire.done))
  BY <1>3, <1>4 DEF WireType
<1>7. /\ tracker'.valid = tracker.valid /\ tracker'.missed = tracker.missed
      /\ tracker'.behind = tracker.behind + turned
  BY <1>1, <1>3, <1>4 DEF TrackerType, Missing
<1>8. /\ Half \in 0..1 /\ Half = 1 - wire.half /\ PollHalf \in 0..1 /\ wire.half \in 0..1
      /\ (wire.half = 0 => Half = 1) /\ (wire.half = 1 => Half = 0)
  BY <1>1 DEF Half, Missing
<1>9. Hidden' = Hidden
  BY <1>5 DEF Hidden
<1>10. taken <=> polls /\ ~wire.done
  BY DEF Primed
<1>. HIDE DEF lost, taken
<1>11. Lost' = Lost + more
  BY <1>1, <1>5 DEF Lost, Missing
<1>12. wire.done \in BOOLEAN /\ taken \in BOOLEAN /\ tracker.valid \in BOOLEAN
  BY <1>1, <1>10 DEF Missing
<1>13. CASE tracker.valid
  <2>. DEFINE d == IF wire.done THEN 1 ELSE 0
              e == IF wire'.done THEN 1 ELSE 0
  <2>1. more = IF point /\ ~taken THEN 1 ELSE 0
    BY <1>13 DEF lost
  <2>2. turned = IF Half = 0 THEN 1 ELSE 0
    BY <1>13
  <2>3. taken => point
    BY <1>4, <1>10
  <2>4. e = d + (IF taken THEN 1 ELSE 0)
    BY <1>6, <1>10, <1>12
  <2>5. Phase' = IF PollHalf = 1 /\ Half = 0 THEN 1 ELSE 0
    BY <1>6 DEF Phase
  <2>6. Phase = IF PollHalf = 1 /\ Half = 1 THEN 1 ELSE 0
    BY <1>8 DEF Phase
  <2>. HIDE DEF d, e, more, turned
  <2>7. more + (IF taken THEN 1 ELSE 0) = IF point THEN 1 ELSE 0
    BY <1>12, <2>1, <2>3
  <2>8. Phase' + (IF point THEN 1 ELSE 0) = Phase + turned
    BY <1>8, <2>2, <2>5, <2>6
  <2>9. Lost \in Nat /\ more \in 0..1 /\ turned \in 0..1 /\ d \in 0..1 /\ Phase \in 0..1 /\ Phase' \in 0..1
    BY <1>1, <2>1, <2>2, <2>5, BoundFacts DEF d
  <2>10. Uncounted = Lost + Phase + d - tracker.missed - tracker.behind
    BY DEF Uncounted, d
  <2>11. Uncounted' = Lost' + Phase' + e - tracker'.missed - tracker'.behind
    BY DEF Uncounted, e
  <2>12. tracker.missed \in Int /\ tracker.behind \in Int
    BY <1>1 DEF Missing
  <2>13. Uncounted' = Uncounted
    <3>. DEFINE k == IF taken THEN 1 ELSE 0
                p == IF point THEN 1 ELSE 0
    <3>1. Uncounted' = (Lost + more) + Phase' + (d + k) - tracker.missed - (tracker.behind + turned)
      BY <1>7, <1>11, <2>4, <2>11
    <3>2. k \in Int /\ p \in Int /\ more + k = p /\ Phase' + p = Phase + turned
      BY <1>12, <2>7, <2>8
    <3>. HIDE DEF k, p
    <3>4. Lost \in Int /\ more \in Int /\ turned \in Int /\ d \in Int /\ Phase \in Int /\ Phase' \in Int
      BY <2>9
    <3>5. (Lost + more) + Phase' + (d + k) - tracker.missed - (tracker.behind + turned) = Lost + Phase + d - tracker.missed - tracker.behind
      <4>. DEFINE x1 == Lost
                  x2 == Phase'
                  x3 == Phase
                  x4 == tracker.missed
                  x5 == tracker.behind
      <4>1. /\ x1 \in Int /\ x2 \in Int /\ x3 \in Int /\ x4 \in Int /\ x5 \in Int
            /\ more \in Int /\ turned \in Int /\ d \in Int /\ k \in Int /\ p \in Int
            /\ more + k = p /\ x2 + p = x3 + turned
        BY <2>12, <3>2, <3>4
      <4>2. SUFFICES (x1 + more) + x2 + (d + k) - x4 - (x5 + turned) = x1 + x3 + d - x4 - x5
        OBVIOUS
      <4>. HIDE DEF x1, x2, x3, x4, x5
      <4>3. QED
        BY <4>1
    <3>6. QED
      BY <2>10, <3>1, <3>5
  <2>14. tracker'.behind >= 0 /\ tracker'.missed >= 0 /\ (tracker'.valid <=> stream'.state = "streaming")
    BY <1>1, <1>4, <1>7, <2>9, <2>12 DEF StreamMisses
  <2>15. Uncounted' \in 0..Hidden'
    BY <1>1, <1>9, <1>13, <2>13 DEF StreamMisses
  <2>16. Lost' >= Lost
    BY <1>11, <2>9
  <2>17. Current' => play'.missed =< Lost' + 1 - Uncounted'
    <3>1. Current => play.missed =< Lost + 1 - Uncounted
      BY <1>1, <1>13 DEF PlayMisses
    <3>2. Current' <=> Current
      BY <1>4 DEF Current
    <3>3. Uncounted \in Int /\ play.missed \in Int /\ Lost' \in Int
      BY <1>1, <1>11, <2>9, BoundFacts DEF Missing
    <3>4. QED
      BY <1>4, <2>9, <2>13, <2>16, <3>1, <3>2, <3>3
  <2>18. PlayMisses'
    BY <1>1, <1>4, <1>7, <1>13, <2>17 DEF PlayMisses
  <2>19. wire'.done /\ Phase' = 1 => wire'.behind
    <3>1. SUFFICES ASSUME wire'.done, Phase' = 1 PROVE wire'.behind
      OBVIOUS
    <3>2. PollHalf = 1 /\ Half = 0
      BY <2>5, <3>1
    <3>3. ~taken
      BY <2>3, <3>2
    <3>4. QED
      BY <1>6, <3>1, <3>2, <3>3
  <2>20. StreamMisses'
    BY <1>7, <1>13, <2>14, <2>15, <2>19 DEF StreamMisses
  <2>21. QED
    BY <2>18, <2>20 DEF MissInv
<1>14. CASE ~tracker.valid
  <2>1. ~lost /\ more = 0 /\ turned = 0
    BY <1>14 DEF lost
  <2>2. Lost = 0 /\ tracker.missed = 0 /\ tracker.behind = 0
    BY <1>1, <1>14 DEF StreamMisses
  <2>3. Lost' = 0 /\ tracker'.missed = 0 /\ tracker'.behind = 0 /\ ~tracker'.valid
    BY <1>7, <1>11, <1>14, <2>1, <2>2
  <2>4. wire'.done /\ Phase' = 1 => wire'.behind
    <3>1. SUFFICES ASSUME wire'.done, Phase' = 1 PROVE wire'.behind
      OBVIOUS
    <3>2. PollHalf = 1 /\ Half = 0
      BY <1>6, <3>1 DEF Phase
    <3>3. ~taken
      BY <1>4, <1>10, <3>2
    <3>4. QED
      BY <1>6, <3>1, <3>2, <3>3
  <2>5. tracker'.valid <=> stream'.state = "streaming"
    BY <1>1, <1>4, <1>7 DEF StreamMisses
  <2>6. StreamMisses'
    BY <2>3, <2>4, <2>5 DEF StreamMisses
  <2>7. Current' <=> Current
    BY <1>4 DEF Current
  <2>8. PlayMisses'
    BY <1>1, <1>4, <1>7, <1>14, <2>7 DEF PlayMisses
  <2>9. QED
    BY <2>6, <2>8 DEF MissInv
<1>15. QED
  BY <1>13, <1>14

(* A completion that is counted takes the frames elapsed since the one     *)
(* before into the count, but for its own.                                 *)
LEMMA TxDoneMisses ==
  ASSUME UacInv, UacInv', MissInv, NEW skew \in {-1, 1}, Completes(skew), CompletionBegins
  PROVE  MissInv'
<1>. DEFINE gap == tracker.behind
            judged == play.pending # 0 \/ (play.judged /\ gap = 0)
<1>1. Missing /\ StreamMisses /\ PlayMisses
  BY MissTypes DEF UacInv, MissInv
<1>2. Missing'
  BY MissTypesNext DEF UacInv
<1>3. /\ wire.done /\ ~wire'.done /\ wire'.half = wire.half /\ truth'.device = truth.device /\ truth'.host = truth.host
      /\ truth'.base = IF tracker'.valid /\ ~tracker.valid THEN wire.behind ELSE truth.base
      /\ stream'.opens = stream.opens /\ play'.opens = play.opens /\ play'.armed = play.armed
      /\ stream.state # "closed"
  BY DEF Completes
<1>4. /\ Watched \in TrackerType /\ Watched.valid = tracker.valid /\ Watched.missed = tracker.missed
      /\ Watched.behind = tracker.behind
  <2>1. tracker \in TrackerType
    BY DEF UacInv, UacTypes
  <2>2. QED
    BY <2>1, SampledFacts, SampledKeeps DEF Watched
<1>5. Lost' = Lost /\ Phase' = Phase
  BY <1>3 DEF Lost, Phase
<1>6. Lost \in Nat /\ Uncounted \in Int /\ Hidden \in 0..1 /\ Phase \in 0..1 /\ MissBound \in Nat
  BY <1>1, BoundFacts
<1>7. gap \in Nat /\ tracker.missed \in Nat /\ play.missed \in Nat
  BY <1>1 DEF Missing, StreamMisses, PlayMisses
<1>8. Gap(Watched, skew) = gap
  BY <1>4, <1>7, GapIsExact DEF Gap
<1>. DEFINE after == MissedAfterGap(tracker.missed, gap)
            played == MissedAfterGap(play.missed, gap)
<1>9. after \in Nat /\ played \in Nat /\ (play.missed =< tracker.missed => played =< after)
  BY <1>7, MissedFacts
<1>10. after = IF tracker.missed = 0 /\ gap = 0 THEN 0 ELSE tracker.missed + gap - 1
  BY <1>7, MissedFacts
<1>11. Measured(Watched, play, tracker', play', skew) =>
         IF ~tracker.valid
         THEN /\ tracker'.valid /\ tracker'.missed = 0 /\ tracker'.behind = 0
              /\ play'.missed = play.missed /\ play'.judged = play.judged
         ELSE /\ tracker'.valid /\ tracker'.behind = 0 /\ tracker'.missed = after
              /\ IF judged THEN play'.missed = played ELSE ~play'.judged /\ play'.missed = play.missed
  <2>1. [NoInterval EXCEPT !.valid = TRUE].valid /\ [NoInterval EXCEPT !.valid = TRUE].missed = 0
        /\ [NoInterval EXCEPT !.valid = TRUE].behind = 0
    BY DEF NoInterval
  <2>2. QED
    BY <1>4, <1>8, <2>1 DEF Measured
<1>. HIDE DEF gap, after, played
<1>12. left \in Int /\ left' \in Int /\ play.pending \in Nat /\ play'.pending \in Nat
  BY <1>1, <1>2 DEF Missing
(* What the play has not begun it has not counted for.                     *)
<1>13. left' = Unarmed \/ (left' > 0 /\ play'.pending = 0) => play.missed = 0 /\ ~play.judged /\ play.pending = 0
  <2>1. CASE left' = Unarmed
    <3>1. left = Unarmed
      BY <2>1 DEF CompletionBegins
    <3>2. play.pending = 0
      BY <3>1 DEF UacInv, FileIsShared
    <3>3. QED
      BY <1>1, <3>1, <3>2 DEF PlayMisses
  <2>2. CASE left' > 0 /\ play'.pending = 0
    <3>1. play'.start # NoStart /\ play'.start = play.start /\ left > 0
      BY <1>12, <2>2 DEF CompletionBegins
    <3>2. play.armed
      BY <3>1 DEF UacInv, FileIsShared
    <3>3. play.pending = 0
      BY <1>1, <3>1, <3>2 DEF PlayMisses
    <3>4. QED
      BY <1>1, <3>1, <3>3 DEF PlayMisses
  <2>3. QED
    BY <2>1, <2>2
<1>14. play'.armed /\ play'.start # NoStart => play'.pending = 0
  <2>1. SUFFICES ASSUME play'.armed, play'.start # NoStart PROVE play'.pending = 0
    OBVIOUS
  <2>2. play.armed /\ play.start # NoStart
    BY <1>3, <2>1 DEF CompletionBegins
  <2>3. play.pending = 0
    BY <1>1, <2>2 DEF PlayMisses
  <2>4. QED
    BY <2>1, <2>3 DEF CompletionBegins
<1>15. play.pending = 0 /\ play'.pending # 0 => play.missed = 0
  BY <1>1 DEF CompletionBegins, PlayMisses
<1>16. Current' <=> Current
  BY <1>3, <1>2 DEF Completes, Current
<1>17. play.pending # 0 \/ play.judged => play.missed =< tracker.missed
  BY <1>1 DEF PlayMisses
<1>18. Current => play.missed =< MissBound
  BY <1>1 DEF PlayMisses, MissBound
<1>19. CASE stream.state = "priming" /\ wire.loaded = Zlp
  <2>1. stream'.state = "priming" /\ tracker' = Watched /\ play'.missed = play.missed /\ play'.judged = play.judged
    BY <1>19 DEF Completes
  <2>2. ~tracker.valid /\ ~tracker'.valid
    BY <1>1, <1>4, <1>19, <2>1 DEF StreamMisses
  <2>3. Lost' = 0 /\ tracker'.missed = 0 /\ tracker'.behind = 0
    BY <1>1, <1>4, <1>5, <2>1, <2>2 DEF StreamMisses
  <2>4. StreamMisses'
    BY <1>3, <2>1, <2>2, <2>3 DEF StreamMisses
  <2>5. tracker.missed = 0
    BY <1>1, <2>2 DEF StreamMisses
  <2>6. play'.pending # 0 \/ play'.judged => play'.missed =< tracker'.missed
    <3>1. CASE play.pending # 0 \/ play.judged
      BY <1>7, <1>17, <2>1, <2>3, <2>5, <3>1
    <3>2. CASE play.pending = 0 /\ ~play.judged
      BY <1>7, <1>15, <2>1, <2>3, <3>2
    <3>3. QED
      BY <3>1, <3>2
  <2>7. Current' => play'.missed =< 0
    BY <1>16, <1>18, <2>1, <2>2 DEF MissBound
  <2>8. PlayMisses'
    BY <1>7, <1>13, <1>14, <2>1, <2>2, <2>6, <2>7 DEF PlayMisses
  <2>9. QED
    BY <2>4, <2>8 DEF MissInv
<1>20. CASE ~(stream.state = "priming" /\ wire.loaded = Zlp)
  <2>1. stream'.state = "streaming" /\ Measured(Watched, play, tracker', play', skew)
    BY <1>20 DEF Completes
  <2>2. tracker'.valid /\ tracker'.behind = 0 /\ tracker'.missed \in Nat
    BY <1>9, <1>11, <2>1
  <2>3. Uncounted' = Lost + Phase - tracker'.missed
    <3>1. Uncounted' = Lost' + Phase' + 0 - tracker'.missed - tracker'.behind
      BY <1>3 DEF Uncounted
    <3>2. QED
      BY <1>5, <1>6, <2>2, <3>1
  <2>4. Uncounted' \in 0..Hidden' /\ (tracker.valid => Uncounted' =< Uncounted)
    <3>1. CASE ~tracker.valid
      <4>1. Lost = 0 /\ tracker'.missed = 0
        BY <1>1, <1>11, <2>1, <3>1 DEF StreamMisses
      <4>2. Hidden' = IF wire.behind THEN 1 ELSE 0
        BY <1>3, <2>2, <3>1 DEF Hidden
      <4>3. Phase = 1 => wire.behind
        BY <1>1, <1>3 DEF StreamMisses
      <4>4. QED
        BY <1>6, <2>3, <3>1, <4>1, <4>2, <4>3
    <3>2. CASE tracker.valid
      <4>1. Uncounted \in 0..Hidden /\ Uncounted = Lost + Phase + 1 - tracker.missed - gap
        BY <1>1, <1>3, <3>2 DEF StreamMisses, Uncounted, gap
      <4>2. Hidden' = Hidden
        BY <1>3, <3>2 DEF Hidden
      <4>3. tracker'.missed = after
        BY <1>11, <2>1, <3>2
      <4>4. QED
        BY <1>6, <1>7, <1>10, <2>3, <4>1, <4>2, <4>3
    <3>3. QED
      BY <3>1, <3>2
  <2>5. StreamMisses'
    BY <1>3, <2>1, <2>2, <2>4 DEF StreamMisses
  <2>6. /\ play'.missed \in Nat
        /\ play'.pending # 0 \/ play'.judged => play'.missed =< tracker'.missed
        /\ Current => play'.missed =< Lost + 1 - Uncounted'
        /\ play.missed = 0 /\ ~play.judged /\ play.pending = 0 => play'.missed = 0 /\ ~play'.judged
    <3>1. CASE ~tracker.valid
      <4>1. play'.missed = play.missed /\ play'.judged = play.judged /\ tracker'.missed = 0 /\ tracker.missed = 0
        BY <1>1, <1>11, <2>1, <3>1 DEF StreamMisses
      <4>2. Current => play.missed =< 0
        BY <1>18, <3>1 DEF MissBound
      <4>3. Lost + 1 - Uncounted' >= 0
        BY <1>6, <2>3, <4>1
      <4>4. Uncounted' \in Int
        BY <1>6, <2>2, <2>3
      <4>5. Current => play'.missed =< Lost + 1 - Uncounted'
        <5>. DEFINE room == Lost + 1 - Uncounted'
        <5>1. room \in Int
          BY <1>6, <4>4
        <5>2. room >= 0
          BY <4>3
        <5>3. SUFFICES Current => play.missed =< room
          BY <4>1
        <5>. HIDE DEF room
        <5>4. QED
          BY <1>7, <4>2, <5>1, <5>2
      <4>6. play'.pending # 0 \/ play'.judged => play'.missed =< tracker'.missed
        BY <1>7, <1>15, <1>17, <4>1
      <4>7. QED
        BY <1>7, <4>1, <4>5, <4>6
    <3>2. CASE tracker.valid /\ judged
      <4>1. play'.missed = played /\ tracker'.missed = after
        BY <1>11, <2>1, <3>2
      <4>2. play.missed =< tracker.missed
        BY <1>17, <3>2
      <4>3. played =< after
        BY <1>9, <4>2
      <4>4. after =< Lost + 1 - Uncounted'
        BY <1>6, <1>9, <2>3, <4>1
      <4>5. Uncounted' \in Int
        BY <1>6, <2>2, <2>3
      <4>6. played =< Lost + 1 - Uncounted'
        <5>. DEFINE room == Lost + 1 - Uncounted'
        <5>1. room \in Int
          BY <1>6, <4>5
        <5>2. after =< room
          BY <4>4
        <5>. HIDE DEF room
        <5>3. played =< room
          BY <1>9, <4>3, <5>1, <5>2
        <5>4. QED
          BY <5>3 DEF room
      <4>7. ~(play.missed = 0 /\ ~play.judged /\ play.pending = 0)
        BY <3>2
      <4>8. QED
        BY <1>9, <4>1, <4>3, <4>6, <4>7
    <3>3. CASE tracker.valid /\ ~judged
      <4>1. play'.missed = play.missed /\ ~play'.judged /\ play.pending = 0
        BY <1>11, <2>1, <3>3
      <4>2. play'.pending # 0 => play'.missed =< tracker'.missed
        BY <1>15, <2>2, <4>1
      <4>3. Current => play.missed =< Lost + 1 - Uncounted
        BY <1>18, <3>3 DEF MissBound
      <4>4. Uncounted' =< Uncounted /\ Uncounted' \in Int
        BY <1>6, <2>2, <2>3, <2>4, <3>3
      <4>5. Current => play'.missed =< Lost + 1 - Uncounted'
        <5>. DEFINE u == Uncounted
                    v == Uncounted'
                    n == Lost
                    m == play.missed
        <5>1. m \in Int /\ n \in Int /\ u \in Int /\ v \in Int /\ v =< u /\ (Current => m =< n + 1 - u)
          BY <1>6, <1>7, <4>3, <4>4
        <5>2. SUFFICES Current => m =< n + 1 - v
          BY <4>1
        <5>. HIDE DEF u, v, n, m
        <5>3. QED
          BY <5>1
      <4>6. QED
        BY <1>7, <4>1, <4>2, <4>5
    <3>4. QED
      BY <3>1, <3>2, <3>3
  <2>7. PlayMisses'
    BY <1>5, <1>13, <1>14, <1>16, <2>2, <2>6 DEF PlayMisses
  <2>8. QED
    BY <2>5, <2>7 DEF MissInv
<1>21. QED
  BY <1>19, <1>20

(* No interval has been missed before the stream opens.                    *)
LEMMA MissStarts == Init => MissInv
<1>1. SUFFICES ASSUME Init PROVE MissInv
  OBVIOUS
<1>2. tracker.valid = FALSE /\ tracker.missed = 0 /\ tracker.behind = 0
  BY <1>1 DEF Init, NoInterval
<1>3. stream.state = "closed" /\ wire.done = FALSE
  BY <1>1 DEF Init, Unplugged
<1>4. Lost = 0
  BY <1>1 DEF Init, Lost
<1>5. play.missed = 0 /\ play.judged = FALSE /\ play.armed = FALSE
  BY <1>1 DEF Init, NoPlay
<1>6. StreamMisses
  BY <1>2, <1>3, <1>4 DEF StreamMisses
<1>7. PlayMisses
  BY <1>2, <1>3, <1>5 DEF PlayMisses, Current
<1>8. QED
  BY <1>6, <1>7 DEF MissInv

(* Every frame of an open stream is accounted for after every step.        *)
LEMMA MissStep == UacInv /\ UacInv' /\ MissInv /\ [Next]_vars => MissInv'
<1>1. SUFFICES ASSUME UacInv, UacInv', MissInv, [Next]_vars PROVE MissInv'
  OBVIOUS
<1>2. ASSUME NEW configured \in BOOLEAN, Configure(configured) PROVE MissInv'
  BY <1>1, <1>2, ConfigureMisses
<1>3. CASE Open
  BY <1>1, <1>3, OpenMisses
<1>4. CASE Close
  BY <1>1, <1>4, CloseMisses
<1>5. stream.opens \in 0..Budget /\ play.opens \in 0..Budget
  BY <1>1 DEF UacInv, UacTypes, StreamType, PlayType
<1>6. CASE AcceptPlay
  <2>1. RestartPlay(stream.opens, Unarmed)
    BY <1>6 DEF AcceptPlay
  <2>2. QED
    BY <1>1, <1>5, <2>1, RestartMisses
<1>7. CASE ClearPlay
  <2>1. RestartPlay(play.opens, 0)
    BY <1>7 DEF ClearPlay
  <2>2. QED
    BY <1>1, <1>5, <2>1, RestartMisses
<1>8. CASE Disarm
  BY <1>1, <1>8, DisarmMisses
<1>9. ASSUME NEW ahead \in 0..Ahead, NEW opens \in {stream.opens - 1, stream.opens},
             Arm(IF ahead = 0 THEN NoStart ELSE (stream.queued + ahead) % Wrap, opens)
      PROVE  MissInv'
  <2>. DEFINE start == IF ahead = 0 THEN NoStart ELSE (stream.queued + ahead) % Wrap
  <2>1. Arm(start, opens)
    BY <1>9
  <2>. HIDE DEF start
  <2>2. QED
    BY <1>1, <2>1, ArmMisses
<1>10. CASE Sample
  BY <1>1, <1>10, SampleMisses
<1>11. ASSUME NEW error \in BOOLEAN, NEW skew \in {-1, 1}, TxDone(error, skew) PROVE MissInv'
  <2>1. Completes(skew) /\ CompletionBegins
    BY <1>1, <1>11, TxDoneStep
  <2>2. QED
    BY <1>1, <2>1, TxDoneMisses
<1>12. ASSUME NEW polls \in BOOLEAN, Tick(polls) PROVE MissInv'
  BY <1>1, <1>12, TickMisses
<1>13. CASE UNCHANGED vars
  <2>1. stream' = stream /\ tracker' = tracker /\ play' = play /\ wire' = wire /\ truth' = truth /\ left' = left
    BY <1>13 DEF vars
  <2>2. SameBus
    BY <2>1 DEF SameBus
  <2>3. QED
    BY <1>1, <2>1, <2>2, PlayKept
<1>14. CASE PlayerCalls
  BY <1>6, <1>7, <1>8, <1>9, <1>14, Zenon DEF PlayerCalls
<1>15. CASE Interrupt
  BY <1>10, <1>11, <1>15, Zenon DEF Interrupt
<1>16. CASE Next
  BY <1>2, <1>3, <1>4, <1>12, <1>14, <1>15, <1>16, Zenon DEF Next
<1>17. QED
  BY <1>1, <1>13, <1>16

(* However often the host leaves a poll out or the device has nothing to   *)
(* send, and however late an interrupt is handled: the frames lost are the *)
(* missed intervals, but for those the next completion is still to count.  *)
THEOREM MissInvariant == Spec => []MissInv
<1>1. UacInv /\ MissInv /\ [Next]_vars => MissInv'
  BY UacStep, MissStep
<1>2. QED
  BY <1>1, MissStarts, UacInvariant, PTL DEF Spec

(* Only the handling of a completion takes one away.                       *)
LEMMA OnlyTxDoneReads ==
  ASSUME UacInv, [Next]_vars, Read
  PROVE  \E skew \in {-1, 1} : Completes(skew)
<1>1. wire \in WireType /\ wire.done /\ ~wire'.done /\ stream.state = "streaming" /\ stream'.state = "streaming"
  BY DEF UacInv, UacTypes, Read
<1>2. ~(\E configured \in BOOLEAN : Configure(configured))
  <2>1. SUFFICES ASSUME NEW configured \in BOOLEAN, Configure(configured) PROVE FALSE
    OBVIOUS
  <2>. DEFINE e == EndStream(stream)
  <2>2. stream' = [e EXCEPT !.configured = configured]
    BY <2>1 DEF Configure
  <2>3. e \in StreamType /\ e.state = "closed"
    BY EndStreamFacts DEF UacInv, UacTypes
  <2>. HIDE DEF e
  <2>4. QED
    BY <1>1, <2>2, <2>3 DEF StreamType
<1>3. ~Open
  BY <1>1, OpenStep DEF Opens
<1>4. ~Close
  BY <1>1, EndStreamFacts DEF Close, UacInv, UacTypes
<1>5. ~PlayerCalls
  BY <1>1 DEF PlayerCalls, AcceptPlay, ClearPlay, RestartPlay, Disarm, Arm
<1>6. ~Sample
  BY <1>1 DEF Sample, Primed
<1>7. ~(\E polls \in BOOLEAN : Tick(polls))
  BY <1>1 DEF Tick, WireType
<1>8. ~UNCHANGED vars
  BY <1>1 DEF vars
<1>9. \E error \in BOOLEAN, skew \in {-1, 1} : TxDone(error, skew)
  BY <1>2, <1>3, <1>4, <1>5, <1>6, <1>7, <1>8, Zenon DEF Next, Interrupt
<1>10. PICK error \in BOOLEAN, skew \in {-1, 1} : TxDone(error, skew)
  BY <1>9
<1>11. Completes(skew)
  BY <1>10, TxDoneStep
<1>12. QED
  BY <1>11

(* A stream misses the frames that were lost and no other; a late read of  *)
(* a completion moves it by one at most, and a play's count follows its    *)
(* stream's (track_interval(), missed_after_gap() and count_play_missed()).*)
THEOREM TheMissesAreCounted == Spec => MissesCounted
<1>1. ASSUME UacInv, UacInv', MissInv, MissInv', [Next]_vars, Read
      PROVE  /\ tracker'.missed \in Lost - Hidden..Lost + 1
             /\ ~wire.behind => tracker'.missed =< Lost
             /\ Current => play'.missed =< tracker'.missed + 1 /\ ConfirmedMissed(play') =< Lost + 1
  <2>1. PICK skew \in {-1, 1} : Completes(skew)
    BY <1>1, OnlyTxDoneReads
  <2>2. Missing /\ StreamMisses /\ Missing' /\ StreamMisses' /\ PlayMisses'
    BY <1>1, MissTypes, MissTypesNext DEF UacInv, MissInv
  <2>3. tracker.valid /\ tracker'.valid /\ wire.done /\ ~wire'.done
    BY <1>1, <2>2 DEF Read, StreamMisses
  <2>4. Lost' = Lost /\ Phase' = Phase /\ Hidden' = Hidden
    BY <2>1, <2>3 DEF Completes, Lost, Phase, Hidden
  <2>5. Lost \in Nat /\ Phase \in 0..1 /\ Hidden \in 0..1
    BY <2>2, BoundFacts
  <2>6. tracker'.behind = 0
    <3>1. Measured(Watched, play, tracker', play', skew) /\ tracker'.valid
      BY <1>1, <2>1, <2>3 DEF Completes, Read
    <3>2. QED
      BY <3>1 DEF Measured, NoInterval
  <2>. DEFINE u == Uncounted'
              n == Lost
              m == tracker'.missed
              q == play'.missed
  <2>7. u = n + Phase - m
    <3>1. u = Lost' + Phase' + 0 - tracker'.missed - tracker'.behind
      BY <2>3 DEF Uncounted
    <3>2. tracker'.missed \in Int
      BY <2>2 DEF Missing
    <3>3. QED
      BY <2>4, <2>5, <2>6, <3>1, <3>2
  <2>8. u \in 0..Hidden /\ m \in Int /\ q \in Nat /\ n \in Nat
    BY <2>2, <2>3, <2>4, <2>5 DEF Missing, StreamMisses, PlayMisses
  <2>9. ~wire.behind => Phase = 0
    BY <2>2, <2>3, <2>5 DEF StreamMisses
  <2>10. Current => q =< n + 1 - u
    <3>1. Current' <=> Current
      BY <1>1, <2>1 DEF Completes, Current, Read
    <3>2. QED
      BY <2>2, <2>3, <2>4, <3>1 DEF PlayMisses
  <2>. DEFINE confirmed == ConfirmedMissed(play')
  <2>11. MissedAfterGap(q, 0) \in Nat /\ MissedAfterGap(q, 0) =< q
    BY <2>8, MissedFacts
  <2>12. confirmed = IF play'.unconfirmed THEN MissedAfterGap(q, 0) ELSE q
    BY DEF ConfirmedMissed
  <2>. HIDE DEF u, n, m, q, confirmed
  <2>13. confirmed \in Int /\ confirmed =< q
    BY <2>8, <2>11, <2>12
  <2>14. m \in n - Hidden..n + 1
    BY <2>5, <2>7, <2>8
  <2>15. ~wire.behind => m =< n
    BY <2>5, <2>7, <2>8, <2>9
  <2>16. Current => q =< m + 1 /\ confirmed =< n + 1
    BY <2>5, <2>7, <2>8, <2>10, <2>13
  <2>17. QED
    BY <2>14, <2>15, <2>16 DEF n, m, q, confirmed
<1>2. UacInv /\ UacInv' /\ MissInv /\ MissInv' /\ [Next]_vars
      => [Read => /\ tracker'.missed \in Lost - Hidden..Lost + 1
                  /\ ~wire.behind => tracker'.missed =< Lost
                  /\ Current => play'.missed =< tracker'.missed + 1 /\ ConfirmedMissed(play') =< Lost + 1]_vars
  BY <1>1
<1>3. QED
  BY <1>2, UacInvariant, MissInvariant, PTL DEF Spec, MissesCounted

-----------------------------------------------------------------------------
(* The unprimed intervals.                                                 *)

(* What take_back_latest_gap() takes: one interval of the latest gap, an   *)
(* unprimed one if it has any.                                             *)
LEMMA TakeBackParts ==
  ASSUME NEW t \in TrackerType, Parts(t), t.latest.counted > 0, NEW u, u = TakeBack(t)
  PROVE  /\ u \in TrackerType /\ u.missed = t.missed /\ u.skipped = t.skipped /\ u.sampled = t.sampled
         /\ u.unprimed >= 0 /\ u.unprimed >= t.unprimed - 1 /\ u.unprimed =< t.unprimed /\ u.unprimed =< t.missed - 1
         /\ u.latest.counted = t.latest.counted - 1
         /\ 0 =< u.latest.unprimed /\ u.latest.unprimed =< u.latest.counted /\ u.latest.unprimed =< u.unprimed
         /\ u.unprimed - u.latest.unprimed = t.unprimed - t.latest.unprimed
<1>. DEFINE n == t.unprimed
            c == t.latest.counted
            d == t.latest.unprimed
            part == IF d # 0 THEN 1 ELSE 0
            latest == IF c - 1 = 0 THEN NoGap ELSE [counted |-> c - 1, unprimed |-> d - part]
            v == [t EXCEPT !.unprimed = n - part, !.latest = latest]
<1>1. n \in Int /\ c \in Int /\ d \in Int /\ t.missed \in Int
  BY DEF TrackerType
<1>2. 0 =< d /\ d =< c /\ d =< n /\ n - d =< t.missed - c /\ c > 0
  BY DEF Parts
<1>3. u = v
  <2>1. \A a, b : [t EXCEPT !.unprimed = @ - a, !.latest = b] = [t EXCEPT !.unprimed = n - a, !.latest = b]
    BY DEF TrackerType
  <2>2. QED
    BY <1>2, <2>1 DEF TakeBack
<1>. HIDE DEF n, c, d
<1>4. part \in 0..1 /\ (d = 0 => part = 0) /\ (d > 0 => part = 1)
  BY <1>1, <1>2
<1>5. /\ latest \in [counted : Int, unprimed : Int] /\ latest.counted = c - 1 /\ latest.unprimed = d - part
  <2>. HIDE DEF part
  <2>1. CASE c = 1
    <3>1. d - part = 0
      BY <1>1, <1>2, <1>4, <2>1
    <3>2. QED
      BY <1>1, <2>1, <3>1 DEF NoGap
  <2>2. CASE c # 1
    BY <1>1, <1>4, <2>2
  <2>3. QED
    BY <2>1, <2>2
<1>. HIDE DEF part, latest
<1>6. v \in TrackerType /\ v.unprimed = n - part /\ v.latest = latest /\ v.missed = t.missed /\ v.skipped = t.skipped
      /\ v.sampled = t.sampled
  <2>1. n - part \in Int
    BY <1>1, <1>4
  <2>2. QED
    BY <1>5, <2>1 DEF TrackerType
<1>. HIDE DEF v
<1>7. /\ n - part >= 0 /\ n - part >= n - 1 /\ n - part =< n /\ n - part =< t.missed - 1
      /\ 0 =< d - part /\ d - part =< c - 1 /\ d - part =< n - part
      /\ (n - part) - (d - part) = n - d
  BY <1>1, <1>2, <1>4
<1>8. QED
  BY <1>3, <1>5, <1>6, <1>7 DEF n, c, d

(* Of the missed intervals, those beyond the samples that found nothing    *)
(* held off are unprimed, if a sample found a packet waiting.              *)
LEMMA UnprimedFacts ==
  ASSUME NEW missed \in Nat, NEW skipped \in Nat, NEW sampled \in BOOLEAN
  PROVE  /\ UnprimedPart(missed, skipped, sampled) \in 0..missed
         /\ UnprimedPart(missed, skipped, sampled) = IF ~sampled \/ skipped >= missed THEN 0 ELSE missed - skipped
<1>1. Lesser(missed, skipped) = IF missed < skipped THEN missed ELSE skipped
  BY DEF Lesser
<1>2. UnprimedPart(missed, skipped, sampled) = IF sampled THEN missed - Lesser(missed, skipped) ELSE 0
  BY DEF UnprimedPart
<1>. DEFINE part == UnprimedPart(missed, skipped, sampled)
            lesser == Lesser(missed, skipped)
<1>. HIDE DEF part, lesser
<1>3. lesser = IF missed < skipped THEN missed ELSE skipped
  BY <1>1 DEF lesser
<1>4. part = IF sampled THEN missed - lesser ELSE 0
  BY <1>2 DEF lesser, part
<1>5. part \in 0..missed /\ part = IF ~sampled \/ skipped >= missed THEN 0 ELSE missed - skipped
  BY <1>3, <1>4
<1>6. QED
  BY <1>5 DEF part

(* How a gap of so many frames changes the parts of the count.             *)
Counts(t, u, elapsed, skipped, sampled) ==
  /\ Parts(u) /\ u.skipped = t.skipped /\ u.sampled = t.sampled /\ u.unprimed \in Int
  /\ u.unprimed >= t.unprimed - 1
  /\ elapsed = 0 => u.unprimed =< t.unprimed /\ (t.missed = 0 => u.unprimed = t.unprimed)
  /\ elapsed > 0 /\ skipped =< elapsed - 1 => u.unprimed = t.unprimed + UnprimedPart(elapsed - 1, skipped, sampled)
  /\ elapsed > 0 /\ (skipped >= elapsed - 1 \/ ~sampled) => u.unprimed =< t.unprimed
  /\ elapsed > 1 \/ (elapsed = 1 /\ t.latest.counted > 0) => u.latest.counted > 0

LEMMA CountParts ==
  ASSUME NEW t \in TrackerType, Parts(t), t.missed >= 0,
         NEW elapsed \in Nat, NEW skipped \in Nat, NEW sampled \in BOOLEAN,
         elapsed = 0 /\ t.missed > 0 => t.latest.counted > 0,
         NEW u, u = CountMissed(t, elapsed, skipped, sampled)
  PROVE  Counts(t, u, elapsed, skipped, sampled)
<1>. DEFINE m == t.missed
            n == t.unprimed
            c == t.latest.counted
            d == t.latest.unprimed
            missed == MissedAfterGap(m, elapsed)
            moves == skipped > missed - m /\ c # 0
            moved == IF moves THEN TakeBack(t) ELSE t
            added == (missed - m) + (IF moves THEN 1 ELSE 0)
            part == UnprimedPart(added, skipped, sampled)
<1>1. m \in Nat /\ n \in Int /\ c \in Int /\ d \in Int
  BY DEF TrackerType
<1>2. 0 =< d /\ d =< c /\ d =< n /\ n - d =< m - c
  BY DEF Parts
<1>3. missed \in Nat /\ missed = IF m = 0 /\ elapsed = 0 THEN 0 ELSE m + elapsed - 1
  BY <1>1, MissedFacts
<1>4. u = IF missed < m THEN [TakeBack(t) EXCEPT !.missed = missed]
          ELSE IF added = 0 THEN [t EXCEPT !.missed = missed]
          ELSE [moved EXCEPT !.missed = missed, !.unprimed = @ + part, !.latest = [counted |-> added, unprimed |-> part]]
  BY DEF CountMissed
<1>5. elapsed = 0 /\ m > 0 => c > 0
  OBVIOUS
<1>. DEFINE b == TakeBack(t)
<1>6. c > 0 => /\ b \in TrackerType /\ b.missed = m /\ b.skipped = t.skipped /\ b.sampled = t.sampled
               /\ b.unprimed >= 0 /\ b.unprimed >= n - 1 /\ b.unprimed =< n /\ b.unprimed =< m - 1
               /\ b.latest.counted = c - 1
               /\ 0 =< b.latest.unprimed /\ b.latest.unprimed =< b.latest.counted /\ b.latest.unprimed =< b.unprimed
               /\ b.unprimed - b.latest.unprimed = n - d
  BY TakeBackParts
<1>. HIDE DEF b
<1>. HIDE DEF m, n, c, d, missed, moves, moved, added, part
<1>7. CASE missed < m
  <2>1. elapsed = 0 /\ m > 0 /\ missed = m - 1 /\ c > 0
    BY <1>1, <1>3, <1>5, <1>7
  <2>2. u = [b EXCEPT !.missed = missed]
    BY <1>4, <1>7 DEF b
  <2>3. /\ u.missed = missed /\ u.skipped = t.skipped /\ u.sampled = t.sampled /\ u.unprimed = b.unprimed /\ u.latest = b.latest
    BY <1>6, <2>1, <2>2 DEF TrackerType
  <2>4. b.unprimed \in Int /\ b.latest.counted \in Int /\ b.latest.unprimed \in Int
    BY <1>6, <2>1 DEF TrackerType
  <2>5. Parts(u)
    <3>1. b.unprimed - b.latest.unprimed =< missed - b.latest.counted
      BY <1>1, <1>2, <1>6, <2>1, <2>4
    <3>2. QED
      BY <1>6, <2>1, <2>3, <3>1 DEF Parts
  <2>6. QED
    BY <1>1, <1>6, <2>1, <2>3, <2>4, <2>5 DEF Counts, m, n
<1>8. CASE missed >= m /\ added = 0
  <2>1. u = [t EXCEPT !.missed = missed] /\ missed = m
    <3>1. ~(missed < m)
      BY <1>1, <1>3, <1>8
    <3>2. missed - m \in Nat
      BY <1>1, <1>3, <1>8
    <3>3. missed - m = 0
      BY <1>8, <3>2 DEF added
    <3>4. QED
      BY <1>1, <1>3, <1>4, <1>8, <3>1, <3>3
  <2>2. u.missed = m /\ u.skipped = t.skipped /\ u.sampled = t.sampled /\ u.unprimed = n /\ u.latest = t.latest
    BY <2>1 DEF TrackerType, n
  <2>3. Parts(u)
    BY <2>2 DEF Parts, m, n
  <2>4. elapsed > 0 => elapsed = 1
    BY <1>1, <1>3, <2>1
  <2>5. UnprimedPart(0, skipped, sampled) = 0
    <3>1. UnprimedPart(0, skipped, sampled) \in 0..0
      BY UnprimedFacts
    <3>2. QED
      BY <3>1
  <2>6. elapsed > 0 => u.unprimed = t.unprimed + UnprimedPart(elapsed - 1, skipped, sampled)
    BY <1>1, <2>2, <2>4, <2>5 DEF n
  <2>7. QED
    BY <1>1, <2>2, <2>3, <2>4, <2>6 DEF Counts, n
<1>9. CASE missed >= m /\ added # 0 /\ moves
  <2>1. c > 0 /\ moved = b /\ added = (missed - m) + 1 /\ skipped > missed - m
    BY <1>1, <1>2, <1>9 DEF moves, moved, added, b, c
  <2>2. added \in Nat /\ added >= 1 /\ skipped >= added
    BY <1>1, <1>3, <1>9, <2>1
  <2>3. part = 0
    BY <2>2 DEF part, UnprimedPart, Lesser
  <2>4. b.unprimed \in Int
    BY <1>6, <2>1 DEF TrackerType
  <2>5. u = [b EXCEPT !.missed = missed, !.unprimed = b.unprimed, !.latest = [counted |-> added, unprimed |-> 0]]
    <3>1. ~(missed < m)
      BY <1>1, <1>3, <1>9
    <3>2. u = [b EXCEPT !.missed = missed, !.unprimed = @ + 0, !.latest = [counted |-> added, unprimed |-> 0]]
      BY <1>4, <1>9, <2>1, <2>3, <3>1
    <3>3. b.unprimed + 0 = b.unprimed
      BY <2>4
    <3>4. QED
      BY <1>6, <2>1, <3>2, <3>3 DEF TrackerType
  <2>6. /\ u.missed = missed /\ u.skipped = t.skipped /\ u.sampled = t.sampled /\ u.unprimed = b.unprimed
        /\ u.latest.counted = added /\ u.latest.unprimed = 0
    BY <1>6, <2>1, <2>5 DEF TrackerType
  <2>7. Parts(u)
    <3>1. b.unprimed - 0 =< missed - added
      BY <1>1, <1>3, <1>6, <2>1, <2>4
    <3>2. QED
      BY <1>6, <2>1, <2>2, <2>6, <3>1 DEF Parts
  <2>8. elapsed = 0 => m = 0
    BY <1>1, <1>3, <1>9
  <2>9. m # 0
    BY <1>1, <1>2, <2>1
  <2>10. elapsed > 0 /\ skipped > elapsed - 1
    BY <1>1, <1>3, <2>1, <2>8, <2>9
  <2>11. QED
    BY <1>1, <1>6, <2>1, <2>2, <2>4, <2>6, <2>7, <2>10 DEF Counts, n
<1>10. CASE missed >= m /\ added # 0 /\ ~moves
  <2>1. moved = t /\ added = missed - m /\ added \in Nat /\ added >= 1
    BY <1>1, <1>3, <1>10 DEF moved, added
  <2>2. elapsed > 1 /\ added = elapsed - 1
    BY <1>1, <1>3, <2>1
  <2>3. /\ part \in 0..added /\ (skipped >= added \/ ~sampled => part = 0)
        /\ part = UnprimedPart(elapsed - 1, skipped, sampled)
    <3>1. part = UnprimedPart(added, skipped, sampled)
      BY DEF part
    <3>2. part \in 0..added /\ (skipped >= added \/ ~sampled => part = 0)
      BY <2>1, <3>1 DEF UnprimedPart, Lesser
    <3>3. QED
      BY <2>2, <3>1, <3>2
  <2>4. u = [t EXCEPT !.missed = missed, !.unprimed = n + part, !.latest = [counted |-> added, unprimed |-> part]]
    <3>1. ~(missed < m)
      BY <1>1, <1>3, <1>10
    <3>2. u = [t EXCEPT !.missed = missed, !.unprimed = @ + part, !.latest = [counted |-> added, unprimed |-> part]]
      BY <1>4, <1>10, <2>1, <3>1
    <3>3. QED
      BY <3>2 DEF TrackerType, n
  <2>5. /\ u.missed = missed /\ u.skipped = t.skipped /\ u.sampled = t.sampled /\ u.unprimed = n + part
        /\ u.latest.counted = added /\ u.latest.unprimed = part
    BY <2>4 DEF TrackerType
  <2>6. Parts(u)
    <3>1. part \in Int /\ n >= 0 /\ n =< m
      BY <1>1, <1>2, <2>1, <2>3
    <3>2. missed - added = m
      BY <1>1, <1>3, <2>1
    <3>3. 0 =< part /\ part =< added /\ part =< n + part /\ (n + part) - part =< missed - added
      BY <1>1, <2>1, <2>3, <3>1, <3>2
    <3>4. QED
      BY <2>5, <3>3 DEF Parts
  <2>7. n + part \in Int /\ n + part >= n - 1 /\ (skipped >= elapsed - 1 \/ ~sampled => n + part =< n)
    BY <1>1, <2>1, <2>2, <2>3
  <2>8. QED
    BY <2>1, <2>2, <2>3, <2>5, <2>6, <2>7 DEF Counts, n
<1>11. moves \in BOOLEAN /\ (missed < m \/ missed >= m)
  BY <1>1, <1>3 DEF moves
<1>12. QED
  BY <1>7, <1>8, <1>9, <1>10, <1>11

(* A stream that closes or opens has lost and sampled nothing, and its     *)
(* timer does not run.                                                     *)
LEMMA BlameCloses ==
  ASSUME BlameInv, tracker' = NoInterval, wire'.timer = NoTimer, ~wire'.done,
         play'.missed = play.missed, play'.unprimed = play.unprimed
  PROVE  BlameInv'
<1>1. wire'.timer.left = 0 /\ wire'.timer.expired = FALSE
  BY DEF NoTimer
<1>2. OffPoll' \in 0..1
  BY DEF OffPoll
<1>3. /\ tracker'.valid = FALSE /\ tracker'.missed = 0 /\ tracker'.unprimed = 0 /\ tracker'.latest = NoGap
      /\ tracker'.skipped = 0 /\ tracker'.sampled = FALSE /\ NoGap.counted = 0 /\ NoGap.unprimed = 0
  BY DEF NoInterval, NoGap
<1>4. TimerRuns'
  <2>1. wire'.timer.left \in 0..3 /\ ~wire'.timer.expired /\ ~tracker'.valid /\ ~wire'.done
    BY <1>1, <1>3
  <2>2. QED
    BY <2>1 DEF TimerRuns
<1>5. TimerIsShort'
  <2>1. (IF wire'.done THEN 1 ELSE 3) = 3
    OBVIOUS
  <2>2. 0 =< 3 - OffPoll'
    <3>1. \A o \in 0..1 : 0 =< 3 - o
      OBVIOUS
    <3>2. QED
      BY <1>2, <3>1
  <2>3. wire'.timer.left =< (IF wire'.done THEN 1 ELSE 3) - OffPoll'
    BY <1>1, <2>1, <2>2
  <2>4. QED
    BY <2>3 DEF TimerIsShort
<1>6. PartsFit'
  BY <1>3 DEF BlameInv, PartsFit, Parts
<1>7. GapAccounted'
  BY <1>3 DEF GapAccounted
<1>8. QED
  BY <1>4, <1>5, <1>6, <1>7 DEF BlameInv

(* What leaves the tracker and the wire alone leaves the account alone.    *)
LEMMA BlameKept ==
  ASSUME BlameInv, tracker' = tracker, wire' = wire, truth'.device = truth.device, truth'.host = truth.host,
         truth'.late = truth.late, play'.unprimed \in 0..play'.missed
  PROVE  BlameInv'
<1>1. OffPoll' = OffPoll /\ Phase' = Phase /\ Lost' = Lost
  BY DEF OffPoll, Phase, Lost
<1>2. Halves' = Halves
  BY <1>1 DEF Halves
<1>3. Polls' = Polls
  BY <1>2 DEF Polls
<1>4. Uncounted' = Uncounted
  BY <1>1 DEF Uncounted
<1>5. PartsFit'
  BY DEF BlameInv, PartsFit, Parts
<1>6. TimerRuns'
  BY <1>1 DEF BlameInv, TimerRuns
<1>7. TimerIsShort' <=> TimerIsShort
  BY <1>1 DEF TimerIsShort
<1>8. GapAccounted'
  <2>1. CASE tracker.valid
    <3>1. PICK host \in 0..tracker.behind + 1, device \in 0..tracker.behind + 1, phase \in 0..1 : GapAccount(host, device, phase)
      BY <2>1 DEF BlameInv, GapAccounted
    <3>2. GapAccount(host, device, phase)'
      BY <1>1, <1>2, <1>3, <1>4, <1>7, <3>1 DEF GapAccount
    <3>3. QED
      BY <2>1, <3>2 DEF GapAccounted
  <2>2. CASE ~tracker.valid
    BY <2>2 DEF BlameInv, GapAccounted
  <2>3. QED
    BY <2>1, <2>2
<1>9. QED
  BY <1>5, <1>6, <1>7, <1>8 DEF BlameInv

(* Half a frame brings the timer a half nearer to running out, and the     *)
(* other half of the host's frame.                                         *)
LEMMA TimerDownFacts ==
  ASSUME NEW t \in TimerType
  PROVE  /\ TimerDown(t).left = IF t.left > 0 THEN t.left - 1 ELSE t.left
         /\ TimerDown(t).expired <=> IF t.left > 0 THEN t.left = 1 ELSE t.expired
<1>. DEFINE expired == t.left = 1
            n == t.left - 1
<1>1. n \in Int /\ expired \in BOOLEAN
  BY DEF TimerType
<1>2. TimerDown(t) = IF t.left > 0 THEN [t EXCEPT !.left = n, !.expired = expired] ELSE t
  BY DEF TimerDown
<1>. HIDE DEF expired, n
<1>3. [t EXCEPT !.left = n, !.expired = expired].left = n /\ [t EXCEPT !.left = n, !.expired = expired].expired = expired
  BY DEF TimerType
<1>4. TimerDown(t).left = IF t.left > 0 THEN n ELSE t.left
  BY <1>2, <1>3
<1>5. TimerDown(t).expired = IF t.left > 0 THEN expired ELSE t.expired
  BY <1>2, <1>3
<1>6. QED
  BY <1>1, <1>4, <1>5 DEF n, expired

(* What BlameInv is about has its type.                                    *)
Blaming ==
  /\ tracker.unprimed \in Int /\ tracker.latest.counted \in Int /\ tracker.latest.unprimed \in Int
  /\ tracker.skipped \in Int /\ tracker.sampled \in BOOLEAN
  /\ play.unprimed \in Int /\ truth.late \in BOOLEAN
  /\ wire.timer \in TimerType /\ wire.timer.left \in Int /\ wire.timer.expired \in BOOLEAN
  /\ OffPoll \in 0..1

LEMMA BlameTypes == UacTypes => Blaming
<1>1. SUFFICES ASSUME UacTypes PROVE Blaming
  OBVIOUS
<1>2. play \in PlayType /\ tracker \in TrackerType /\ truth \in TruthType /\ wire \in WireType
  BY <1>1 DEF UacTypes
<1>3. /\ tracker.unprimed \in Int /\ tracker.latest.counted \in Int /\ tracker.latest.unprimed \in Int
      /\ tracker.skipped \in Int /\ tracker.sampled \in BOOLEAN
  BY <1>2 DEF TrackerType
<1>4. play.unprimed \in Int /\ truth.late \in BOOLEAN
  BY <1>2 DEF PlayType, TruthType
<1>5. wire.timer \in TimerType
  BY <1>2 DEF WireType, TimerType
<1>6. wire.timer.left \in Int /\ wire.timer.expired \in BOOLEAN
  BY <1>5 DEF TimerType
<1>7. OffPoll \in 0..1
  BY DEF OffPoll
<1>8. QED
  BY <1>3, <1>4, <1>5, <1>6, <1>7 DEF Blaming

LEMMA BlameTypesNext == UacTypes' => Blaming'
BY BlameTypes, PTL

(* What half a frame changes of what BlameInv is about: the poll takes the *)
(* packet, or the frame is the device's loss or the host's, and the half   *)
(* that ends the frame is one more elapsed.                                *)
Turned == IF Half = 0 THEN 1 ELSE 0
Ticked(polls) ==
  /\ polls => OffPoll = 1
  /\ OffPoll' = 1 - OffPoll /\ (wire'.done <=> wire.done \/ polls)
  /\ wire'.timer.left = IF wire.timer.left > 0 THEN wire.timer.left - 1 ELSE wire.timer.left
  /\ wire'.timer.expired <=> IF wire.timer.left > 0 THEN wire.timer.left = 1 ELSE wire.timer.expired
  /\ truth'.late <=> truth.late \/ wire.done \/ wire.timer.expired
  /\ tracker'.valid = tracker.valid /\ tracker'.missed = tracker.missed /\ tracker'.unprimed = tracker.unprimed
  /\ tracker'.latest = tracker.latest /\ tracker'.skipped = tracker.skipped /\ tracker'.sampled = tracker.sampled
  /\ tracker'.behind = tracker.behind + (IF tracker.valid THEN Turned ELSE 0)
  /\ Turned \in 0..1 /\ Phase' + OffPoll = Phase + Turned
  /\ play' = play /\ stream' = stream
  /\ truth'.device = truth.device + (IF tracker.valid /\ OffPoll = 1 /\ wire.done /\ polls THEN 1 ELSE 0)
  /\ truth'.host = truth.host + (IF tracker.valid /\ OffPoll = 1 /\ ~polls THEN 1 ELSE 0)

LEMMA TickFacts == ASSUME UacInv, NEW polls \in BOOLEAN, Tick(polls) PROVE Ticked(polls)
<1>. DEFINE point == Half = PollHalf
            taken == polls /\ Primed
            lost == point /\ tracker.valid /\ ~taken
            behind == IF Half = 0 /\ tracker.valid THEN tracker.behind + 1 ELSE tracker.behind
            timer == TimerDown(wire.timer)
<1>1. Missing /\ Blaming
  BY MissTypes, BlameTypes DEF UacInv
<1>2. /\ tracker \in TrackerType /\ wire \in WireType /\ truth \in TruthType
  BY DEF UacInv, UacTypes
<1>3. /\ stream' = stream /\ play' = play /\ (polls => point)
      /\ wire' = [wire EXCEPT !.half = Half, !.timer = TimerDown(@), !.done = @ \/ taken, !.behind = @ \/ (Half = 0 /\ wire.done)]
      /\ tracker' = [tracker EXCEPT !.behind = IF Half = 0 /\ tracker.valid THEN @ + 1 ELSE @]
  BY DEF Tick
<1>4. /\ truth'.device = (IF lost /\ polls THEN truth.device + 1 ELSE truth.device)
      /\ truth'.host = (IF lost /\ ~polls THEN truth.host + 1 ELSE truth.host)
      /\ truth'.late = (truth.late \/ wire.done \/ wire.timer.expired)
  BY <1>2 DEF Tick, TruthType
<1>5. wire'.half = Half /\ wire'.done = (wire.done \/ taken) /\ wire'.timer = timer
  BY <1>2, <1>3 DEF WireType
<1>6. tracker' = [tracker EXCEPT !.behind = behind]
  BY <1>2, <1>3 DEF TrackerType
<1>7. behind \in Int /\ behind = tracker.behind + (IF tracker.valid THEN Turned ELSE 0)
  BY <1>1 DEF Missing, Turned
<1>8. timer.left = (IF wire.timer.left > 0 THEN wire.timer.left - 1 ELSE wire.timer.left)
      /\ (timer.expired <=> IF wire.timer.left > 0 THEN wire.timer.left = 1 ELSE wire.timer.expired)
  BY <1>1, TimerDownFacts DEF Blaming
<1>9. /\ Half \in 0..1 /\ Half = 1 - wire.half /\ PollHalf \in 0..1 /\ wire.half \in 0..1
      /\ (wire.half = 0 => Half = 1) /\ (wire.half = 1 => Half = 0)
  BY <1>1 DEF Half, Missing
<1>10. OffPoll = (IF point THEN 1 ELSE 0) /\ OffPoll' = (IF Half = PollHalf THEN 0 ELSE 1)
  <2>1. OffPoll' = IF wire'.half = PollHalf THEN 0 ELSE 1
    BY DEF OffPoll
  <2>2. wire.half = PollHalf <=> ~point
    BY <1>9
  <2>3. QED
    BY <1>5, <2>1, <2>2 DEF OffPoll
<1>. HIDE DEF behind, timer
<1>11. /\ tracker'.valid = tracker.valid /\ tracker'.missed = tracker.missed /\ tracker'.unprimed = tracker.unprimed
       /\ tracker'.latest = tracker.latest /\ tracker'.skipped = tracker.skipped /\ tracker'.sampled = tracker.sampled
       /\ tracker'.behind = behind
  BY <1>2, <1>6 DEF TrackerType
<1>12. Turned \in 0..1 /\ Phase' + OffPoll = Phase + Turned
  <2>1. Phase' = IF PollHalf = 1 /\ Half = 0 THEN 1 ELSE 0
    BY <1>5 DEF Phase
  <2>2. Phase = IF PollHalf = 1 /\ Half = 1 THEN 1 ELSE 0
    BY <1>9 DEF Phase
  <2>3. Turned = IF Half = 0 THEN 1 ELSE 0
    BY DEF Turned
  <2>4. CASE PollHalf = 0
    BY <1>9, <1>10, <2>1, <2>2, <2>3, <2>4
  <2>5. CASE PollHalf = 1
    BY <1>9, <1>10, <2>1, <2>2, <2>3, <2>5
  <2>6. QED
    BY <1>9, <2>4, <2>5
<1>13. taken <=> polls /\ ~wire.done
  BY DEF Primed
<1>14. wire'.done <=> wire.done \/ polls
  BY <1>1, <1>5, <1>13 DEF Missing
<1>15. truth'.late <=> truth.late \/ wire.done \/ wire.timer.expired
  BY <1>1, <1>4 DEF Missing, Blaming
<1>16. OffPoll' = 1 - OffPoll /\ (polls => OffPoll = 1)
  BY <1>3, <1>10
<1>17. truth'.device = truth.device + (IF tracker.valid /\ OffPoll = 1 /\ wire.done /\ polls THEN 1 ELSE 0)
  <2>1. (lost /\ polls) <=> (tracker.valid /\ OffPoll = 1 /\ wire.done /\ polls)
    BY <1>10, <1>13
  <2>2. truth.device + 0 = truth.device
    BY <1>1 DEF Missing
  <2>. HIDE DEF lost
  <2>3. QED
    BY <1>4, <2>1, <2>2
<1>18. truth'.host = truth.host + (IF tracker.valid /\ OffPoll = 1 /\ ~polls THEN 1 ELSE 0)
  <2>1. (lost /\ ~polls) <=> (tracker.valid /\ OffPoll = 1 /\ ~polls)
    BY <1>10, <1>13
  <2>2. truth.host + 0 = truth.host
    BY <1>1 DEF Missing
  <2>. HIDE DEF lost
  <2>3. QED
    BY <1>4, <2>1, <2>2
<1>19. QED
  BY <1>3, <1>5, <1>7, <1>8, <1>11, <1>12, <1>14, <1>15, <1>16, <1>17, <1>18 DEF Ticked

(* The timer is not out before the host's poll, nor late after it.         *)
LEMMA TickTimer ==
  ASSUME Blaming, Blaming', Missing, Missing', TimerRuns, NEW polls \in BOOLEAN, Ticked(polls)
  PROVE  TimerRuns' /\ (TimerIsShort => TimerIsShort')
<1>. DEFINE l == wire.timer.left
            x == wire.timer.expired
            w == wire.done
            o == OffPoll
            m == wire'.timer.left
            y == wire'.timer.expired
            z == wire'.done
            q == OffPoll'
<1>1. l \in 0..3 /\ x \in BOOLEAN /\ w \in BOOLEAN /\ o \in 0..1 /\ (x => l = 0) /\ (w => l =< 2 - o)
  BY DEF Blaming, Missing, TimerRuns
<1>2. tracker.valid => l > 0 \/ x
  BY DEF TimerRuns
<1>3. y \in BOOLEAN /\ z \in BOOLEAN
  BY DEF Blaming, Missing
<1>4. /\ m = IF l > 0 THEN l - 1 ELSE l
      /\ y <=> IF l > 0 THEN l = 1 ELSE x
      /\ (z <=> w \/ polls) /\ (polls => o = 1) /\ q = 1 - o /\ tracker'.valid = tracker.valid
  BY DEF Ticked
<1>5. TimerIsShort <=> l =< (IF w THEN 1 ELSE 3) - o
  BY DEF TimerIsShort
<1>6. TimerIsShort' <=> m =< (IF z THEN 1 ELSE 3) - q
  BY DEF TimerIsShort
<1>. HIDE DEF l, x, w, o, m, y, z, q
<1>7. m \in 0..3 /\ (y => m = 0) /\ (l > 0 \/ x => m > 0 \/ y)
  BY <1>1, <1>3, <1>4
<1>8. z => m =< 2 - q
  BY <1>1, <1>3, <1>4
<1>9. l =< (IF w THEN 1 ELSE 3) - o => m =< (IF z THEN 1 ELSE 3) - q
  BY <1>1, <1>3, <1>4
<1>10. tracker'.valid => m > 0 \/ y
  BY <1>2, <1>4, <1>7
<1>11. TimerRuns'
  BY <1>7, <1>8, <1>10 DEF TimerRuns, m, y, z, q
<1>12. QED
  BY <1>5, <1>6, <1>9, <1>11

(* A frame that is lost is one more of the gap's, the host's or the        *)
(* device's; its samples are ahead of the host's losses until the timer    *)
(* has run out.                                                            *)
LEMMA TickAccount ==
  ASSUME Blaming, Blaming', Missing, Missing', TimerRuns, StreamMisses, tracker.valid,
         NEW polls \in BOOLEAN, Ticked(polls),
         NEW host \in Nat, NEW device \in Nat, NEW phase \in 0..1, GapAccount(host, device, phase)
  PROVE  \E h, d \in Nat : GapAccount(h, d, phase)'
<1>. DEFINE l == wire.timer.left
            x == wire.timer.expired
            w == wire.done
            o == OffPoll
            late == truth.late
            m == wire'.timer.left
            y == wire'.timer.expired
            z == wire'.done
            q == OffPoll'
            early == ~truth'.late
            byHost == IF OffPoll = 1 /\ ~polls THEN 1 ELSE 0
            byDevice == IF OffPoll = 1 /\ wire.done /\ polls THEN 1 ELSE 0
            skipped == tracker.skipped
            h == host + byHost
            d == device + byDevice
<1>1. /\ l \in 0..3 /\ x \in BOOLEAN /\ w \in BOOLEAN /\ late \in BOOLEAN /\ o \in 0..1
      /\ (x => l = 0) /\ (w => l =< 2 - o) /\ (l > 0 \/ x)
      /\ skipped \in Int
  BY DEF Blaming, Missing, TimerRuns
<1>2. y \in BOOLEAN /\ z \in BOOLEAN /\ truth'.late \in BOOLEAN
  BY DEF Blaming, Missing
<1>3. /\ m = IF l > 0 THEN l - 1 ELSE l
      /\ y <=> IF l > 0 THEN l = 1 ELSE x
      /\ (z <=> w \/ polls) /\ (polls => o = 1) /\ q = 1 - o
      /\ truth'.late <=> late \/ w \/ x
  BY DEF Ticked
<1>4. /\ tracker'.valid = tracker.valid /\ tracker'.missed = tracker.missed /\ tracker'.unprimed = tracker.unprimed
      /\ tracker'.latest = tracker.latest /\ tracker'.skipped = tracker.skipped
  BY DEF Ticked
<1>5. Phase' + o = Phase + Turned /\ Turned \in 0..1 /\ tracker'.behind = tracker.behind + Turned
  BY DEF Ticked
<1>6. truth'.device = truth.device + byDevice /\ truth'.host = truth.host + byHost
  BY DEF Ticked
<1>7. byHost \in 0..1 /\ byDevice \in 0..1 /\ (byHost = 1 <=> o = 1 /\ ~polls) /\ (byDevice = 1 <=> o = 1 /\ w /\ polls)
  OBVIOUS
<1>8. Halves = l + o /\ Halves' = m + q
  BY DEF Halves
<1>9. Polls = (IF l + o < 2 THEN 0 ELSE IF l + o < 4 THEN 1 ELSE 2)
  BY <1>8 DEF Polls
<1>10. Polls' = (IF m + q < 2 THEN 0 ELSE IF m + q < 4 THEN 1 ELSE 2)
  BY <1>8 DEF Polls
<1>11. TimerIsShort => TimerIsShort'
  BY TickTimer
<1>. DEFINE ps == Polls
            pt == Polls'
            hv == Halves
            ht == Halves'
(* What the account says of the gap before.                                *)
<1>12. /\ tracker.behind = host + device + (IF w THEN 1 ELSE 0) + Phase - phase
       /\ phase =< PollHalf /\ (phase = 0 => TimerIsShort)
       /\ phase = 1 /\ tracker.missed > 0 => tracker.latest.counted > 0
       /\ truth.device - device + phase =< tracker.unprimed + Uncounted
       /\ device > 0 => w /\ x /\ late
       /\ skipped =< host /\ (~w => skipped < host + ps)
       /\ ~late /\ ~w /\ hv \in {0, 2, 4} => host + ps =< skipped + 1 + phase
       /\ ~late /\ w => o = 0 /\ (x => host =< skipped + phase)
  BY DEF GapAccount
<1>13. /\ tracker.behind \in Int /\ Phase \in 0..1 /\ Phase' \in 0..1 /\ tracker.missed \in Int
       /\ truth.device \in Int /\ truth.host \in Int /\ tracker.unprimed \in Int
  BY DEF Missing, Blaming, Phase
<1>14. Uncounted = (truth.device + truth.host) + Phase + (IF w THEN 1 ELSE 0) - tracker.missed - tracker.behind
  BY DEF Uncounted, Lost
<1>15. Uncounted' = (truth'.device + truth'.host) + Phase' + (IF z THEN 1 ELSE 0) - tracker'.missed - tracker'.behind
  BY DEF Uncounted, Lost
<1>. DEFINE b == tracker.behind
            f == Phase
            g == Phase'
            t == Turned
            c == tracker.missed
            td == truth.device
            th == truth.host
            n == tracker.unprimed
            u == Uncounted
            v == Uncounted'
            b1 == tracker'.behind
            td1 == truth'.device
            late1 == truth'.late
            W == IF w THEN 1 ELSE 0
            Z == IF z THEN 1 ELSE 0
<1>16. W \in 0..1 /\ Z \in 0..1 /\ (W = 1 <=> w) /\ (Z = 1 <=> z)
  OBVIOUS
<1>17. b \in Int /\ f \in 0..1 /\ g \in 0..1 /\ t \in 0..1 /\ c \in Int /\ td \in Int /\ th \in Int /\ n \in Int
  BY <1>5, <1>13
<1>18. /\ b = host + device + W + f - phase /\ b1 = b + t /\ g + o = f + t
       /\ u = (td + th) + f + W - c - b
       /\ v = (td1 + (th + byHost)) + g + Z - c - b1 /\ td1 = td + byDevice
       /\ td - device + phase =< n + u
  BY <1>4, <1>5, <1>6, <1>12, <1>14, <1>15
<1>19. hv = l + o /\ ht = m + q
  BY <1>8
<1>20. /\ ps = (IF l + o < 2 THEN 0 ELSE IF l + o < 4 THEN 1 ELSE 2)
       /\ pt = (IF m + q < 2 THEN 0 ELSE IF m + q < 4 THEN 1 ELSE 2)
  BY <1>9, <1>10
<1>21. /\ device > 0 => w /\ x /\ late
       /\ skipped =< host /\ (~w => skipped < host + ps)
       /\ ~late /\ ~w /\ hv \in {0, 2, 4} => host + ps =< skipped + 1 + phase
       /\ ~late /\ w => o = 0 /\ (x => host =< skipped + phase)
  BY <1>12
<1>22. late1 \in BOOLEAN /\ (late1 <=> late \/ w \/ x)
  BY <1>2, <1>3
<1>. HIDE DEF l, x, w, o, late, m, y, z, q, byHost, byDevice, skipped, ps, pt, hv, ht,
              b, f, g, t, c, td, th, n, u, v, b1, td1, late1, W, Z
<1>23. h \in Nat /\ d \in Nat
  BY <1>7
<1>24. b1 = h + d + Z + g - phase
  BY <1>1, <1>3, <1>7, <1>16, <1>17, <1>18
<1>25. td1 - d + phase =< n + v
  BY <1>7, <1>16, <1>17, <1>18, <1>24
<1>26. d > 0 => z /\ y /\ late1
  BY <1>1, <1>3, <1>7, <1>21, <1>22
<1>27. skipped =< h
  BY <1>1, <1>7, <1>21
<1>28. ~z => skipped < h + pt
  BY <1>1, <1>3, <1>7, <1>20, <1>21
<1>29. ~late1 /\ ~z /\ ht \in {0, 2, 4} => h + pt =< skipped + 1 + phase
  <2>1. SUFFICES ASSUME ~late1, ~z, m + q \in {0, 2, 4} PROVE h + pt =< skipped + 1 + phase
    BY <1>19
  <2>2. ~late /\ ~w /\ ~x /\ ~polls /\ l > 0 /\ m = l - 1
    BY <1>1, <1>3, <1>22, <2>1
  <2>3. hv \in {0, 2, 4} /\ byHost + pt = ps
    <3>1. CASE o = 0
      BY <1>1, <1>3, <1>7, <1>19, <1>20, <2>1, <2>2, <3>1
    <3>2. CASE o = 1
      BY <1>1, <1>3, <1>7, <1>19, <1>20, <2>1, <2>2, <3>2
    <3>3. QED
      BY <1>1, <3>1, <3>2
  <2>4. ps \in Int /\ pt \in Int
    BY <1>20
  <2>5. QED
    BY <1>1, <1>7, <1>21, <2>2, <2>3, <2>4
<1>30. ~late1 /\ z => q = 0 /\ (y => h =< skipped + phase)
  <2>1. SUFFICES ASSUME ~late1, z PROVE q = 0 /\ (y => h =< skipped + phase)
    OBVIOUS
  <2>2. ~late /\ ~w /\ ~x /\ polls /\ o = 1 /\ l > 0 /\ byHost = 0
    BY <1>1, <1>3, <1>7, <1>22, <2>1
  <2>3. y => hv = 2 /\ ps = 1
    BY <1>1, <1>3, <1>19, <1>20, <2>2
  <2>4. QED
    BY <1>1, <1>3, <1>21, <2>2, <2>3
<1>31. /\ tracker'.behind = h + d + (IF wire'.done THEN 1 ELSE 0) + Phase' - phase
       /\ truth'.device - d + phase =< tracker'.unprimed + Uncounted'
  BY <1>4, <1>24, <1>25 DEF b1, Z, z, g, td1, n, v
<1>32. phase =< PollHalf /\ (phase = 0 => TimerIsShort')
  BY <1>11, <1>12
<1>33. phase = 1 /\ tracker'.missed > 0 => tracker'.latest.counted > 0
  BY <1>4, <1>12
<1>34. d > 0 => wire'.done /\ wire'.timer.expired /\ truth'.late
  BY <1>26 DEF z, y, late1
<1>35. tracker'.skipped =< h /\ (~wire'.done => tracker'.skipped < h + Polls')
  BY <1>4, <1>27, <1>28 DEF skipped, z, pt
<1>36. ~truth'.late /\ ~wire'.done /\ Halves' \in {0, 2, 4} => h + Polls' =< tracker'.skipped + 1 + phase
  BY <1>4, <1>29 DEF late1, z, ht, pt, skipped
<1>37. ~truth'.late /\ wire'.done => OffPoll' = 0 /\ (wire'.timer.expired => h =< tracker'.skipped + phase)
  BY <1>4, <1>30 DEF late1, z, q, y, skipped
<1>. HIDE DEF h, d
<1>38. PICK j \in Nat, k \in Nat : j = h /\ k = d
  BY <1>23
<1>39. GapAccount(j, k, phase)'
  BY <1>31, <1>32, <1>33, <1>34, <1>35, <1>36, <1>37, <1>38 DEF GapAccount
<1>40. QED
  BY <1>39

(* The losses of an account are no more than the frames elapsed and the    *)
(* one under way.                                                          *)
AccountFits ==
  Missing /\ tracker.valid => \A host, device \in Nat, phase \in 0..1 : GapAccount(host, device, phase) => GapAccounted

LEMMA AccountIsGap == AccountFits
<1>1. SUFFICES ASSUME Missing, tracker.valid, NEW host \in Nat, NEW device \in Nat, NEW phase \in 0..1,
                      GapAccount(host, device, phase)
               PROVE  GapAccounted
  BY DEF AccountFits
<1>. DEFINE b == tracker.behind
            f == Phase
            w == IF wire.done THEN 1 ELSE 0
<1>2. b \in Int /\ f \in 0..1 /\ w \in 0..1
  BY <1>1 DEF Missing, Phase
<1>3. b = host + device + w + f - phase
  BY <1>1 DEF GapAccount
<1>. HIDE DEF b, f, w
<1>4. host \in 0..b + 1 /\ device \in 0..b + 1
  BY <1>1, <1>2, <1>3
<1>5. \E h, d \in 0..b + 1, p \in 0..1 : GapAccount(h, d, p)
  BY <1>1, <1>4
<1>6. QED
  BY <1>1, <1>5 DEF GapAccounted, b

LEMMA AccountIsGapNext == AccountFits'
BY AccountIsGap, PTL

LEMMA TickBlame ==
  ASSUME UacInv, UacInv', MissInv, BlameInv, NEW polls \in BOOLEAN, Tick(polls)
  PROVE  BlameInv'
<1>1. Missing /\ Blaming /\ StreamMisses /\ Missing' /\ Blaming'
  BY MissTypes, BlameTypes, MissTypesNext, BlameTypesNext DEF UacInv, MissInv
<1>2. Ticked(polls)
  BY TickFacts
<1>3. TimerRuns' /\ (TimerIsShort => TimerIsShort')
  BY <1>1, <1>2, TickTimer DEF BlameInv
<1>4. /\ tracker'.valid = tracker.valid /\ tracker'.missed = tracker.missed /\ tracker'.unprimed = tracker.unprimed
      /\ tracker'.latest = tracker.latest /\ tracker'.skipped = tracker.skipped /\ tracker'.sampled = tracker.sampled
      /\ play' = play
  BY <1>2 DEF Ticked
<1>5. PartsFit'
  BY <1>4 DEF BlameInv, PartsFit, Parts
<1>6. GapAccounted'
  <2>1. CASE tracker.valid
    <3>1. PICK host \in 0..tracker.behind + 1, device \in 0..tracker.behind + 1, phase \in 0..1 : GapAccount(host, device, phase)
      BY <2>1 DEF BlameInv, GapAccounted
    <3>2. host \in Nat /\ device \in Nat
      BY <1>1 DEF Missing
    <3>3. PICK h \in Nat, d \in Nat : GapAccount(h, d, phase)'
      BY <1>1, <1>2, <2>1, <3>1, <3>2, TickAccount DEF BlameInv
    <3>4. QED
      BY <1>1, <1>4, <2>1, <3>3, AccountIsGapNext DEF AccountFits
  <2>2. CASE ~tracker.valid
    BY <1>4, <2>2 DEF BlameInv, GapAccounted
  <2>3. QED
    BY <2>1, <2>2
<1>7. QED
  BY <1>3, <1>5, <1>6 DEF BlameInv

(* The watchdog runs out with nothing held off: one more of the host's     *)
(* losses has its sample, and the next poll is a whole timer away.         *)
LEMMA SampleBlame == ASSUME UacInv, UacInv', MissInv, BlameInv, Sample PROVE BlameInv'
<1>. DEFINE l == wire.timer.left
            o == OffPoll
            skipped == tracker.skipped
            more == IF tracker.valid THEN skipped + 1 ELSE skipped
            timer == RunTimer(ShortLoad)
<1>1. Missing /\ Blaming /\ StreamMisses /\ Missing'
  BY MissTypes, BlameTypes, MissTypesNext DEF UacInv, MissInv
<1>2. tracker \in TrackerType /\ wire \in WireType
  BY DEF UacInv, UacTypes
<1>3. /\ wire.timer.expired /\ ~wire.done /\ tracker' = Sampled(tracker)
      /\ wire' = [wire EXCEPT !.timer = RunTimer(ShortLoad)]
      /\ stream' = stream /\ play' = play /\ truth' = truth
  BY DEF Sample, Primed
<1>4. wire'.timer = timer /\ wire'.done = wire.done /\ wire'.half = wire.half
  BY <1>2, <1>3 DEF WireType
<1>5. timer.left = 2 /\ ~timer.expired
  BY DEF RunTimer, ShortLoad
<1>6. skipped \in Int /\ more \in Int /\ o \in 0..1 /\ l = 0 /\ skipped >= 0
  BY <1>1, <1>3 DEF Blaming, BlameInv, TimerRuns, PartsFit
<1>7. tracker' = [tracker EXCEPT !.skipped = more]
  <2>1. CASE tracker.valid
    <3>1. stream.state = "streaming"
      BY <1>1, <2>1 DEF StreamMisses
    <3>2. \A n : n = tracker.skipped + 1 => [tracker EXCEPT !.skipped = @ + 1] = [tracker EXCEPT !.skipped = n]
      BY <1>2 DEF TrackerType
    <3>3. QED
      BY <1>3, <2>1, <3>1, <3>2 DEF Sampled, Primed
  <2>2. CASE ~tracker.valid
    <3>1. stream.state # "streaming"
      BY <1>1, <2>2 DEF StreamMisses
    <3>2. tracker = [tracker EXCEPT !.skipped = tracker.skipped]
      BY <1>2 DEF TrackerType
    <3>3. QED
      BY <1>3, <2>2, <3>1, <3>2 DEF Sampled
  <2>3. QED
    BY <2>1, <2>2
<1>. HIDE DEF more, timer
<1>8. /\ tracker'.valid = tracker.valid /\ tracker'.missed = tracker.missed /\ tracker'.unprimed = tracker.unprimed
      /\ tracker'.latest = tracker.latest /\ tracker'.behind = tracker.behind /\ tracker'.sampled = tracker.sampled
      /\ tracker'.skipped = more
  BY <1>2, <1>7 DEF TrackerType
<1>9. OffPoll' = o /\ Phase' = Phase /\ Lost' = Lost
  BY <1>3, <1>4 DEF OffPoll, Phase, Lost
<1>10. Uncounted' = Uncounted
  BY <1>4, <1>8, <1>9 DEF Uncounted
<1>11. wire'.timer.left = 2 /\ ~wire'.timer.expired /\ ~wire'.done
  BY <1>3, <1>4, <1>5
<1>12. Halves = 0 + o /\ Halves' = 2 + o
  BY <1>6, <1>9, <1>11 DEF Halves
<1>. HIDE DEF l, o, skipped
<1>13. Polls = 0 /\ Polls' = 1 /\ (Halves' \in {0, 2, 4} => Halves \in {0, 2, 4})
  BY <1>6, <1>12 DEF Polls
<1>14. TimerRuns'
  <2>1. wire'.timer.left \in 0..3 /\ wire'.timer.left > 0
    BY <1>11
  <2>2. QED
    BY <1>11, <2>1 DEF TimerRuns
<1>15. TimerIsShort'
  <2>1. 2 =< 3 - o
    BY <1>6
  <2>2. (IF wire'.done THEN 1 ELSE 3) = 3
    BY <1>11
  <2>3. QED
    BY <1>9, <1>11, <2>1, <2>2 DEF TimerIsShort
<1>16. PartsFit'
  <2>1. more >= 0
    BY <1>6 DEF more
  <2>2. QED
    BY <1>3, <1>8, <2>1 DEF BlameInv, PartsFit, Parts
<1>17. GapAccounted'
  <2>1. CASE tracker.valid
    <3>1. PICK host \in 0..tracker.behind + 1, device \in 0..tracker.behind + 1, phase \in 0..1 : GapAccount(host, device, phase)
      BY <2>1 DEF BlameInv, GapAccounted
    <3>2. host \in Nat /\ device \in Nat /\ phase \in 0..1
      BY <1>1 DEF Missing
    <3>3. device = 0 /\ skipped < host + 0 /\ (~truth.late /\ Halves \in {0, 2, 4} => host + 0 =< skipped + 1 + phase)
      BY <1>3, <1>13, <3>1, <3>2 DEF GapAccount, skipped
    <3>4. more = skipped + 1
      BY <2>1 DEF more
    <3>5. more =< host /\ more < host + 1 /\ (~truth.late /\ Halves \in {0, 2, 4} => host + 1 =< more + 1 + phase)
      BY <1>6, <3>2, <3>3, <3>4
    <3>6. tracker'.behind = host + device + (IF wire'.done THEN 1 ELSE 0) + Phase' - phase
      BY <1>3, <1>4, <1>8, <1>9, <3>1 DEF GapAccount
    <3>7. phase =< PollHalf /\ (phase = 1 /\ tracker'.missed > 0 => tracker'.latest.counted > 0)
      BY <1>8, <3>1 DEF GapAccount
    <3>8. truth'.device - device + phase =< tracker'.unprimed + Uncounted'
      BY <1>3, <1>8, <1>10, <3>1 DEF GapAccount
    <3>9. device > 0 => wire'.done /\ wire'.timer.expired /\ truth'.late
      BY <3>3
    <3>10. GapAccount(host, device, phase)'
      BY <1>3, <1>8, <1>11, <1>13, <1>15, <3>5, <3>6, <3>7, <3>8, <3>9 DEF GapAccount
    <3>11. QED
      BY <1>1, <1>8, <2>1, <3>2, <3>10, AccountIsGapNext DEF AccountFits
  <2>2. CASE ~tracker.valid
    BY <1>8, <2>2 DEF BlameInv, GapAccounted, more, skipped
  <2>3. QED
    BY <2>1, <2>2
<1>18. QED
  BY <1>14, <1>15, <1>16, <1>17 DEF BlameInv

(* At a completion the timer starts again, short where the packet waited   *)
(* until it had run out.                                                   *)
LEMMA TimerRestarts ==
  ASSUME Missing, Blaming, Blaming', BlameInv, NEW skew \in {-1, 1}, Completes(skew)
  PROVE  /\ TimerRuns' /\ (Phase = 0 => TimerIsShort') /\ (PollHalf = 0 => TimerIsShort')
         /\ OffPoll' = OffPoll /\ Phase' = Phase /\ Phase \in 0..1 /\ Phase =< PollHalf
         /\ wire'.timer.left \in 2..3 /\ (Phase = 1 => OffPoll = 1)
<1>. DEFINE l == wire.timer.left
            o == OffPoll
            n == wire'.timer.left
<1>1. l \in 0..3 /\ o \in 0..1 /\ PollHalf \in 0..1 /\ wire.half \in 0..1
  BY DEF Blaming, Missing, BlameInv, TimerRuns
<1>2. wire.done /\ ~wire'.done /\ wire'.half = wire.half /\ wire'.timer = RunTimer(Load(wire.timer))
  BY DEF Completes
<1>3. n = (IF l = 0 THEN 2 ELSE 3) /\ ~wire'.timer.expired
  BY <1>2 DEF RunTimer, Load, ShortLoad, LongLoad
<1>4. OffPoll' = o /\ Phase' = Phase
  BY <1>2 DEF OffPoll, Phase
<1>5. Phase \in 0..1 /\ Phase =< PollHalf /\ (Phase = 1 => o = 1) /\ (Phase = 0 => o = 0 \/ PollHalf = 0)
  BY <1>1 DEF Phase, OffPoll
<1>6. PollHalf = 0 => l =< 1 - o
  BY <1>2 DEF BlameInv, TimerIsShort
<1>. HIDE DEF l, o, n
<1>7. n \in 2..3 /\ (o = 0 \/ PollHalf = 0 => n =< 3 - o)
  BY <1>1, <1>3, <1>6
<1>8. TimerIsShort' <=> n =< 3 - o
  BY <1>2, <1>4 DEF TimerIsShort, n
<1>9. TimerRuns'
  <2>1. n \in 0..3 /\ n > 0
    BY <1>7
  <2>2. QED
    BY <1>2, <1>3, <2>1 DEF TimerRuns, n
<1>10. QED
  BY <1>4, <1>5, <1>7, <1>8, <1>9 DEF o, n

(* The gap that begins at a completion, before any of it has elapsed.      *)
LEMMA GapBegins ==
  ASSUME Missing, Blaming, Blaming', Missing', BlameInv, NEW skew \in {-1, 1}, Completes(skew),
         tracker'.valid, tracker'.behind = 0, tracker'.skipped = 0,
         Phase = 1 /\ tracker'.missed > 0 => tracker'.latest.counted > 0,
         truth.device + Phase =< tracker'.unprimed + Uncounted'
  PROVE  GapAccounted' /\ TimerRuns' /\ (PollHalf = 0 => TimerIsShort')
<1>1. /\ TimerRuns' /\ (Phase = 0 => TimerIsShort') /\ (PollHalf = 0 => TimerIsShort')
      /\ OffPoll' = OffPoll /\ Phase' = Phase /\ Phase \in 0..1 /\ Phase =< PollHalf
      /\ wire'.timer.left \in 2..3 /\ (Phase = 1 => OffPoll = 1)
  BY TimerRestarts
<1>2. ~wire'.done /\ truth'.late = FALSE /\ truth'.device = truth.device
  BY DEF Completes
<1>3. PICK f \in 0..1 : f = Phase
  BY <1>1
<1>. DEFINE n == wire'.timer.left
            o == OffPoll
            polls == Polls'
<1>4. n \in 2..3 /\ o \in 0..1
  BY <1>1 DEF Blaming
<1>5. Halves' = n + o
  BY <1>1 DEF Halves
<1>6. polls = IF n + o < 2 THEN 0 ELSE IF n + o < 4 THEN 1 ELSE 2
  BY <1>5 DEF Polls
<1>7. f = 0 => n =< 3 - o
  BY <1>1, <1>2, <1>3 DEF TimerIsShort
<1>8. truth'.device - 0 + f =< tracker'.unprimed + Uncounted'
  <2>1. truth.device - 0 = truth.device
    BY DEF Missing
  <2>2. QED
    BY <1>2, <1>3, <2>1
<1>. HIDE DEF n, o, polls
<1>9. polls \in Int /\ 0 < 0 + polls /\ 0 + polls =< 0 + 1 + f
  BY <1>3, <1>4, <1>6, <1>7
<1>10. tracker'.behind = 0 + 0 + (IF wire'.done THEN 1 ELSE 0) + Phase' - f
  BY <1>1, <1>2, <1>3
<1>11. GapAccount(0, 0, f)'
  <2>1. f =< PollHalf /\ (f = 0 => TimerIsShort') /\ (f = 1 /\ tracker'.missed > 0 => tracker'.latest.counted > 0)
    BY <1>1, <1>3
  <2>2. tracker'.skipped =< 0
    OBVIOUS
  <2>3. tracker'.skipped < 0 + Polls' /\ 0 + Polls' =< tracker'.skipped + 1 + f
    BY <1>9 DEF polls
  <2>4. ~(0 > 0)
    OBVIOUS
  <2>5. QED
    BY <1>2, <1>8, <1>10, <2>1, <2>2, <2>3, <2>4 DEF GapAccount
<1>12. GapAccounted'
  BY <1>3, <1>11, AccountIsGapNext DEF AccountFits
<1>13. QED
  BY <1>1, <1>12

(* A completion that waited past the timer is a sample of a packet held    *)
(* off, and of nothing else.                                               *)
LEMMA WatchedFacts ==
  ASSUME UacInv, StreamMisses, PartsFit, wire.done
  PROVE  /\ Watched \in TrackerType /\ NewGap(Watched) \in TrackerType
         /\ Watched.valid = tracker.valid /\ Watched.missed = tracker.missed /\ Watched.unprimed = tracker.unprimed
         /\ Watched.latest = tracker.latest /\ Watched.skipped = tracker.skipped /\ Watched.behind = tracker.behind
         /\ (Watched.sampled <=> wire.timer.expired /\ tracker.valid)
         /\ NewGap(Watched).missed = tracker.missed /\ NewGap(Watched).unprimed = tracker.unprimed
         /\ NewGap(Watched).latest = tracker.latest
         /\ NewGap(Watched).skipped = 0 /\ NewGap(Watched).sampled = FALSE
         /\ (~tracker.valid => Watched = tracker)
<1>1. tracker \in TrackerType /\ ~tracker.sampled /\ (tracker.valid <=> stream.state = "streaming")
  BY DEF UacInv, UacTypes, PartsFit, StreamMisses
<1>. DEFINE w == [tracker EXCEPT !.sampled = TRUE]
            t == Watched
            g == NewGap(t)
<1>2. t = IF wire.timer.expired /\ tracker.valid THEN w ELSE tracker
  BY <1>1 DEF Watched, Sampled, Primed
<1>3. /\ w \in TrackerType /\ w.valid = tracker.valid /\ w.missed = tracker.missed /\ w.unprimed = tracker.unprimed
      /\ w.latest = tracker.latest /\ w.skipped = tracker.skipped /\ w.behind = tracker.behind /\ w.sampled = TRUE
  BY <1>1 DEF TrackerType
<1>. HIDE DEF w, t
<1>4. /\ t \in TrackerType /\ t.valid = tracker.valid /\ t.missed = tracker.missed /\ t.unprimed = tracker.unprimed
      /\ t.latest = tracker.latest /\ t.skipped = tracker.skipped /\ t.behind = tracker.behind
      /\ (t.sampled <=> wire.timer.expired /\ tracker.valid)
      /\ (~tracker.valid => t = tracker)
  <2>1. CASE wire.timer.expired /\ tracker.valid
    BY <1>2, <1>3, <2>1
  <2>2. CASE ~(wire.timer.expired /\ tracker.valid)
    BY <1>1, <1>2, <2>2
  <2>3. QED
    BY <2>1, <2>2
<1>5. g = [t EXCEPT !.behind = 0, !.skipped = 0, !.sampled = FALSE]
  BY DEF NewGap
<1>. HIDE DEF g
<1>6. /\ g \in TrackerType /\ g.missed = t.missed /\ g.unprimed = t.unprimed /\ g.latest = t.latest
      /\ g.skipped = 0 /\ g.sampled = FALSE
  <2>1. g \in TrackerType
    BY <1>4, TrackerStarts DEF g
  <2>2. g.missed = t.missed /\ g.unprimed = t.unprimed /\ g.latest = t.latest
    BY <1>4, <1>5 DEF TrackerType
  <2>3. g.skipped = 0 /\ g.sampled = FALSE
    BY <1>4, <1>5 DEF TrackerType
  <2>4. QED
    BY <2>1, <2>2, <2>3
<1>7. QED
  BY <1>4, <1>6 DEF g, t

(* The gap a completion counts: what of it is the device's is no less than *)
(* the device's losses in it, and nothing where nothing was held off.      *)
FairlyShared ==
  /\ tracker'.valid /\ tracker'.behind = 0 /\ tracker'.skipped = 0 /\ ~tracker'.sampled
  /\ Parts(tracker')
  /\ Phase = 1 /\ tracker'.missed > 0 => tracker'.latest.counted > 0
  /\ truth.device + Phase =< tracker'.unprimed + Uncounted'
  /\ ~truth.late => tracker'.unprimed =< tracker.unprimed

LEMMA GapIsShared ==
  ASSUME UacInv, UacInv', MissInv, BlameInv, NEW skew \in {-1, 1}, Completes(skew), tracker.valid
  PROVE  FairlyShared
<1>. DEFINE e == tracker.behind
            t == NewGap(Watched)
            k == tracker.skipped
            s == Watched.sampled
<1>1. Missing /\ Blaming /\ StreamMisses /\ Missing' /\ Blaming'
  BY MissTypes, BlameTypes, MissTypesNext, BlameTypesNext DEF UacInv, MissInv
<1>2. /\ wire.done /\ ~wire'.done /\ stream.state = "streaming" /\ Measured(Watched, play, tracker', play', skew)
      /\ truth'.device = truth.device /\ truth'.host = truth.host
  BY <1>1 DEF Completes, StreamMisses
<1>3. PartsFit /\ TimerRuns
  BY DEF BlameInv
<1>4. /\ Watched \in TrackerType /\ t \in TrackerType /\ Watched.valid = tracker.valid /\ Watched.missed = tracker.missed
      /\ Watched.skipped = k /\ Watched.behind = e /\ (s <=> wire.timer.expired)
      /\ t.missed = tracker.missed /\ t.unprimed = tracker.unprimed /\ t.latest = tracker.latest
      /\ t.skipped = 0 /\ t.sampled = FALSE
  BY <1>1, <1>2, <1>3, WatchedFacts
<1>5. /\ e \in Nat /\ k \in Nat /\ s \in BOOLEAN /\ tracker.missed \in Nat /\ tracker.unprimed \in Int
  BY <1>1, <1>3, <1>4 DEF Missing, Blaming, StreamMisses, PartsFit, TrackerType
<1>6. Gap(Watched, skew) = e
  BY <1>4, <1>5, GapIsExact DEF Gap
<1>7. /\ tracker'.valid /\ tracker'.behind = 0 /\ tracker'.missed = MissedAfterGap(tracker.missed, e)
      /\ tracker' = CountMissed(t, e, k, s)
  BY <1>2, <1>4, <1>6 DEF Measured
<1>. HIDE DEF e, t, k, s
<1>8. PICK host \in 0..tracker.behind + 1, device \in 0..tracker.behind + 1, phase \in 0..1 : GapAccount(host, device, phase)
  BY DEF BlameInv, GapAccounted
<1>9. host \in Nat /\ device \in Nat /\ phase \in 0..1
  BY <1>5 DEF e
<1>10. /\ e = host + device + 1 + Phase - phase
       /\ (phase = 0 => TimerIsShort)
       /\ phase = 1 /\ tracker.missed > 0 => tracker.latest.counted > 0
       /\ truth.device - device + phase =< tracker.unprimed + Uncounted
       /\ device > 0 => s /\ truth.late
       /\ k =< host
       /\ ~truth.late => OffPoll = 0 /\ (s => host =< k + phase)
  BY <1>2, <1>4, <1>8 DEF GapAccount, e, k
<1>11. Phase \in 0..1 /\ (Phase = 1 => OffPoll = 1) /\ PollHalf \in 0..1
  BY <1>1 DEF Phase, OffPoll, Missing
(* Where the gap began in the half of the poll, its completion has waited  *)
(* past the timer if it is handled in the other half.                      *)
<1>12. Phase = 1 /\ phase = 0 => s
  <2>. DEFINE l == wire.timer.left
  <2>1. l \in 0..3 /\ (l > 0 \/ wire.timer.expired)
    BY <1>3 DEF TimerRuns
  <2>2. TimerIsShort <=> l =< 1 - OffPoll
    BY <1>2 DEF TimerIsShort
  <2>. HIDE DEF l
  <2>3. QED
    BY <1>4, <1>10, <1>11, <2>1, <2>2
<1>13. Parts(t) /\ t.missed >= 0
  BY <1>3, <1>4, <1>5 DEF PartsFit, Parts
<1>. DEFINE f == Phase
            m == tracker.missed
            n == tracker.unprimed
            u == tracker'.unprimed
            v == tracker'.missed
            td == truth.device
            th == truth.host
            x == Uncounted
            y == Uncounted'
<1>14. f \in 0..1 /\ m \in Nat /\ n \in Int /\ td \in Nat /\ th \in Nat
  BY <1>1, <1>5, <1>11 DEF Missing
<1>15. e = 0 => phase = 1 /\ f = 0 /\ device = 0 /\ host = 0
  <2>1. f \in 0..1 /\ e = host + device + 1 + f - phase
    BY <1>10, <1>14
  <2>. HIDE DEF f
  <2>2. QED
    BY <1>9, <2>1
<1>16. e = 0 /\ t.missed > 0 => t.latest.counted > 0
  BY <1>4, <1>10, <1>15
<1>17. Counts(t, tracker', e, k, s)
  BY <1>4, <1>5, <1>7, <1>13, <1>16, CountParts
<1>18. /\ Parts(tracker') /\ tracker'.skipped = 0 /\ ~tracker'.sampled /\ u \in Int
       /\ u >= n - 1
       /\ e = 0 => u =< n /\ (m = 0 => u = n)
       /\ e > 0 /\ k =< e - 1 => u = n + UnprimedPart(e - 1, k, s)
       /\ e > 0 /\ (k >= e - 1 \/ ~s) => u =< n
       /\ e > 1 \/ (e = 1 /\ tracker.latest.counted > 0) => tracker'.latest.counted > 0
  <2>1. Parts(tracker') /\ tracker'.skipped = 0 /\ ~tracker'.sampled /\ u \in Int
    BY <1>4, <1>17 DEF Counts
  <2>2. /\ tracker'.unprimed >= t.unprimed - 1
        /\ e = 0 => tracker'.unprimed =< t.unprimed /\ (t.missed = 0 => tracker'.unprimed = t.unprimed)
        /\ e > 0 /\ k =< e - 1 => tracker'.unprimed = t.unprimed + UnprimedPart(e - 1, k, s)
        /\ e > 0 /\ (k >= e - 1 \/ ~s) => tracker'.unprimed =< t.unprimed
        /\ e > 1 \/ (e = 1 /\ t.latest.counted > 0) => tracker'.latest.counted > 0
    BY <1>17 DEF Counts
  <2>3. t.unprimed = n /\ t.missed = m /\ t.latest = tracker.latest
    BY <1>4
  <2>. HIDE DEF n, m
  <2>4. u >= n - 1
    BY <2>2, <2>3
  <2>5. e = 0 => u =< n /\ (m = 0 => u = n)
    BY <2>2, <2>3
  <2>6. e > 0 /\ k =< e - 1 => u = n + UnprimedPart(e - 1, k, s)
    BY <2>2, <2>3
  <2>7. e > 0 /\ (k >= e - 1 \/ ~s) => u =< n
    BY <2>2, <2>3
  <2>8. e > 1 \/ (e = 1 /\ tracker.latest.counted > 0) => tracker'.latest.counted > 0
    BY <2>2, <2>3
  <2>9. QED
    BY <2>1, <2>4, <2>5, <2>6, <2>7, <2>8
<1>19. v = IF m = 0 /\ e = 0 THEN 0 ELSE m + e - 1
  <2>1. m \in Nat /\ v = MissedAfterGap(m, e)
    BY <1>5, <1>7
  <2>. HIDE DEF m, v
  <2>2. MissedAfterGap(m, e) = IF m = 0 /\ e = 0 THEN 0 ELSE m + e - 1
    BY <1>5, <2>1, MissedFacts
  <2>3. QED
    BY <2>1, <2>2
<1>20. x = (td + th) + f + 1 - m - e
  BY <1>2 DEF Uncounted, Lost, e
<1>21. y = (td + th) + f + 0 - v - 0
  <2>1. Phase' = Phase
    BY DEF Completes, Phase
  <2>2. QED
    BY <1>2, <1>7, <2>1 DEF Uncounted, Lost
<1>22. e = host + device + 1 + f - phase /\ td - device + phase =< n + x
  BY <1>10
<1>23. /\ device > 0 => s /\ truth.late
       /\ f = 1 /\ phase = 0 => s
       /\ ~truth.late => f = 0 /\ (s => host =< k + phase)
  BY <1>10, <1>11, <1>12
<1>24. phase = 1 /\ m > 0 => tracker.latest.counted > 0
  BY <1>10
<1>. DEFINE part == UnprimedPart(e - 1, k, s)
<1>25. e > 0 => part = IF ~s \/ k >= e - 1 THEN 0 ELSE e - 1 - k
  <2>1. SUFFICES ASSUME e > 0 PROVE part = IF ~s \/ k >= e - 1 THEN 0 ELSE e - 1 - k
    OBVIOUS
  <2>2. e - 1 \in Nat
    BY <1>5, <2>1
  <2>3. QED
    BY <1>5, <2>2, UnprimedFacts
<1>26. k =< host
  BY <1>10
<1>. HIDE DEF f, m, n, u, v, td, th, x, y, part
<1>27. f = 1 /\ v > 0 => tracker'.latest.counted > 0
  <2>1. SUFFICES ASSUME f = 1, v > 0 PROVE tracker'.latest.counted > 0
    OBVIOUS
  <2>2. e >= 1 /\ (e = 1 => phase = 1 /\ v = m)
    BY <1>5, <1>9, <1>14, <1>19, <1>22, <2>1
  <2>3. QED
    BY <1>5, <1>18, <1>24, <2>1, <2>2
<1>28. td + f =< u + y
  <2>1. CASE e = 0
    BY <1>5, <1>9, <1>14, <1>15, <1>18, <1>19, <1>20, <1>21, <1>22, <2>1
  <2>2. CASE e > 0 /\ k =< e - 1
    <3>1. u = n + part /\ y = x
      BY <1>5, <1>14, <1>18, <1>19, <1>20, <1>21, <2>2 DEF part
    <3>2. part \in Int /\ (s => part = (e - 1) - k) /\ (~s => part = 0)
      BY <1>5, <1>25, <2>2
    <3>3. part >= device + f - phase
      BY <1>5, <1>9, <1>14, <1>22, <1>23, <1>26, <3>2
    <3>4. x \in Int
      BY <1>5, <1>14, <1>20
    <3>5. QED
      BY <1>9, <1>14, <1>22, <3>1, <3>2, <3>3, <3>4
  <2>3. CASE e > 0 /\ k > e - 1
    <3>1. device = 0 /\ f = 0 /\ phase = 1
      BY <1>5, <1>9, <1>14, <1>22, <1>26, <2>3
    <3>2. y = x /\ x \in Int
      BY <1>5, <1>14, <1>19, <1>20, <1>21, <2>3
    <3>3. QED
      BY <1>14, <1>18, <1>22, <3>1, <3>2
  <2>4. QED
    BY <1>5, <2>1, <2>2, <2>3
<1>29. ~truth.late => u =< n
  <2>1. SUFFICES ASSUME ~truth.late, e > 0 PROVE u =< n
    BY <1>5, <1>18
  <2>2. f = 0 /\ device = 0 /\ (s => host =< k + phase)
    BY <1>9, <1>23, <2>1
  <2>3. ~s \/ k >= e - 1
    BY <1>5, <1>9, <1>22, <2>2
  <2>4. QED
    BY <1>18, <2>1, <2>3
<1>30. QED
  BY <1>7, <1>18, <1>27, <1>28, <1>29 DEF FairlyShared, f, m, n, u, v, td, y

(* The play's part moves with the stream's and stays within its count.     *)
LEMMA PlayPart ==
  ASSUME UacInv, UacInv', MissInv, BlameInv, NEW skew \in {-1, 1}, Completes(skew)
  PROVE  /\ play'.unprimed \in 0..play'.missed
         /\ tracker.valid /\ ~truth.late => play'.unprimed =< play.unprimed
<1>1. Missing /\ Blaming /\ StreamMisses /\ PlayMisses /\ Missing' /\ Blaming'
  BY MissTypes, BlameTypes, MissTypesNext, BlameTypesNext DEF UacInv, MissInv
<1>2. play.unprimed \in 0..play.missed /\ play.missed \in Nat /\ PartsFit
  BY <1>1 DEF BlameInv, PartsFit, Missing, PlayMisses
<1>3. CASE play'.missed = play.missed /\ play'.unprimed = play.unprimed
  BY <1>2, <1>3
<1>4. wire.done
  BY DEF Completes
<1>5. /\ Watched.valid = tracker.valid /\ Watched.unprimed = tracker.unprimed /\ Watched.behind = tracker.behind
  BY <1>1, <1>2, <1>4, WatchedFacts
<1>6. CASE ~(play'.missed = play.missed /\ play'.unprimed = play.unprimed)
  <2>1. Measured(Watched, play, tracker', play', skew)
    BY <1>6 DEF Completes
  <2>2. tracker.valid
    BY <1>5, <1>6, <2>1 DEF Measured
  <2>3. Gap(Watched, skew) = tracker.behind /\ tracker.behind \in Nat
    BY <1>1, <1>5, GapIsExact DEF Gap, Missing, StreamMisses
  <2>. DEFINE missed == MissedAfterGap(play.missed, tracker.behind)
              before == tracker.unprimed
              after == tracker'.unprimed
              moved == MovedWith(play.unprimed, before, after)
  <2>4. play'.missed = missed /\ play'.unprimed = Lesser(moved, missed)
    BY <1>5, <1>6, <2>1, <2>2, <2>3 DEF Measured
  <2>5. missed \in Nat
    BY <1>2, <2>3, MissedFacts
  <2>6. before \in Int /\ after \in Int /\ (~truth.late => after =< before)
    BY <1>1, <2>2, GapIsShared DEF Blaming, FairlyShared
  <2>. DEFINE n == play.unprimed
  <2>7. n \in Nat
    BY <1>2
  <2>8. moved = IF after >= before THEN n + (after - before) ELSE n - Lesser(n, before - after)
    BY DEF MovedWith
  <2>9. Lesser(n, before - after) = IF n < before - after THEN n ELSE before - after
    BY DEF Lesser
  <2>10. Lesser(moved, missed) = IF moved < missed THEN moved ELSE missed
    BY DEF Lesser
  <2>. DEFINE less == Lesser(n, before - after)
              part == Lesser(moved, missed)
  <2>11. /\ moved = IF after >= before THEN n + (after - before) ELSE n - less
         /\ less = IF n < before - after THEN n ELSE before - after
         /\ part = IF moved < missed THEN moved ELSE missed
    BY <2>8, <2>9, <2>10
  <2>12. play'.unprimed = part
    BY <2>4
  <2>. HIDE DEF missed, before, after, moved, n, less, part
  <2>13. moved \in Nat /\ (after =< before => moved =< n)
    BY <2>6, <2>7, <2>11
  <2>14. part \in 0..missed /\ (~truth.late => part =< n)
    BY <2>5, <2>6, <2>7, <2>11, <2>13
  <2>15. QED
    BY <2>4, <2>12, <2>14 DEF n
<1>7. QED
  BY <1>3, <1>6

(* A completion ends the gap and begins the next.                          *)
LEMMA TxDoneBlame ==
  ASSUME UacInv, UacInv', MissInv, BlameInv, NEW skew \in {-1, 1}, Completes(skew)
  PROVE  BlameInv'
<1>1. Missing /\ Blaming /\ StreamMisses /\ Missing' /\ Blaming'
  BY MissTypes, BlameTypes, MissTypesNext, BlameTypesNext DEF UacInv, MissInv
<1>2. play'.unprimed \in 0..play'.missed
  BY PlayPart
<1>3. wire.done /\ ~wire'.done /\ truth'.device = truth.device /\ truth'.host = truth.host
  BY DEF Completes
<1>4. PartsFit
  BY DEF BlameInv
<1>5. CASE tracker.valid
  <2>1. FairlyShared
    BY <1>5, GapIsShared
  <2>2. GapAccounted' /\ TimerRuns' /\ (PollHalf = 0 => TimerIsShort')
    BY <1>1, <2>1, GapBegins DEF FairlyShared
  <2>3. tracker'.skipped >= 0
    BY <2>1 DEF FairlyShared
  <2>4. PartsFit'
    BY <1>2, <2>1, <2>3 DEF FairlyShared, PartsFit, Parts
  <2>5. QED
    BY <2>2, <2>4 DEF BlameInv
<1>6. CASE ~tracker.valid
  <2>1. Watched = tracker
    BY <1>1, <1>3, <1>4, <1>6, WatchedFacts
  <2>2. CASE tracker' = tracker
    <3>1. /\ TimerRuns' /\ (PollHalf = 0 => TimerIsShort')
      BY <1>1, TimerRestarts
    <3>2. PartsFit'
      BY <1>2, <1>4, <2>2 DEF PartsFit, Parts
    <3>3. GapAccounted'
      BY <1>6, <2>2 DEF BlameInv, GapAccounted
    <3>4. QED
      BY <3>1, <3>2, <3>3 DEF BlameInv
  <2>3. CASE tracker' # tracker
    <3>1. tracker' = [NoInterval EXCEPT !.valid = TRUE]
      BY <1>6, <2>1, <2>3 DEF Completes, Measured
    <3>2. /\ tracker'.valid = TRUE /\ tracker'.behind = 0 /\ tracker'.missed = 0 /\ tracker'.unprimed = 0 /\ tracker'.latest = NoGap
          /\ tracker'.skipped = 0 /\ tracker'.sampled = FALSE /\ NoGap.counted = 0 /\ NoGap.unprimed = 0
      BY <3>1 DEF NoInterval, NoGap
    <3>3. truth.device + Phase =< tracker'.unprimed + Uncounted'
      <4>. DEFINE u == Uncounted'
      <4>1. truth.device = 0 /\ truth.host = 0
        BY <1>1, <1>6 DEF StreamMisses, Lost, Missing
      <4>2. Phase' = Phase /\ Phase \in 0..1
        BY DEF Completes, Phase
      <4>3. u = (0 + 0) + Phase + 0 - 0 - 0
        BY <1>3, <3>2, <4>1, <4>2 DEF Uncounted, Lost
      <4>. HIDE DEF u
      <4>4. 0 + Phase =< 0 + u
        BY <4>2, <4>3
      <4>5. QED
        BY <3>2, <4>1, <4>4 DEF u
    <3>4. ~(Phase = 1 /\ tracker'.missed > 0)
      BY <3>2
    <3>5. GapAccounted' /\ TimerRuns' /\ (PollHalf = 0 => TimerIsShort')
      BY <1>1, <3>2, <3>3, <3>4, GapBegins
    <3>6. PartsFit'
      <4>1. Parts(tracker')
        BY <3>2 DEF Parts
      <4>2. Parts(tracker)'
        BY <4>1 DEF Parts
      <4>3. QED
        BY <1>2, <3>2, <4>2 DEF PartsFit
    <3>7. QED
      BY <3>5, <3>6 DEF BlameInv
  <2>4. QED
    BY <2>2, <2>3
<1>7. QED
  BY <1>5, <1>6

(* No call of the player's moves the stream's account: a new play's begins *)
(* with none, an armed or disarmed one keeps its own.                      *)
LEMMA RestartBlame ==
  ASSUME UacInv, BlameInv, NEW opens, NEW chunks, RestartPlay(opens, chunks)
  PROVE  BlameInv'
<1>. DEFINE id == truth.plays + 1
<1>1. truth \in TruthType
  BY DEF UacInv, UacTypes
<1>2. /\ play' = NewPlay(id, opens)
      /\ truth' = [truth EXCEPT !.plays = @ + 1, !.sent = 0, !.target = NoStart, !.astray = FALSE, !.doubt = FALSE]
      /\ wire' = wire /\ tracker' = tracker
  BY DEF RestartPlay, NewPlay
<1>3. truth'.device = truth.device /\ truth'.host = truth.host /\ truth'.late = truth.late
  BY <1>1, <1>2 DEF TruthType
<1>4. play'.missed = 0 /\ play'.unprimed = 0
  BY <1>2 DEF NewPlay, NoPlay
<1>5. play'.unprimed \in 0..play'.missed
  BY <1>4
<1>6. QED
  BY <1>2, <1>3, <1>5, BlameKept

LEMMA ArmBlame == ASSUME UacInv, BlameInv, NEW start, NEW opens, Arm(start, opens) PROVE BlameInv'
<1>. DEFINE ahead == start # NoStart /\ opens = stream.opens /\ ~IndexReached(stream.queued, start)
            begin == IF ahead THEN start ELSE NoStart
<1>1. play \in PlayType /\ truth \in TruthType
  BY DEF UacInv, UacTypes
<1>2. tracker' = tracker /\ wire' = wire
  BY DEF Arm
<1>3. \/ play' = [play EXCEPT !.interrupted = TRUE] /\ truth' = truth
      \/ play' = [play EXCEPT !.armed = TRUE, !.start = begin] /\ truth' = [truth EXCEPT !.target = begin]
  BY DEF Arm
<1>. HIDE DEF begin
<1>4. play'.missed = play.missed /\ play'.unprimed = play.unprimed
  BY <1>1, <1>3 DEF PlayType
<1>5. truth'.device = truth.device /\ truth'.host = truth.host /\ truth'.late = truth.late
  BY <1>1, <1>3 DEF TruthType
<1>6. play'.unprimed \in 0..play'.missed
  BY <1>4 DEF BlameInv, PartsFit
<1>7. QED
  BY <1>2, <1>5, <1>6, BlameKept

LEMMA DisarmBlame == ASSUME UacInv, BlameInv, Disarm PROVE BlameInv'
<1>1. play \in PlayType
  BY DEF UacInv, UacTypes
<1>2. tracker' = tracker /\ wire' = wire /\ truth' = truth /\ play' = [play EXCEPT !.armed = FALSE]
  BY DEF Disarm
<1>3. play'.missed = play.missed /\ play'.unprimed = play.unprimed
  BY <1>1, <1>2 DEF PlayType
<1>4. play'.unprimed \in 0..play'.missed
  BY <1>3 DEF BlameInv, PartsFit
<1>5. QED
  BY <1>2, <1>4, BlameKept

(* Nor has a stream that opens or closes lost a frame.                     *)
LEMMA BlameEnds ==
  ASSUME UacInv, BlameInv, tracker' = NoInterval, wire' = Unplugged, play' = EndPlay(play)
  PROVE  BlameInv'
<1>1. play \in PlayType
  BY DEF UacInv, UacTypes
<1>2. play'.missed = play.missed /\ play'.unprimed = play.unprimed
  BY <1>1, EndPlayFacts
<1>3. wire'.timer = NoTimer /\ ~wire'.done
  BY DEF Unplugged
<1>4. QED
  BY <1>2, <1>3, BlameCloses

LEMMA OpenBlame == ASSUME UacInv, BlameInv, Open PROVE BlameInv'
<1>1. Opens
  BY OpenStep
<1>2. QED
  BY <1>1, BlameCloses DEF Opens

LEMMA BlameStarts == Init => BlameInv
<1>1. SUFFICES ASSUME Init PROVE BlameInv
  OBVIOUS
<1>2. wire.timer.left = 0 /\ wire.timer.expired = FALSE /\ wire.done = FALSE
  BY <1>1 DEF Init, Unplugged, NoTimer
<1>3. /\ tracker.valid = FALSE /\ tracker.missed = 0 /\ tracker.unprimed = 0 /\ tracker.latest = NoGap
      /\ tracker.skipped = 0 /\ tracker.sampled = FALSE /\ NoGap.counted = 0 /\ NoGap.unprimed = 0
  BY <1>1 DEF Init, NoInterval, NoGap
<1>4. play.missed = 0 /\ play.unprimed = 0
  BY <1>1 DEF Init, NoPlay
<1>5. PartsFit
  <2>1. play.unprimed \in 0..play.missed
    BY <1>4
  <2>2. QED
    BY <1>3, <2>1 DEF PartsFit, Parts
<1>6. TimerRuns
  <2>1. wire.timer.left \in 0..3
    BY <1>2
  <2>2. QED
    BY <1>2, <1>3, <2>1 DEF TimerRuns
<1>7. TimerIsShort
  <2>1. OffPoll \in 0..1
    BY DEF OffPoll
  <2>2. \A o \in 0..1 : 0 =< 3 - o
    OBVIOUS
  <2>3. (IF wire.done THEN 1 ELSE 3) = 3
    BY <1>2
  <2>4. QED
    BY <1>2, <2>1, <2>2, <2>3 DEF TimerIsShort
<1>8. GapAccounted
  BY <1>3 DEF GapAccounted
<1>9. QED
  BY <1>5, <1>6, <1>7, <1>8 DEF BlameInv

LEMMA BlameStep == UacInv /\ UacInv' /\ MissInv /\ BlameInv /\ [Next]_vars => BlameInv'
<1>1. SUFFICES ASSUME UacInv, UacInv', MissInv, BlameInv, [Next]_vars PROVE BlameInv'
  OBVIOUS
<1>2. ASSUME NEW configured \in BOOLEAN, Configure(configured) PROVE BlameInv'
  BY <1>1, <1>2, BlameEnds DEF Configure
<1>3. CASE Open
  BY <1>1, <1>3, OpenBlame
<1>4. CASE Close
  BY <1>1, <1>4, BlameEnds DEF Close
<1>5. CASE AcceptPlay
  <2>1. RestartPlay(stream.opens, Unarmed)
    BY <1>5 DEF AcceptPlay
  <2>2. QED
    BY <1>1, <2>1, RestartBlame
<1>6. CASE ClearPlay
  <2>1. RestartPlay(play.opens, 0)
    BY <1>6 DEF ClearPlay
  <2>2. QED
    BY <1>1, <2>1, RestartBlame
<1>7. CASE Disarm
  BY <1>1, <1>7, DisarmBlame
<1>8. ASSUME NEW ahead \in 0..Ahead, NEW opens \in {stream.opens - 1, stream.opens},
             Arm(IF ahead = 0 THEN NoStart ELSE (stream.queued + ahead) % Wrap, opens)
      PROVE  BlameInv'
  <2>. DEFINE start == IF ahead = 0 THEN NoStart ELSE (stream.queued + ahead) % Wrap
  <2>1. Arm(start, opens)
    BY <1>8
  <2>. HIDE DEF start
  <2>2. QED
    BY <1>1, <2>1, ArmBlame
<1>9. CASE Sample
  BY <1>1, <1>9, SampleBlame
<1>10. ASSUME NEW error \in BOOLEAN, NEW skew \in {-1, 1}, TxDone(error, skew) PROVE BlameInv'
  <2>1. Completes(skew)
    BY <1>1, <1>10, TxDoneStep
  <2>2. QED
    BY <1>1, <2>1, TxDoneBlame
<1>11. ASSUME NEW polls \in BOOLEAN, Tick(polls) PROVE BlameInv'
  BY <1>1, <1>11, TickBlame
<1>12. CASE UNCHANGED vars
  <2>1. tracker' = tracker /\ play' = play /\ wire' = wire /\ truth' = truth
    BY <1>12 DEF vars
  <2>2. play'.unprimed \in 0..play'.missed
    BY <1>1, <2>1 DEF BlameInv, PartsFit
  <2>3. QED
    BY <1>1, <2>1, <2>2, BlameKept
<1>13. CASE PlayerCalls
  BY <1>5, <1>6, <1>7, <1>8, <1>13, Zenon DEF PlayerCalls
<1>14. CASE Interrupt
  BY <1>9, <1>10, <1>14, Zenon DEF Interrupt
<1>15. CASE Next
  BY <1>2, <1>3, <1>4, <1>11, <1>13, <1>14, <1>15, Zenon DEF Next
<1>16. QED
  BY <1>1, <1>12, <1>15

(* In every gap the samples of the watchdog keep up with the host's losses *)
(* where each interrupt is handled in its half of the frame, and the       *)
(* device's losses are in the part that is unprimed.                       *)
THEOREM BlameInvariant == Spec => []BlameInv
<1>1. UacInv /\ UacInv' /\ MissInv /\ BlameInv /\ [Next]_vars => BlameInv'
  BY BlameStep
<1>2. QED
  BY <1>1, BlameStarts, UacInvariant, MissInvariant, PTL DEF Spec

(* Of the missed intervals the device's part is never less than the frames *)
(* it lost, and grows only in a gap in which an interrupt was held off     *)
(* (unprimed_part(), locate_miss() and count_play_missed()).               *)
THEOREM TheBlameIsFair == Spec => BlameIsFair
<1>1. ASSUME UacInv, UacInv', MissInv, MissInv', BlameInv, BlameInv', [Next]_vars, Read
      PROVE  /\ truth.device =< tracker'.unprimed + Hidden
             /\ ~truth.late => tracker'.unprimed =< tracker.unprimed /\ (Current => play'.unprimed =< play.unprimed)
             /\ tracker'.unprimed =< tracker'.missed /\ play'.unprimed =< play'.missed
  <2>1. PICK skew \in {-1, 1} : Completes(skew)
    BY <1>1, OnlyTxDoneReads
  <2>2. Missing /\ Blaming /\ StreamMisses /\ Missing' /\ Blaming' /\ StreamMisses'
    BY <1>1, MissTypes, BlameTypes, MissTypesNext, BlameTypesNext DEF UacInv, MissInv
  <2>3. tracker.valid /\ tracker'.valid
    BY <1>1, <2>2 DEF Read, StreamMisses
  <2>4. FairlyShared
    BY <1>1, <2>1, <2>3, GapIsShared
  <2>5. Hidden' = Hidden /\ Hidden \in 0..1 /\ Phase \in 0..1
    BY <2>1, <2>3 DEF Completes, Hidden, Phase
  <2>6. truth.device =< tracker'.unprimed + Hidden
    <3>. DEFINE d == truth.device
                u == tracker'.unprimed
                v == Uncounted'
    <3>1. v \in 0..Hidden
      BY <2>2, <2>3, <2>5 DEF StreamMisses
    <3>2. d \in Nat /\ u \in Int /\ d + Phase =< u + v
      BY <2>2, <2>4 DEF Missing, Blaming, FairlyShared
    <3>. HIDE DEF d, u, v
    <3>3. d =< u + Hidden
      BY <2>5, <3>1, <3>2
    <3>4. QED
      BY <3>3 DEF d, u
  <2>7. play'.unprimed \in 0..play'.missed /\ (~truth.late => play'.unprimed =< play.unprimed)
    BY <1>1, <2>1, <2>3, PlayPart
  <2>8. tracker'.unprimed =< tracker'.missed
    <3>. DEFINE u == tracker'.unprimed
                m == tracker'.missed
                a == tracker'.latest.unprimed
                c == tracker'.latest.counted
    <3>1. a =< c /\ u - a =< m - c
      BY <2>4 DEF FairlyShared, Parts
    <3>2. u \in Int /\ m \in Int /\ a \in Int /\ c \in Int
      BY <2>2 DEF Missing, Blaming
    <3>. HIDE DEF u, m, a, c
    <3>3. u =< m
      BY <3>1, <3>2
    <3>4. QED
      BY <3>3 DEF u, m
  <2>9. play'.unprimed =< play'.missed
    BY <2>2, <2>7 DEF Missing
  <2>10. QED
    BY <2>4, <2>6, <2>7, <2>8, <2>9 DEF FairlyShared
<1>2. UacInv /\ UacInv' /\ MissInv /\ MissInv' /\ BlameInv /\ BlameInv' /\ [Next]_vars
      => [Read => /\ truth.device =< tracker'.unprimed + Hidden
                  /\ ~truth.late => tracker'.unprimed =< tracker.unprimed /\ (Current => play'.unprimed =< play.unprimed)
                  /\ tracker'.unprimed =< tracker'.missed /\ play'.unprimed =< play'.missed]_vars
  BY <1>1
<1>3. QED
  BY <1>2, UacInvariant, MissInvariant, BlameInvariant, PTL DEF Spec, BlameIsFair

==============================================================================
