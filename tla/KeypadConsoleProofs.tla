-------------------------- MODULE KeypadConsoleProofs --------------------------
(***************************************************************************)
(* What KeypadConsole does for every size of its rings, every set of keys  *)
(* and functions, and every sequence of keys a poll may report.            *)
(***************************************************************************)
EXTENDS KeypadConsole, SequenceTheorems, FiniteSetTheorems, WellFoundedInduction,
        TLAPS

-------------------------------------------------------------------------------
(* Sequences.  A claim about all numbers is proved by a smallest           *)
(* counterexample.                                                         *)

LEMMA Smallest ==
  ASSUME NEW T, T \subseteq Nat, T # {}
  PROVE  \E x \in T : \A y \in T : x <= y
<1>1. PICK x \in T : \A y \in T : <<y, x>> \notin OpToRel(<, Nat)
  BY NatLessThanWellFounded, WFMin
<1>2. \A y \in T : ~(y < x)
  BY <1>1 DEF OpToRel
<1> QED BY <1>2

\* What holds at 0, and at each number up to n when it holds at the one
\* before, holds up to n.  P is a set of numbers.
LEMMA UpTo ==
  ASSUME NEW n \in Nat, NEW P, 0 \in P,
         \A i \in 1 .. n : i - 1 \in P => i \in P
  PROVE  0 .. n \subseteq P
<1> DEFINE Bad == (0 .. n) \ P
<1>1. SUFFICES ASSUME Bad # {} PROVE FALSE
  OBVIOUS
<1>2. Bad \subseteq Nat
  OBVIOUS
<1>3. PICK m \in Bad : \A i \in Bad : m <= i
  BY <1>1, <1>2, Smallest
<1>4. m \in 1 .. n /\ m - 1 \in 0 .. n /\ ~(m <= m - 1)
  OBVIOUS
<1>5. m - 1 \in P
  BY <1>3, <1>4
<1> QED BY <1>4, <1>5

\* How often k is in sequence c.
Places(c, k) == {i \in 1 .. Len(c) : c[i] = k}
Count(c, k)  == Cardinality(Places(c, k))

LEMMA CountType ==
  ASSUME NEW T, NEW c \in Seq(T), NEW k
  PROVE  IsFiniteSet(Places(c, k)) /\ Count(c, k) \in Nat /\ Count(c, k) <= Len(c)
<1>1. IsFiniteSet(1 .. Len(c)) /\ Cardinality(1 .. Len(c)) = Len(c)
  <2>1. Len(c) \in Nat
    BY LenProperties
  <2> QED BY <2>1, FS_Interval
<1>2. Places(c, k) \subseteq 1 .. Len(c)
  BY DEF Places
<1>3. IsFiniteSet(Places(c, k)) /\ Cardinality(Places(c, k)) <= Cardinality(1 .. Len(c))
  BY <1>1, <1>2, FS_Subset
<1> QED BY <1>1, <1>3, FS_CardinalityType DEF Count

LEMMA CountAppend ==
  ASSUME NEW T, NEW c \in Seq(T), NEW j \in T, NEW k
  PROVE  Count(Append(c, j), k) = Count(c, k) + (IF j = k THEN 1 ELSE 0)
<1>1. /\ Append(c, j) \in Seq(T) /\ Len(Append(c, j)) = Len(c) + 1 /\ Len(c) \in Nat
      /\ \A i \in 1 .. Len(c) : Append(c, j)[i] = c[i]
      /\ Append(c, j)[Len(c) + 1] = j
  BY AppendProperties, LenProperties
<1>2. IsFiniteSet(Places(c, k)) /\ Count(c, k) \in Nat
  BY CountType
<1>3. CASE j = k
  <2>1. Places(Append(c, j), k) = Places(c, k) \cup {Len(c) + 1}
    BY <1>1, <1>3 DEF Places
  <2>2. Len(c) + 1 \notin Places(c, k)
    BY <1>1 DEF Places
  <2> QED BY <1>2, <1>3, <2>1, <2>2, FS_AddElement DEF Count
<1>4. CASE j # k
  <2>1. Places(Append(c, j), k) = Places(c, k)
    BY <1>1, <1>4 DEF Places
  <2> QED BY <1>2, <1>4, <2>1 DEF Count
<1> QED BY <1>3, <1>4

LEMMA CountTail ==
  ASSUME NEW T, NEW c \in Seq(T), c # << >>, NEW k
  PROVE  Count(c, k) = Count(Tail(c), k) + (IF Head(c) = k THEN 1 ELSE 0)
<1>1. /\ Tail(c) \in Seq(T) /\ Len(Tail(c)) = Len(c) - 1 /\ Len(c) \in Nat /\ Len(c) # 0
      /\ \A i \in 1 .. Len(c) - 1 : Tail(c)[i] = c[i + 1]
      /\ Head(c) = c[1]
  BY HeadTailProperties, EmptySeq, LenProperties
<1> DEFINE Later == {i \in 2 .. Len(c) : c[i] = k}
           f == [i \in Places(Tail(c), k) |-> i + 1]
<1>2. f \in Bijection(Places(Tail(c), k), Later)
  <2>1. f \in [Places(Tail(c), k) -> Later]
    BY <1>1 DEF Places
  <2>2. \A a, b \in Places(Tail(c), k) : f[a] = f[b] => a = b
    BY <1>1 DEF Places
  <2>3. \A t \in Later : \E a \in Places(Tail(c), k) : f[a] = t
    <3>1. SUFFICES ASSUME NEW t \in Later PROVE \E a \in Places(Tail(c), k) : f[a] = t
      OBVIOUS
    <3>2. t - 1 \in 1 .. Len(c) - 1 /\ Tail(c)[t - 1] = c[t]
      BY <1>1
    <3>3. t - 1 \in Places(Tail(c), k)
      BY <1>1, <3>2 DEF Places
    <3> QED BY <3>2, <3>3
  <2> QED BY <2>1, <2>2, <2>3 DEF Bijection, Injection, Surjection, IsInjective
<1>3. IsFiniteSet(Places(Tail(c), k)) /\ Count(Tail(c), k) \in Nat
  BY <1>1, CountType
<1>4. IsFiniteSet(Later) /\ Cardinality(Later) = Count(Tail(c), k)
  BY <1>2, <1>3, FS_Bijection DEF ExistsBijection, Count
<1>5. CASE Head(c) = k
  <2>1. Places(c, k) = Later \cup {1} /\ 1 \notin Later
    BY <1>1, <1>5 DEF Places
  <2>2. Cardinality(Later \cup {1}) = Cardinality(Later) + 1
    BY <1>4, <2>1, FS_AddElement
  <2> QED BY <1>4, <1>5, <2>1, <2>2 DEF Count
<1>6. CASE Head(c) # k
  <2>1. Places(c, k) = Later
    BY <1>1, <1>6 DEF Places
  <2> QED BY <1>3, <1>4, <1>6, <2>1 DEF Count
<1> QED BY <1>5, <1>6

\* The sequence without its item i.
LEMMA RemoveAtProperties ==
  ASSUME NEW T, NEW c \in Seq(T), NEW i \in 1 .. Len(c)
  PROVE  /\ RemoveAt(c, i) \in Seq(T)
         /\ Len(RemoveAt(c, i)) = Len(c) - 1
         /\ \A j \in 1 .. Len(c) - 1 : RemoveAt(c, i)[j] = IF j < i THEN c[j] ELSE c[j + 1]
<1> DEFINE a == SubSeq(c, 1, i - 1)
           b == SubSeq(c, i + 1, Len(c))
<1>1. Len(c) \in Nat /\ i \in Nat /\ i - 1 <= Len(c) /\ 1 <= i
  BY LenProperties
<1>2. a \in Seq(T) /\ Len(a) = i - 1 /\ \A j \in 1 .. i - 1 : a[j] = c[j]
  BY <1>1, SubSeqProperties
<1>3. /\ b \in Seq(T) /\ Len(b) = Len(c) - i
      /\ \A j \in 1 .. Len(c) - i : b[j] = c[j + i]
  BY <1>1, SubSeqProperties
<1> HIDE DEF a, b
<1>4. /\ a \o b \in Seq(T) /\ Len(a \o b) = Len(c) - 1
      /\ \A j \in 1 .. Len(c) - 1 : (a \o b)[j] = IF j <= i - 1 THEN a[j] ELSE b[j - (i - 1)]
  <2>1. Len(a) + Len(b) = Len(c) - 1
    BY <1>1, <1>2, <1>3
  <2>2. a \in Seq(T) /\ b \in Seq(T)
    BY <1>2, <1>3
  <2>3. /\ a \o b \in Seq(T) /\ Len(a \o b) = Len(a) + Len(b)
        /\ \A j \in 1 .. Len(a) + Len(b) :
             (a \o b)[j] = IF j <= Len(a) THEN a[j] ELSE b[j - Len(a)]
    BY <2>2, ConcatProperties
  <2>4. Len(a) = i - 1
    BY <1>2
  <2> QED BY <2>1, <2>3, <2>4
<1>5. ASSUME NEW j \in 1 .. Len(c) - 1
      PROVE  (a \o b)[j] = IF j < i THEN c[j] ELSE c[j + 1]
  <2>1. CASE j < i
    <3>1. j \in 1 .. i - 1 /\ j <= i - 1
      BY <2>1, <1>1
    <3> QED BY <3>1, <2>1, <1>2, <1>4
  <2>2. CASE ~(j < i)
    <3>1. j - (i - 1) \in 1 .. Len(c) - i /\ (j - (i - 1)) + i = j + 1 /\ ~(j <= i - 1)
      BY <2>2, <1>1
    <3>2. b[j - (i - 1)] = c[j + 1]
      BY <3>1, <1>3
    <3> QED BY <3>1, <3>2, <2>2, <1>4
  <2> QED BY <2>1, <2>2
<1> QED BY <1>4, <1>5 DEF RemoveAt, a, b

-------------------------------------------------------------------------------
(* The rings, as sequences of the keys they hold.                          *)

Item == AnyKey \cup {Nothing}

LEMMA Size == QueueSize \in Nat /\ QueueSize > 1 /\ QueueSize - 1 \in Slots /\ 0 \in Slots
  BY ConsoleAssumption DEF Slots

LEMMA Wrap ==
  ASSUME NEW a \in 0 .. (2 * QueueSize - 1)
  PROVE  a % QueueSize = (IF a < QueueSize THEN a ELSE a - QueueSize) /\ a % QueueSize \in Slots
  BY Size DEF Slots

\* The slot behind slot a.
LEMMA Following ==
  ASSUME NEW a \in Slots
  PROVE  /\ (a + 1) % QueueSize \in Slots
         /\ (a + 1) % QueueSize = IF a = QueueSize - 1 THEN 0 ELSE a + 1
<1>1. a + 1 \in 0 .. (2 * QueueSize - 1)
  BY Size DEF Slots
<1> QED BY <1>1, Wrap, Size DEF Slots

LEMMA LengthIs ==
  ASSUME NEW q \in Queue
  PROVE  /\ Length(q) \in Slots
         /\ Length(q) = IF q.tail >= q.head THEN q.tail - q.head
                        ELSE QueueSize + q.tail - q.head
<1>1. q.head \in Slots /\ q.tail \in Slots
  BY DEF Queue
<1>2. QueueSize + q.tail - q.head \in 0 .. (2 * QueueSize - 1)
  BY <1>1, Size DEF Slots
<1> QED BY <1>1, <1>2, Wrap, Size DEF Slots, Length

\* The slot of the i-th key of a ring.
SlotOf(q, i) == (q.head + i - 1) % QueueSize

LEMMA SlotIs ==
  ASSUME NEW q \in Queue, NEW i \in 1 .. QueueSize
  PROVE  /\ SlotOf(q, i) \in Slots
         /\ SlotOf(q, i) = IF q.head + i - 1 < QueueSize THEN q.head + i - 1
                           ELSE q.head + i - 1 - QueueSize
<1>1. q.head \in Slots
  BY DEF Queue
<1> DEFINE a == q.head + i - 1
<1>2. a \in 0 .. (2 * QueueSize - 1)
  BY <1>1, Size DEF Slots
<1> HIDE DEF a
<1>3. a % QueueSize = (IF a < QueueSize THEN a ELSE a - QueueSize) /\ a % QueueSize \in Slots
  BY <1>2, Wrap
<1>4. SlotOf(q, i) = a % QueueSize
  BY DEF SlotOf, a
<1>5. a = q.head + i - 1
  BY DEF a
<1>6. a \in Nat /\ QueueSize \in Nat /\ q.head \in Nat /\ i \in Nat
  BY <1>1, <1>2, Size DEF Slots
<1> QED BY ONLY <1>3, <1>4, <1>5, <1>6

LEMMA ContentsAre ==
  ASSUME NEW q \in Queue
  PROVE  /\ Contents(q) \in Seq(Item) /\ Len(Contents(q)) = Length(q)
         /\ Length(q) \in Nat /\ Length(q) <= QueueSize - 1
         /\ \A i \in 1 .. Length(q) : Contents(q)[i] = q.buf[SlotOf(q, i)]
<1>1. Length(q) \in Nat /\ Length(q) <= QueueSize - 1
  BY LengthIs, Size DEF Slots
<1>2. \A i \in 1 .. Length(q) : i \in 1 .. QueueSize
  BY <1>1, Size
<1>3. \A i \in 1 .. Length(q) : q.buf[SlotOf(q, i)] \in Item
  BY <1>2, SlotIs DEF Queue, Item
<1>4. Contents(q) = [i \in 1 .. Length(q) |-> q.buf[SlotOf(q, i)]]
  BY DEF Contents, SlotOf
<1>5. Contents(q) \in [1 .. Length(q) -> Item]
  BY <1>3, <1>4
<1>6. Contents(q) \in Seq(Item) /\ Len(Contents(q)) = Length(q)
  BY <1>1, <1>5, SeqDef, LenProperties
<1> QED BY <1>1, <1>4, <1>6

LEMMA EmptyOrFull ==
  ASSUME NEW q \in Queue
  PROVE  /\ IsEmpty(q) <=> Length(q) = 0
         /\ IsEmpty(q) <=> Contents(q) = << >>
         /\ IsFull(q) <=> Length(q) = QueueSize - 1
<1>1. q.head \in Slots /\ q.tail \in Slots
  BY DEF Queue
<1>2. IsEmpty(q) <=> Length(q) = 0
  BY <1>1, LengthIs, Size DEF IsEmpty, Slots
<1>3. IsFull(q) <=> Length(q) = QueueSize - 1
  BY <1>1, LengthIs, Following, Size DEF IsFull, Slots
<1>4. Contents(q) = << >> <=> Length(q) = 0
  BY ContentsAre, EmptySeq
<1> QED BY <1>2, <1>3, <1>4

LEMMA NewIsEmpty ==
  NewQueue \in Queue /\ Length(NewQueue) = 0 /\ Contents(NewQueue) = << >>
<1>1. NewQueue \in Queue
  BY Size DEF NewQueue, Queue
<1>2. IsEmpty(NewQueue)
  BY DEF NewQueue, IsEmpty
<1> QED BY <1>1, <1>2, EmptyOrFull

LEMMA PopIs ==
  ASSUME NEW q \in Queue, ~IsEmpty(q)
  PROVE  /\ Pop(q) \in Queue
         /\ Length(Pop(q)) = Length(q) - 1
         /\ Contents(q) # << >>
         /\ Contents(Pop(q)) = Tail(Contents(q)) /\ HeadOf(q) = Head(Contents(q))
<1>1. q.head \in Slots /\ q.tail \in Slots /\ q.head # q.tail /\ q.buf \in [Slots -> Item]
  BY DEF Queue, IsEmpty, Item
<1>2. /\ Pop(q).buf = [q.buf EXCEPT ![q.head] = Nothing]
      /\ Pop(q).head = (q.head + 1) % QueueSize /\ Pop(q).tail = q.tail
      /\ Pop(q) \in Queue
  <2>1. (q.head + 1) % QueueSize \in Slots
    BY <1>1, Following
  <2>2. [q.buf EXCEPT ![q.head] = Nothing] \in [Slots -> Item]
    BY <1>1 DEF Item
  <2> QED BY <1>1, <2>1, <2>2 DEF Pop, Queue, Item
<1>3. Length(Pop(q)) = Length(q) - 1 /\ Length(q) # 0 /\ Length(q) \in Nat
  <2>1. /\ Pop(q).head = IF q.head = QueueSize - 1 THEN 0 ELSE q.head + 1
        /\ Pop(q).tail = q.tail
    BY <1>1, <1>2, Following
  <2>2. Length(q) = IF q.tail >= q.head THEN q.tail - q.head ELSE QueueSize + q.tail - q.head
    BY LengthIs
  <2>3. Length(Pop(q)) = IF Pop(q).tail >= Pop(q).head THEN Pop(q).tail - Pop(q).head
                         ELSE QueueSize + Pop(q).tail - Pop(q).head
    BY <1>2, LengthIs
  <2>4. /\ q.head \in Nat /\ q.tail \in Nat /\ QueueSize \in Nat /\ q.head # q.tail
        /\ q.head < QueueSize /\ q.tail < QueueSize
    BY <1>1, Size DEF Slots
  <2> QED BY ONLY <2>1, <2>2, <2>3, <2>4
<1>4. Contents(q) # << >> /\ Contents(q) \in Seq(Item) /\ Len(Contents(q)) = Length(q)
  BY EmptyOrFull, ContentsAre
<1>5. /\ Tail(Contents(q)) \in Seq(Item) /\ Len(Tail(Contents(q))) = Length(q) - 1
      /\ \A i \in 1 .. Length(q) - 1 : Tail(Contents(q))[i] = Contents(q)[i + 1]
      /\ Head(Contents(q)) = Contents(q)[1]
  BY <1>3, <1>4, HeadTailProperties
<1>6. ASSUME NEW i \in 1 .. Length(q) - 1
      PROVE  Contents(Pop(q))[i] = Contents(q)[i + 1]
  <2>1. i + 1 \in 1 .. Length(q) /\ i \in 1 .. QueueSize /\ i + 1 \in 1 .. QueueSize
    BY <1>3, ContentsAre, Size
  <2>2. SlotOf(Pop(q), i) = SlotOf(q, i + 1)
    <3>1. Pop(q).head = IF q.head = QueueSize - 1 THEN 0 ELSE q.head + 1
      BY <1>1, <1>2, Following
    <3>2. SlotOf(Pop(q), i) = IF Pop(q).head + i - 1 < QueueSize THEN Pop(q).head + i - 1
                              ELSE Pop(q).head + i - 1 - QueueSize
      BY <1>2, <2>1, SlotIs
    <3>3. SlotOf(q, i + 1) = IF q.head + (i + 1) - 1 < QueueSize THEN q.head + (i + 1) - 1
                             ELSE q.head + (i + 1) - 1 - QueueSize
      BY <2>1, SlotIs
    <3>4. /\ q.head \in Nat /\ q.head < QueueSize /\ QueueSize \in Nat
          /\ i \in Nat /\ i >= 1 /\ i <= QueueSize
      BY <1>1, <2>1, Size DEF Slots
    <3> QED BY ONLY <3>1, <3>2, <3>3, <3>4
  <2>3. SlotOf(q, i + 1) # q.head /\ SlotOf(q, i + 1) \in Slots
    <3>1. /\ SlotOf(q, i + 1) \in Slots
          /\ SlotOf(q, i + 1) = IF q.head + (i + 1) - 1 < QueueSize THEN q.head + (i + 1) - 1
                               ELSE q.head + (i + 1) - 1 - QueueSize
      BY <2>1, SlotIs
    <3>2. i \in Nat /\ i >= 1 /\ i < QueueSize /\ q.head \in Nat /\ q.head < QueueSize
      BY <1>1, <2>1, Size DEF Slots
    <3> QED BY <3>1, <3>2, Size
  <2>4. Pop(q).buf[SlotOf(q, i + 1)] = q.buf[SlotOf(q, i + 1)]
    BY <1>1, <1>2, <2>3
  <2>5. Contents(Pop(q))[i] = Pop(q).buf[SlotOf(Pop(q), i)]
    BY <1>2, <1>3, ContentsAre
  <2>6. Contents(q)[i + 1] = q.buf[SlotOf(q, i + 1)]
    BY <2>1, ContentsAre
  <2> QED BY <2>2, <2>4, <2>5, <2>6
<1>7. Contents(Pop(q)) = Tail(Contents(q))
  <2>1. Contents(Pop(q)) \in Seq(Item) /\ Len(Contents(Pop(q))) = Length(q) - 1
    BY <1>2, <1>3, ContentsAre
  <2> QED BY <2>1, <1>5, <1>6, SeqEqual
<1>8. HeadOf(q) = Head(Contents(q))
  <2>1. 1 \in 1 .. Length(q) /\ 1 \in 1 .. QueueSize
    BY <1>3, Size
  <2>2. SlotOf(q, 1) = q.head
    <3>1. SlotOf(q, 1) = IF q.head + 1 - 1 < QueueSize THEN q.head + 1 - 1
                         ELSE q.head + 1 - 1 - QueueSize
      BY <2>1, SlotIs
    <3> QED BY <1>1, <3>1, Size DEF Slots
  <2> QED BY <1>5, <2>1, <2>2, ContentsAre DEF HeadOf
<1> QED BY <1>2, <1>3, <1>4, <1>7, <1>8

\* The arithmetic of a ring of n slots, with l items from h to t.
LEMMA TailBehindItems ==
  ASSUME NEW n \in Nat, NEW h \in 0 .. n - 1, NEW t \in 0 .. n - 1,
         NEW l \in Nat, l = IF t >= h THEN t - h ELSE n + t - h,
         NEW i \in 1 .. l + 1,
         NEW s, s = IF h + i - 1 < n THEN h + i - 1 ELSE h + i - 1 - n
  PROVE  s = t <=> i = l + 1
  OBVIOUS

LEMMA OneMoreItem ==
  ASSUME NEW n \in Nat, NEW h \in 0 .. n - 1, NEW t \in 0 .. n - 1,
         NEW l \in Nat, l = IF t >= h THEN t - h ELSE n + t - h,
         NEW u, u = IF t = n - 1 THEN 0 ELSE t + 1, u # h,
         NEW m, m = IF u >= h THEN u - h ELSE n + u - h
  PROVE  m = l + 1
  OBVIOUS

LEMMA PutIs ==
  ASSUME NEW q \in Queue, ~IsFull(q), NEW k \in Item
  PROVE  /\ Put(q, k) \in Queue
         /\ Length(Put(q, k)) = Length(q) + 1
         /\ Contents(Put(q, k)) = Append(Contents(q), k)
<1>1. /\ q.head \in Slots /\ q.tail \in Slots /\ q.buf \in [Slots -> Item]
      /\ (q.tail + 1) % QueueSize # q.head
  BY DEF Queue, IsFull, Item
<1>2. /\ Put(q, k).buf = [q.buf EXCEPT ![q.tail] = k]
      /\ Put(q, k).head = q.head /\ Put(q, k).tail = (q.tail + 1) % QueueSize
      /\ Put(q, k) \in Queue
  <2>1. (q.tail + 1) % QueueSize \in Slots
    BY <1>1, Following
  <2>2. [q.buf EXCEPT ![q.tail] = k] \in [Slots -> Item]
    BY <1>1
  <2> QED BY <1>1, <2>1, <2>2 DEF Put, Queue, Item
<1>3. Length(Put(q, k)) = Length(q) + 1
  <2>1. /\ Put(q, k).tail = IF q.tail = QueueSize - 1 THEN 0 ELSE q.tail + 1
        /\ Put(q, k).head = q.head
    BY <1>1, <1>2, Following
  <2>2. Put(q, k).tail # q.head
    BY <1>1, <1>2
  <2>3. Length(q) = IF q.tail >= q.head THEN q.tail - q.head ELSE QueueSize + q.tail - q.head
    BY LengthIs
  <2>4. Length(Put(q, k)) = IF Put(q, k).tail >= Put(q, k).head
                            THEN Put(q, k).tail - Put(q, k).head
                            ELSE QueueSize + Put(q, k).tail - Put(q, k).head
    BY <1>2, LengthIs
  <2>5. QueueSize \in Nat /\ q.head \in 0 .. QueueSize - 1 /\ q.tail \in 0 .. QueueSize - 1
    BY <1>1, Size DEF Slots
  <2>6. Length(q) \in Nat
    BY ContentsAre
  <2>7. Length(Put(q, k)) = IF Put(q, k).tail >= q.head THEN Put(q, k).tail - q.head
                            ELSE QueueSize + Put(q, k).tail - q.head
    BY <2>1, <2>4
  <2> QED BY ONLY <2>1, <2>2, <2>3, <2>5, <2>6, <2>7, OneMoreItem
<1>4. Contents(q) \in Seq(Item) /\ Len(Contents(q)) = Length(q) /\ Length(q) \in Nat
  BY ContentsAre
<1>5. /\ Append(Contents(q), k) \in Seq(Item) /\ Len(Append(Contents(q), k)) = Length(q) + 1
      /\ \A i \in 1 .. Length(q) : Append(Contents(q), k)[i] = Contents(q)[i]
      /\ Append(Contents(q), k)[Length(q) + 1] = k
  BY <1>4, AppendProperties
<1>6. ASSUME NEW i \in 1 .. Length(q) + 1
      PROVE  Contents(Put(q, k))[i] = Append(Contents(q), k)[i]
  <2>1. i \in 1 .. QueueSize
    BY <1>4, ContentsAre, Size
  <2>2. SlotOf(Put(q, k), i) = SlotOf(q, i) /\ SlotOf(q, i) \in Slots
    BY <1>2, <2>1, SlotIs DEF SlotOf
  <2>3. SlotOf(q, i) = q.tail <=> i = Length(q) + 1
    <3>1. SlotOf(q, i) = IF q.head + i - 1 < QueueSize THEN q.head + i - 1
                         ELSE q.head + i - 1 - QueueSize
      BY <2>1, SlotIs
    <3>2. Length(q) = IF q.tail >= q.head THEN q.tail - q.head ELSE QueueSize + q.tail - q.head
      BY LengthIs
    <3>3. QueueSize \in Nat /\ q.head \in 0 .. QueueSize - 1 /\ q.tail \in 0 .. QueueSize - 1
      BY <1>1, Size DEF Slots
    <3>4. i \in 1 .. Length(q) + 1 /\ Length(q) \in Nat
      BY <1>4
    <3> QED BY ONLY <3>1, <3>2, <3>3, <3>4, TailBehindItems
  <2>4. Contents(Put(q, k))[i] = Put(q, k).buf[SlotOf(q, i)]
    BY <1>2, <1>3, <2>2, ContentsAre
  <2>5. CASE i = Length(q) + 1
    BY <1>1, <1>2, <1>5, <2>3, <2>4, <2>5
  <2>6. CASE i # Length(q) + 1
    <3>1. i \in 1 .. Length(q)
      BY <2>6, <1>4
    <3>2. Contents(q)[i] = q.buf[SlotOf(q, i)]
      BY <3>1, ContentsAre
    <3>3. Put(q, k).buf[SlotOf(q, i)] = q.buf[SlotOf(q, i)]
      BY <1>1, <1>2, <2>2, <2>3, <2>6
    <3> QED BY <1>5, <2>4, <3>1, <3>2, <3>3
  <2> QED BY <2>5, <2>6
<1>7. Contents(Put(q, k)) \in Seq(Item) /\ Len(Contents(Put(q, k))) = Length(q) + 1
  BY <1>2, <1>3, ContentsAre
<1>8. Contents(Put(q, k)) = Append(Contents(q), k)
  BY <1>5, <1>6, <1>7, SeqEqual
<1> QED BY <1>2, <1>3, <1>8

LEMMA PushIs ==
  ASSUME NEW q \in Queue, NEW k \in Item
  PROVE  /\ Push(q, k) \in Queue
         /\ Length(q) < QueueSize - 1 => Length(Push(q, k)) = Length(q) + 1
         /\ Contents(Push(q, k)) = IF Length(q) < QueueSize - 1
                                   THEN Append(Contents(q), k)
                                   ELSE Append(Tail(Contents(q)), k)
<1>1. Length(q) \in Nat /\ Length(q) <= QueueSize - 1
  BY ContentsAre
<1>2. CASE IsFull(q)
  <2>1. Length(q) = QueueSize - 1 /\ ~IsEmpty(q)
    BY <1>2, EmptyOrFull, Size
  <2>2. Pop(q) \in Queue /\ Length(Pop(q)) = Length(q) - 1 /\ Contents(Pop(q)) = Tail(Contents(q))
    BY <2>1, PopIs
  <2>3. ~IsFull(Pop(q))
    BY <1>1, <2>1, <2>2, EmptyOrFull, Size
  <2>4. Push(q, k) = Put(Pop(q), k)
    BY <1>2 DEF Push
  <2>5. ~(Length(q) < QueueSize - 1)
    BY <2>1, Size
  <2> QED BY <2>2, <2>3, <2>4, <2>5, PutIs
<1>3. CASE ~IsFull(q)
  <2>1. Length(q) < QueueSize - 1
    BY <1>1, <1>3, EmptyOrFull, Size
  <2>2. Push(q, k) = Put(q, k)
    BY <1>3 DEF Push
  <2> QED BY <1>3, <2>1, <2>2, PutIs
<1> QED BY <1>2, <1>3

LEMMA PushHolds ==
  ASSUME NEW T, NEW q \in Queue, NEW k \in T, k \in Item, Contents(q) \in Seq(T)
  PROVE  Contents(Push(q, k)) \in Seq(T)
<1>1. CASE Length(q) < QueueSize - 1
  BY <1>1, PushIs, AppendProperties
<1>2. CASE ~(Length(q) < QueueSize - 1)
  <2>1. Length(q) \in Nat /\ Length(q) # 0 /\ Len(Contents(q)) = Length(q)
    BY <1>2, ContentsAre, Size
  <2>2. Contents(q) # << >>
    BY <2>1, EmptySeq
  <2>3. Tail(Contents(q)) \in Seq(T)
    BY <2>2, HeadTailProperties
  <2> QED BY <1>2, <2>3, PushIs, AppendProperties
<1> QED BY <1>1, <1>2

\* r has the rings between the pushes of PushTimes.
PushSteps(r, q, k, m) ==
  /\ r[0] = q /\ r[m] = PushTimes(q, k, m)
  /\ \A i \in 1 .. m : r[i] = Push(r[i - 1], k)

LEMMA PushTimesSteps ==
  ASSUME NEW q, NEW k, NEW m \in Nat
  PROVE  \E r : PushSteps(r, q, k, m)
<1> DEFINE Step(f, n) == f = [i \in 0 .. n |-> IF i = 0 THEN q ELSE Push(f[i - 1], k)]
           P == {n \in 0 .. m : \E f : Step(f, n)}
           r == CHOOSE f : Step(f, m)
<1>1. 0 \in P
  <2>1. Step([i \in 0 .. 0 |-> q], 0)
    OBVIOUS
  <2> HIDE DEF Step
  <2> QED BY <2>1
<1>2. ASSUME NEW n \in 1 .. m, n - 1 \in P PROVE n \in P
  <2>1. PICK f : Step(f, n - 1)
    BY <1>2
  <2>2. Step([i \in 0 .. n |-> IF i = n THEN Push(f[n - 1], k) ELSE f[i]], n)
    BY <2>1
  <2> HIDE DEF Step
  <2> QED BY <2>2
<1>3. \E f : Step(f, m)
  <2> HIDE DEF Step
  <2>1. 0 .. m \subseteq P
    <3> HIDE DEF P
    <3> QED BY <1>1, <1>2, UpTo
  <2> QED BY <2>1
<1>4. Step(r, m)
  <2> HIDE DEF Step
  <2> QED BY <1>3
<1>5. PushTimes(q, k, m) = r[m]
  BY DEF PushTimes
<1> HIDE DEF r
<1>6. \A i \in 0 .. m : r[i] = IF i = 0 THEN q ELSE Push(r[i - 1], k)
  BY <1>4
<1>7. r[0] = q /\ \A i \in 1 .. m : r[i] = Push(r[i - 1], k)
  BY <1>6
<1> QED BY <1>5, <1>7 DEF PushSteps

LEMMA PushTimesHolds ==
  ASSUME NEW T, NEW q \in Queue, NEW k \in T, k \in Item, Contents(q) \in Seq(T), NEW m \in Nat
  PROVE  PushTimes(q, k, m) \in Queue /\ Contents(PushTimes(q, k, m)) \in Seq(T)
<1>0. PICK r : PushSteps(r, q, k, m)
  BY PushTimesSteps
<1>1. /\ r[0] = q /\ r[m] = PushTimes(q, k, m)
      /\ \A i \in 1 .. m : r[i] = Push(r[i - 1], k)
  BY <1>0 DEF PushSteps
<1> DEFINE P == {i \in 0 .. m : r[i] \in Queue /\ Contents(r[i]) \in Seq(T)}
<1>2. 0 \in P
  BY <1>1
<1>3. ASSUME NEW i \in 1 .. m, i - 1 \in P PROVE i \in P
  BY <1>1, <1>3, PushIs, PushHolds
<1>4. 0 .. m \subseteq P
  <2> HIDE DEF P
  <2> QED BY <1>2, <1>3, UpTo
<1> QED BY <1>1, <1>4

LEMMA CopiesAre ==
  ASSUME NEW q \in Queue, NEW k
  PROVE  Copies(q, k) = Count(Contents(q), k) /\ Copies(q, k) \in Nat /\ Copies(q, k) <= Length(q)
<1>1. Copies(q, k) = Count(Contents(q), k)
  BY ContentsAre DEF Copies, Count, Places
<1> QED BY <1>1, ContentsAre, CountType

LEMMA PushCopies ==
  ASSUME NEW q \in Queue, NEW k \in Item, Length(q) < QueueSize - 1, NEW j
  PROVE  Copies(Push(q, k), j) = Copies(q, j) + (IF k = j THEN 1 ELSE 0)
<1>1. Push(q, k) \in Queue /\ Contents(Push(q, k)) = Append(Contents(q), k)
  BY PushIs
<1>2. /\ Copies(Push(q, k), j) = Count(Append(Contents(q), k), j)
      /\ Copies(q, j) = Count(Contents(q), j)
  BY <1>1, CopiesAre
<1>3. Contents(q) \in Seq(Item)
  BY ContentsAre
<1> QED BY <1>2, <1>3, CountAppend

LEMMA PopCopies ==
  ASSUME NEW q \in Queue, ~IsEmpty(q), NEW j
  PROVE  Copies(q, j) = Copies(Pop(q), j) + (IF HeadOf(q) = j THEN 1 ELSE 0)
<1>1. /\ Pop(q) \in Queue /\ Contents(q) # << >>
      /\ Contents(Pop(q)) = Tail(Contents(q)) /\ HeadOf(q) = Head(Contents(q))
  BY PopIs
<1>2. /\ Copies(Pop(q), j) = Count(Tail(Contents(q)), j)
      /\ Copies(q, j) = Count(Contents(q), j)
  BY <1>1, CopiesAre
<1>3. Contents(q) \in Seq(Item)
  BY ContentsAre
<1>4. Count(Contents(q), j) = Count(Tail(Contents(q)), j) + (IF Head(Contents(q)) = j THEN 1 ELSE 0)
  BY <1>1, <1>3, CountTail
<1> QED BY <1>1, <1>2, <1>4

\* Without an overflow each key that is pushed is one more in the ring.
LEMMA PushTimesCopies ==
  ASSUME NEW q \in Queue, NEW k \in Item, NEW m \in Nat, Length(q) + m < QueueSize
  PROVE  /\ Length(PushTimes(q, k, m)) = Length(q) + m
         /\ \A j : Copies(PushTimes(q, k, m), j) = Copies(q, j) + (IF k = j THEN m ELSE 0)
<1>0. PICK r : PushSteps(r, q, k, m)
  BY PushTimesSteps
<1>1. /\ r[0] = q /\ r[m] = PushTimes(q, k, m)
      /\ \A i \in 1 .. m : r[i] = Push(r[i - 1], k)
  BY <1>0 DEF PushSteps
<1>2. Length(q) \in Nat /\ \A j : Copies(q, j) \in Nat
  BY ContentsAre, CopiesAre
<1> DEFINE P == {i \in 0 .. m : /\ r[i] \in Queue /\ Length(r[i]) = Length(q) + i
                                /\ \A j : Copies(r[i], j) = Copies(q, j) + (IF k = j THEN i ELSE 0)}
<1>3. 0 \in P
  BY <1>1, <1>2
<1>4. ASSUME NEW i \in 1 .. m, i - 1 \in P PROVE i \in P
  <2>1. /\ i - 1 \in 0 .. m /\ r[i - 1] \in Queue /\ Length(r[i - 1]) = Length(q) + (i - 1)
        /\ \A j : Copies(r[i - 1], j) = Copies(q, j) + (IF k = j THEN i - 1 ELSE 0)
    BY <1>4
  <2>2. r[i] = Push(r[i - 1], k)
    BY <1>1
  <2>3. Length(r[i - 1]) < QueueSize - 1
    BY <1>2, <2>1, Size
  <2>4. r[i] \in Queue /\ Length(r[i]) = Length(q) + i
    BY <1>2, <2>1, <2>2, <2>3, PushIs
  <2>5. ASSUME NEW j PROVE Copies(r[i], j) = Copies(q, j) + (IF k = j THEN i ELSE 0)
    <3>1. Copies(r[i], j) = Copies(r[i - 1], j) + (IF k = j THEN 1 ELSE 0)
      BY <2>1, <2>2, <2>3, PushCopies
    <3>2. Copies(r[i - 1], j) = Copies(q, j) + (IF k = j THEN i - 1 ELSE 0)
      BY <2>1
    <3> QED BY <1>2, <3>1, <3>2
  <2> QED BY <2>4, <2>5
<1>5. 0 .. m \subseteq P
  <2> HIDE DEF P
  <2> QED BY <1>3, <1>4, UpTo
<1>6. m \in P
  BY <1>5
<1> QED BY <1>1, <1>6

\* WithoutPartial takes a number of partial keys from the head.
LEMMA WithoutPartialIs ==
  ASSUME NEW q \in Queue
  PROVE  /\ WithoutPartial(q) \in Queue
         /\ \E n \in 0 .. Len(Contents(q)) :
              /\ \A i \in 1 .. n : Contents(q)[i] = Partial
              /\ Contents(WithoutPartial(q)) = SubSeq(Contents(q), n + 1, Len(Contents(q)))
<1> DEFINE m == Length(q)
           c == Contents(q)
           Less(p) == IF ~IsEmpty(p) /\ HeadOf(p) = Partial THEN Pop(p) ELSE p
           Step(f, n) == f = [i \in 0 .. n |-> IF i = 0 THEN q ELSE Less(f[i - 1])]
           E == {n \in 0 .. m : \E f : Step(f, n)}
           r == CHOOSE f : Step(f, m)
<1>m. m \in Nat /\ c \in Seq(Item) /\ Len(c) = m
  BY ContentsAre
<1>1. 0 \in E
  <2>1. Step([i \in 0 .. 0 |-> q], 0)
    OBVIOUS
  <2> HIDE DEF Step
  <2> QED BY <2>1, <1>m
<1>2. ASSUME NEW n \in 1 .. m, n - 1 \in E PROVE n \in E
  <2>0. \E f : Step(f, n - 1)
    BY <1>2
  <2>1. PICK f : Step(f, n - 1)
    BY <2>0
  <2> HIDE DEF Less
  <2>2. Step([i \in 0 .. n |-> IF i = n THEN Less(f[n - 1]) ELSE f[i]], n)
    BY <2>1, <1>m
  <2> HIDE DEF Step
  <2> QED BY <2>2
<1>3. \E f : Step(f, m)
  <2>1. 0 .. m \subseteq E
    <3> HIDE DEF E
    <3> QED BY <1>1, <1>2, <1>m, UpTo
  <2> HIDE DEF Step
  <2> QED BY <2>1, <1>m
<1>4. Step(r, m)
  <2> HIDE DEF Step
  <2> QED BY <1>3
<1>5. WithoutPartial(q) = r[m]
  BY DEF WithoutPartial
<1> HIDE DEF r, m
<1>6. r[0] = q /\ \A i \in 1 .. m : r[i] = Less(r[i - 1])
  <2> HIDE DEF Less
  <2> QED BY <1>4, <1>m
<1> HIDE DEF c
<1> DEFINE Left(p) == \E n \in 0 .. Len(c) :
                        /\ \A i \in 1 .. n : c[i] = Partial
                        /\ Contents(p) = SubSeq(c, n + 1, Len(c))
           P == {i \in 0 .. m : r[i] \in Queue /\ Left(r[i])}
<1>7. ASSUME NEW p \in Queue, Left(p) PROVE Less(p) \in Queue /\ Left(Less(p))
  <2>1. CASE ~IsEmpty(p) /\ HeadOf(p) = Partial
    <3>1. PICK n \in 0 .. Len(c) : /\ \A i \in 1 .. n : c[i] = Partial
                                   /\ Contents(p) = SubSeq(c, n + 1, Len(c))
      BY <1>7
    <3>2. /\ Pop(p) \in Queue /\ Contents(p) # << >>
          /\ Contents(Pop(p)) = Tail(Contents(p)) /\ Head(Contents(p)) = Partial
      BY <2>1, PopIs
    <3>3. n + 1 \in 1 .. Len(c) /\ Len(c) \in n + 1 .. Len(c)
      BY <1>m, <3>1, <3>2, SubSeqEmpty
    <3>4. /\ Head(SubSeq(c, n + 1, Len(c))) = c[n + 1]
          /\ Tail(SubSeq(c, n + 1, Len(c))) = SubSeq(c, (n + 1) + 1, Len(c))
      BY <1>m, <3>3, HeadTailOfSubSeq
    <3>5. n + 1 \in 0 .. Len(c) /\ \A i \in 1 .. n + 1 : c[i] = Partial
      BY <3>1, <3>2, <3>3, <3>4
    <3>6. Contents(Pop(p)) = SubSeq(c, (n + 1) + 1, Len(c))
      BY <3>1, <3>2, <3>4
    <3>7. Left(Pop(p))
      BY <3>5, <3>6
    <3> QED BY <2>1, <3>2, <3>7
  <2>2. CASE ~(~IsEmpty(p) /\ HeadOf(p) = Partial)
    <3>1. Less(p) = p
      BY <2>2
    <3> HIDE DEF Less, Left
    <3> QED BY <3>1, <1>7
  <2> QED BY <2>1, <2>2
<1>8. 0 \in P
  <2>1. SubSeq(c, 0 + 1, Len(c)) = c
    BY <1>m, SubSeqFull
  <2>2. Contents(q) = SubSeq(c, 0 + 1, Len(c))
    BY <2>1 DEF c
  <2>3. 0 \in 0 .. Len(c) /\ 0 \in 0 .. m /\ \A i \in 1 .. 0 : c[i] = Partial
    BY <1>m
  <2>4. Left(q)
    BY <2>2, <2>3
  <2> HIDE DEF Left
  <2> QED BY <1>6, <2>3, <2>4
<1>9. ASSUME NEW i \in 1 .. m, i - 1 \in P PROVE i \in P
  <2> HIDE DEF Left, Less
  <2>1. r[i - 1] \in Queue /\ Left(r[i - 1]) /\ r[i] = Less(r[i - 1])
    BY <1>6, <1>9
  <2>2. r[i] \in Queue /\ Left(r[i])
    BY <2>1, <1>7
  <2> QED BY <2>2, <1>m
<1>10. 0 .. m \subseteq P
  <2> HIDE DEF P
  <2> QED BY <1>8, <1>9, <1>m, UpTo
<1>11. m \in P
  <2> HIDE DEF P
  <2> QED BY <1>10, <1>m
<1> QED BY <1>5, <1>11 DEF c

-------------------------------------------------------------------------------
(* The keys a poll pushes                                                  *)

\* The types that every state has, whatever functions do to the list.
Types ==
  /\ phase \in {"stopped", "armed", "running"} /\ ticking \in BOOLEAN
  /\ coded \in BOOLEAN /\ partial \in BOOLEAN /\ queue \in Queue /\ notify \in Queue
  /\ list \in Seq(Nodes)
  /\ reg \in [Nodes -> Wishes \cup {Unused}]
  /\ pending \in BOOLEAN
  /\ handler \in {"idle", "pop", "walk", "call"}
  /\ hand \in Keys \cup {Nothing} /\ link \in Nodes \cup {NoNode}
  /\ acted \in BOOLEAN /\ reading \in BOOLEAN
  /\ got \in AnyKey \cup {Nothing}
  /\ due \in [Nodes -> Nat]

\* What a poll changes, as PushKey has it.
Console == [queue: Queue, notify: Queue, pending: BOOLEAN, due: [Nodes -> Nat]]
Present == [queue |-> queue, notify |-> notify, pending |-> pending, due |-> due]

LEMMA Key ==
  /\ \A k \in AnyKey : k \in Item
  /\ \A k \in Keys : k \in AnyKey /\ k # Partial /\ k # Nothing
  /\ Partial # Nothing /\ Partial \in AnyKey
  BY ConsoleAssumption DEF AnyKey, Item

LEMMA RegisteredKey ==
  ASSUME Types, NEW n \in Nodes
  PROVE  /\ reg[n].key \in Keys \cup {Nothing} /\ reg[n].key # Partial
         /\ reg[n] # Unused => reg[n].key \in Keys
<1>1. \A w \in Wishes : w.key \in Keys
  BY ConsoleAssumption
<1>2. Unused.key = Nothing
  BY DEF Unused
<1> QED BY <1>1, <1>2, Key DEF Types

LEMMA MatchingSize ==
  ASSUME Types, NEW k
  PROVE  /\ IsFiniteSet(Matching(k)) /\ Cardinality(Matching(k)) \in Nat
         /\ Cardinality(Matching(k)) = 0 <=> Matching(k) = {}
<1>1. list \in Seq(Nodes) /\ Len(list) \in Nat /\ DOMAIN list = 1 .. Len(list)
  BY LenProperties DEF Types
<1> DEFINE f == [i \in 1 .. Len(list) |-> list[i]]
<1>2. f \in Surjection(1 .. Len(list), Registered)
  <2>1. \A i \in 1 .. Len(list) : list[i] \in Nodes
    BY <1>1, ElementOfSeq
  <2>2. f \in [1 .. Len(list) -> Registered]
    BY <1>1, <2>1 DEF Registered
  <2>3. \A n \in Registered : \E i \in 1 .. Len(list) : f[i] = n
    BY <1>1 DEF Registered
  <2> QED BY <2>2, <2>3 DEF Surjection
<1>3. IsFiniteSet(1 .. Len(list))
  BY <1>1, FS_Interval
<1>4. IsFiniteSet(Registered)
  BY <1>2, <1>3, FS_Surjection
<1>5. IsFiniteSet(Matching(k))
  BY <1>4, FS_Subset DEF Matching
<1> QED BY <1>5, FS_CardinalityType, FS_EmptySet

\* The ring of notifications behind a key, and the debt of the registrations.
NotifyAfter(s, k) == PushTimes(s.notify, k, Cardinality(Matching(k)))
DueAfter(s, k) ==
  LET d == [n \in Nodes |-> IF n \in Matching(k) THEN s.due[n] + 1 ELSE s.due[n]]
  IN IF Length(s.notify) + Cardinality(Matching(k)) < QueueSize THEN d
     ELSE [n \in Nodes |-> IF n \in Registered
                           THEN StillTold(NotifyAfter(s, k), n, d[n]) ELSE d[n]]

LEMMA PushKeyIs ==
  ASSUME NEW s \in Console, NEW k, ~(k = Partial /\ ~partial)
  PROVE  PushKey(s, k) = [queue   |-> Push(s.queue, k),
                          notify  |-> NotifyAfter(s, k),
                          pending |-> s.pending \/ Cardinality(Matching(k)) > 0,
                          due     |-> DueAfter(s, k)]
<1> DEFINE q == s.queue  nn == s.notify  p == s.pending  d == s.due
<1>1. s = [queue |-> q, notify |-> nn, pending |-> p, due |-> d]
  BY DEF Console
<1> QED BY <1>1 DEF PushKey, Notified, NotifyAfter, DueAfter, Console

\* What is left of the debt to n: the copies of its key in ring q, and the one
\* the handler has in hand.
Ahead(n)   == IF IsAhead(n) /\ hand = reg[n].key THEN 1 ELSE 0
Left(q, n) == Copies(q, reg[n].key) + Ahead(n)

Debts(s) == /\ \A n \in Registered : s.due[n] <= Left(s.notify, n)
            /\ \A n \in Nodes \ Registered : s.due[n] = 0

LEMMA StillToldIs ==
  ASSUME NEW q \in Queue, NEW n, NEW d \in Nat
  PROVE  /\ Left(q, n) \in Nat /\ Left(q, n) <= Length(q) + 1
         /\ StillTold(q, n, d) \in Nat /\ StillTold(q, n, d) <= Left(q, n)
         /\ d <= Left(q, n) <=> d = StillTold(q, n, d)
<1>1. Copies(q, reg[n].key) \in Nat /\ Copies(q, reg[n].key) <= Length(q) /\ Length(q) \in Nat
  BY CopiesAre, ContentsAre
<1>2. Left(q, n) \in Nat /\ Left(q, n) <= Length(q) + 1
  BY <1>1 DEF Left, Ahead
<1>3. StillTold(q, n, d) = IF d < Left(q, n) THEN d ELSE Left(q, n)
  BY DEF StillTold, Smaller, Left, Ahead
<1> QED BY <1>2, <1>3

LEMMA NobodyMatches ==
  ASSUME Types, NEW k, k = Partial \/ list = << >>
  PROVE  Matching(k) = {} /\ Cardinality(Matching(k)) = 0
<1>1. Registered \subseteq Nodes
  BY DEF Registered
<1>2. ASSUME list = << >> PROVE Registered = {}
  BY <1>2, EmptySeq DEF Registered
<1>3. Matching(k) = {}
  BY <1>1, <1>2, RegisteredKey DEF Matching
<1> QED BY <1>3, FS_EmptySet

LEMMA NotifyAfterIs ==
  ASSUME Types, NEW s \in Console, Contents(s.notify) \in Seq(Keys), NEW k \in AnyKey
  PROVE  /\ NotifyAfter(s, k) \in Queue /\ Contents(NotifyAfter(s, k)) \in Seq(Keys)
         /\ Matching(k) = {} => NotifyAfter(s, k) = s.notify
<1>1. s.notify \in Queue
  BY DEF Console
<1>2. Cardinality(Matching(k)) \in Nat
  BY MatchingSize
<1>3. ASSUME Matching(k) = {} PROVE NotifyAfter(s, k) = s.notify
  <2>1. Cardinality(Matching(k)) = 0
    BY <1>3, MatchingSize
  <2>2. PICK r : PushSteps(r, s.notify, k, 0)
    BY PushTimesSteps
  <2> QED BY <2>1, <2>2 DEF NotifyAfter, PushSteps
<1>4. CASE k = Partial
  BY <1>1, <1>3, <1>4, NobodyMatches
<1>5. CASE k # Partial
  <2>1. k \in Keys /\ k \in Item
    BY <1>5, Key DEF AnyKey
  <2>2. /\ PushTimes(s.notify, k, Cardinality(Matching(k))) \in Queue
        /\ Contents(PushTimes(s.notify, k, Cardinality(Matching(k)))) \in Seq(Keys)
    BY <1>1, <1>2, <2>1, PushTimesHolds
  <2> QED BY <1>3, <2>2 DEF NotifyAfter
<1> QED BY <1>4, <1>5

LEMMA DueAfterIs ==
  ASSUME Types, NEW s \in Console, Contents(s.notify) \in Seq(Keys), NEW k \in AnyKey
  PROVE  /\ DueAfter(s, k) \in [Nodes -> Nat]
         /\ Debts(s) => /\ \A n \in Registered : DueAfter(s, k)[n] <= Left(NotifyAfter(s, k), n)
                        /\ \A n \in Nodes \ Registered : DueAfter(s, k)[n] = 0
<1> DEFINE m == Cardinality(Matching(k))
           q == NotifyAfter(s, k)
           d == [n \in Nodes |-> IF n \in Matching(k) THEN s.due[n] + 1 ELSE s.due[n]]
           fits == Length(s.notify) + m < QueueSize
<1>1. /\ s.notify \in Queue /\ s.due \in [Nodes -> Nat] /\ q \in Queue /\ m \in Nat
      /\ d \in [Nodes -> Nat] /\ Registered \subseteq Nodes /\ Matching(k) \subseteq Registered
  <2>1. s.notify \in Queue /\ s.due \in [Nodes -> Nat]
    BY DEF Console
  <2>2. q \in Queue /\ m \in Nat
    BY NotifyAfterIs, MatchingSize
  <2>3. Registered \subseteq Nodes /\ Matching(k) \subseteq Registered
    BY DEF Registered, Matching
  <2>4. d \in [Nodes -> Nat]
    BY <2>1
  <2> QED BY <2>1, <2>2, <2>3, <2>4
<1>2. DueAfter(s, k) = IF fits THEN d
                       ELSE [n \in Nodes |-> IF n \in Registered
                                             THEN StillTold(q, n, d[n]) ELSE d[n]]
  BY DEF DueAfter
<1> HIDE DEF q
<1>3. CASE ~fits
  <2>1. \A n \in Nodes : d[n] \in Nat
    BY <1>1
  <2>2. \A n \in Registered : DueAfter(s, k)[n] = StillTold(q, n, d[n])
    BY <1>1, <1>2, <1>3
  <2>3. \A n \in Nodes \ Registered : DueAfter(s, k)[n] = s.due[n]
    BY <1>1, <1>2, <1>3
  <2>4. \A n \in Registered : StillTold(q, n, d[n]) \in Nat /\ StillTold(q, n, d[n]) <= Left(q, n)
    <3> HIDE DEF d
    <3> QED BY <1>1, <2>1, StillToldIs
  <2>5. DueAfter(s, k) \in [Nodes -> Nat]
    <3> HIDE DEF d, fits
    <3> QED BY <1>1, <1>2, <1>3, <2>1, <2>4
  <2> QED BY <2>2, <2>3, <2>4, <2>5 DEF Debts, q
<1>4. CASE fits
  <2>1. DueAfter(s, k) = d
    BY <1>2, <1>4
  <2>2. SUFFICES ASSUME Debts(s)
                 PROVE  /\ \A n \in Registered : d[n] <= Left(q, n)
                        /\ \A n \in Nodes \ Registered : d[n] = 0
    BY <1>1, <2>1 DEF q
  <2>3. \A n \in Nodes \ Registered : d[n] = 0
    BY <1>1, <2>2 DEF Debts
  <2>4. ASSUME NEW n \in Registered PROVE d[n] <= Left(q, n)
    <3>1. Copies(q, reg[n].key) = Copies(s.notify, reg[n].key) + (IF k = reg[n].key THEN m ELSE 0)
      BY <1>1, <1>4, Key, PushTimesCopies DEF q, NotifyAfter
    <3>2. Left(q, n) = Left(s.notify, n) + (IF k = reg[n].key THEN m ELSE 0)
      BY <1>1, <3>1, CopiesAre DEF Left, Ahead
    <3>3. s.due[n] <= Left(s.notify, n) /\ Left(s.notify, n) \in Nat /\ s.due[n] \in Nat
      BY <1>1, <2>2, <2>4, StillToldIs DEF Debts
    <3>4. n \in Matching(k) <=> k = reg[n].key
      BY <2>4 DEF Matching
    <3>5. m \in Nat /\ (n \in Matching(k) => m >= 1)
      BY <1>1, MatchingSize
    <3>6. d[n] = IF k = reg[n].key THEN s.due[n] + 1 ELSE s.due[n]
      BY <1>1, <2>4, <3>4
    <3> HIDE DEF d, m
    <3> QED BY <3>2, <3>3, <3>4, <3>5, <3>6
  <2> QED BY <2>3, <2>4
<1> QED BY <1>3, <1>4

\* One key of a poll.
LEMMA PushKeyKeeps ==
  ASSUME Types, NEW s \in Console, Contents(s.notify) \in Seq(Keys), NEW k \in AnyKey
  PROVE  /\ PushKey(s, k) \in Console /\ Contents(PushKey(s, k).notify) \in Seq(Keys)
         /\ PushKey(s, k).queue = IF k = Partial /\ ~partial THEN s.queue ELSE Push(s.queue, k)
         /\ Debts(s) => Debts(PushKey(s, k))
         /\ list = << >> => /\ PushKey(s, k).notify = s.notify
                            /\ PushKey(s, k).pending = s.pending
<1>1. CASE k = Partial /\ ~partial
  BY <1>1 DEF PushKey
<1>2. CASE ~(k = Partial /\ ~partial)
  <2> DEFINE m == Cardinality(Matching(k))
             t == PushKey(s, k)
  <2>1. t = [queue   |-> Push(s.queue, k),
             notify  |-> NotifyAfter(s, k),
             pending |-> s.pending \/ m > 0,
             due     |-> DueAfter(s, k)]
    BY <1>2, PushKeyIs
  <2>2. /\ t.queue = Push(s.queue, k) /\ t.notify = NotifyAfter(s, k)
        /\ t.due = DueAfter(s, k) /\ t.pending = (s.pending \/ m > 0)
    BY <2>1
  <2>3. s.queue \in Queue /\ s.pending \in BOOLEAN /\ k \in Item
    BY Key DEF Console
  <2>4. Push(s.queue, k) \in Queue
    BY <2>3, PushIs
  <2>5. t \in Console
    BY <2>1, <2>3, <2>4, NotifyAfterIs, DueAfterIs DEF Console
  <2>6. ASSUME Debts(s) PROVE Debts(t)
    <3> HIDE DEF t
    <3> QED BY <2>2, <2>6, DueAfterIs DEF Debts
  <2>7. ASSUME list = << >> PROVE t.notify = s.notify /\ t.pending = s.pending
    <3>1. m = 0 /\ NotifyAfter(s, k) = s.notify
      BY <2>7, NobodyMatches, NotifyAfterIs
    <3>2. ~(m > 0)
      BY <3>1
    <3> QED BY <2>2, <2>3, <3>1, <3>2
  <2> HIDE DEF t
  <2>8. t \in Console /\ Contents(t.notify) \in Seq(Keys) /\ t.queue = Push(s.queue, k)
    BY <2>2, <2>5, NotifyAfterIs
  <2> QED BY <1>2, <2>6, <2>7, <2>8 DEF t
<1> QED BY <1>1, <1>2

\* r has the states of the console between the keys of b.
PollSteps(r, b) ==
  /\ r[0] = Present /\ r[Len(b)] = Polled(b)
  /\ \A i \in 1 .. Len(b) : r[i] = PushKey(r[i - 1], b[i])

LEMMA PolledSteps ==
  ASSUME NEW T, NEW b \in Seq(T)
  PROVE  \E r : PollSteps(r, b)
<1> DEFINE m == Len(b)
           Step(f, n) == f = [i \in 0 .. n |-> IF i = 0 THEN Present
                                               ELSE PushKey(f[i - 1], b[i])]
           E == {n \in 0 .. m : \E f : Step(f, n)}
           r == CHOOSE f : Step(f, m)
<1>m. m \in Nat
  BY LenProperties
<1> HIDE DEF m
<1>1. 0 \in E
  <2>1. Step([i \in 0 .. 0 |-> Present], 0)
    OBVIOUS
  <2> HIDE DEF Step
  <2> QED BY <2>1, <1>m
<1>2. ASSUME NEW n \in 1 .. m, n - 1 \in E PROVE n \in E
  <2>0. \E f : Step(f, n - 1)
    BY <1>2
  <2>1. PICK f : Step(f, n - 1)
    BY <2>0
  <2>2. Step([i \in 0 .. n |-> IF i = n THEN PushKey(f[n - 1], b[n]) ELSE f[i]], n)
    BY <2>1, <1>m
  <2> HIDE DEF Step
  <2> QED BY <2>2
<1>3. \E f : Step(f, m)
  <2>1. 0 .. m \subseteq E
    <3> HIDE DEF E
    <3> QED BY <1>1, <1>2, <1>m, UpTo
  <2> HIDE DEF Step
  <2> QED BY <2>1, <1>m
<1>4. Step(r, m)
  <2> HIDE DEF Step
  <2> QED BY <1>3
<1>5. Polled(b) = r[m]
  BY DEF Polled, m, Present
<1> HIDE DEF r
<1>6. r[0] = Present /\ \A i \in 1 .. m : r[i] = PushKey(r[i - 1], b[i])
  BY <1>4, <1>m
<1> QED BY <1>5, <1>6 DEF PollSteps, m

LEMMA PolledKeeps ==
  ASSUME Types, Contents(notify) \in Seq(Keys), NEW b \in Seq(AnyKey)
  PROVE  /\ Polled(b) \in Console /\ Contents(Polled(b).notify) \in Seq(Keys)
         /\ Debts(Present) => Debts(Polled(b))
         /\ list = << >> => Polled(b).notify = notify /\ Polled(b).pending = pending
<1>0. PICK r : PollSteps(r, b)
  BY PolledSteps
<1>1. /\ r[0] = Present /\ r[Len(b)] = Polled(b)
      /\ \A i \in 1 .. Len(b) : r[i] = PushKey(r[i - 1], b[i])
  BY <1>0 DEF PollSteps
<1>2. Len(b) \in Nat /\ \A i \in 1 .. Len(b) : b[i] \in AnyKey
  BY LenProperties, ElementOfSeq
<1> DEFINE Kept(s) == /\ s \in Console /\ Contents(s.notify) \in Seq(Keys)
                      /\ Debts(Present) => Debts(s)
                      /\ list = << >> => s.notify = notify /\ s.pending = pending
           P == {i \in 0 .. Len(b) : Kept(r[i])}
<1>3. Kept(Present)
  BY DEF Present, Console, Types
<1>4. ASSUME NEW s, Kept(s), NEW k \in AnyKey PROVE Kept(PushKey(s, k))
  BY <1>4, PushKeyKeeps
<1> HIDE DEF Kept
<1>5. 0 \in P
  BY <1>1, <1>2, <1>3
<1>6. ASSUME NEW i \in 1 .. Len(b), i - 1 \in P PROVE i \in P
  BY <1>1, <1>2, <1>4, <1>6
<1>7. 0 .. Len(b) \subseteq P
  <2> HIDE DEF P
  <2> QED BY <1>2, <1>5, <1>6, UpTo
<1>8. Kept(Polled(b))
  BY <1>1, <1>2, <1>7
<1> QED BY <1>8 DEF Kept

-------------------------------------------------------------------------------
(* The ring as a buffer of the latest keys                                 *)

Capacity == QueueSize - 1

LEMMA LatestIs ==
  ASSUME NEW T, NEW s \in Seq(T)
  PROVE  /\ Buffer!Latest(s) \in Seq(T)
         /\ Len(Buffer!Latest(s)) = IF Len(s) <= Capacity THEN Len(s) ELSE Capacity
         /\ \A i \in 1 .. Len(Buffer!Latest(s)) :
              Buffer!Latest(s)[i] = s[Len(s) - Len(Buffer!Latest(s)) + i]
<1>1. Len(s) \in Nat /\ Capacity \in Nat
  BY LenProperties, Size DEF Capacity
<1>2. CASE Len(s) <= Capacity
  <2>1. Buffer!Latest(s) = s
    BY <1>2 DEF Buffer!Latest, Capacity
  <2> QED BY <1>1, <1>2, <2>1
<1>3. CASE ~(Len(s) <= Capacity)
  <2> DEFINE m == Len(s) - Capacity + 1
  <2>1. Buffer!Latest(s) = SubSeq(s, m, Len(s))
    BY <1>3 DEF Buffer!Latest, Capacity
  <2>2. m \in Int /\ m <= Len(s) + 1 /\ m >= 1 /\ Len(s) - m + 1 = Capacity
    BY <1>1, <1>3
  <2>3. \A i \in m .. Len(s) : s[i] \in T
    BY <1>1, <2>2, ElementOfSeq
  <2>4. /\ SubSeq(s, m, Len(s)) \in Seq(T)
        /\ Len(SubSeq(s, m, Len(s))) = IF m <= Len(s) THEN Len(s) - m + 1 ELSE 0
        /\ \A i \in 1 .. Len(s) - m + 1 : SubSeq(s, m, Len(s))[i] = s[m + i - 1]
    <3> HIDE DEF m
    <3> QED BY <1>1, <2>2, <2>3, SubSeqProperties
  <2>5. Len(SubSeq(s, m, Len(s))) = Capacity
    BY <1>1, <2>2, <2>4
  <2>6. \A i \in 1 .. Capacity : SubSeq(s, m, Len(s))[i] = s[Len(s) - Capacity + i]
    <3>1. \A i \in 1 .. Capacity : m + i - 1 = Len(s) - Capacity + i
      BY <1>1
    <3> HIDE DEF m
    <3> QED BY <2>2, <2>4, <3>1
  <2> QED BY <1>3, <2>1, <2>4, <2>5, <2>6
<1> QED BY <1>2, <1>3

\* Which keys are kept does not depend on when the others are dropped.
LEMMA LatestOfMore ==
  ASSUME NEW T, NEW s \in Seq(T), NEW k \in T
  PROVE  Buffer!Latest(Append(Buffer!Latest(s), k)) = Buffer!Latest(Append(s, k))
<1> DEFINE a == Buffer!Latest(s)
           x == Append(a, k)
           y == Append(s, k)
           u == Buffer!Latest(x)
           v == Buffer!Latest(y)
<1>0. Len(s) \in Nat /\ Capacity \in Nat /\ Capacity > 0
  BY LenProperties, Size DEF Capacity
<1>1. /\ a \in Seq(T) /\ Len(a) = (IF Len(s) <= Capacity THEN Len(s) ELSE Capacity)
      /\ \A i \in 1 .. Len(a) : a[i] = s[Len(s) - Len(a) + i]
  BY LatestIs
<1> HIDE DEF a
<1>2. /\ x \in Seq(T) /\ Len(x) = Len(a) + 1 /\ x[Len(a) + 1] = k
      /\ \A i \in 1 .. Len(a) : x[i] = a[i]
  BY <1>1, AppendProperties
<1>3. /\ y \in Seq(T) /\ Len(y) = Len(s) + 1 /\ y[Len(s) + 1] = k
      /\ \A i \in 1 .. Len(s) : y[i] = s[i]
  BY AppendProperties
<1> HIDE DEF x, y
<1>4. /\ u \in Seq(T) /\ Len(u) = (IF Len(x) <= Capacity THEN Len(x) ELSE Capacity)
      /\ \A i \in 1 .. Len(u) : u[i] = x[Len(x) - Len(u) + i]
  BY <1>2, LatestIs
<1>5. /\ v \in Seq(T) /\ Len(v) = (IF Len(y) <= Capacity THEN Len(y) ELSE Capacity)
      /\ \A i \in 1 .. Len(v) : v[i] = y[Len(y) - Len(v) + i]
  BY <1>3, LatestIs
<1> HIDE DEF u, v
<1>6. Len(u) = Len(v) /\ Len(a) \in Nat /\ Len(u) \in Nat /\ Len(a) <= Len(s)
  BY <1>0, <1>1, <1>2, <1>3, <1>4, <1>5
<1>7. ASSUME NEW i \in 1 .. Len(u) PROVE u[i] = v[i]
  <2> DEFINE e == Len(a) + 1 - Len(u) + i
             f == Len(s) + 1 - Len(u) + i
  <2>1. u[i] = x[e] /\ v[i] = y[f]
    <3>1. Len(x) = Len(a) + 1 /\ Len(y) = Len(s) + 1
      BY <1>2, <1>3
    <3>2. u[i] = x[Len(x) - Len(u) + i] /\ v[i] = y[Len(y) - Len(v) + i]
      BY <1>4, <1>5, <1>6
    <3> QED BY <1>6, <3>1, <3>2
  <2>2. /\ e \in 1 .. Len(a) + 1 /\ f \in 1 .. Len(s) + 1
        /\ f = Len(s) - Len(a) + e
    <3>1. /\ Len(u) = (IF Len(a) + 1 <= Capacity THEN Len(a) + 1 ELSE Capacity)
          /\ i \in 1 .. Len(u) /\ Len(u) = Len(v)
          /\ Len(s) \in Nat /\ Len(a) \in Nat /\ Len(u) \in Nat /\ Len(a) <= Len(s)
          /\ Capacity \in Nat
      BY <1>0, <1>2, <1>4, <1>6
    <3>2. Len(u) <= Len(a) + 1
      BY <3>1
    <3>3. e \in 1 .. Len(a) + 1
      BY <3>1, <3>2
    <3>4. f = Len(s) - Len(a) + e
      BY <3>1
    <3> HIDE DEF e, f
    <3>5. f \in 1 .. Len(s) + 1
      BY <3>1, <3>3, <3>4
    <3> QED BY <3>3, <3>4, <3>5
  <2> HIDE DEF e, f
  <2>3. CASE e = Len(a) + 1
    <3>1. f = Len(s) + 1
      BY <1>0, <1>6, <2>2, <2>3
    <3> QED BY <1>2, <1>3, <2>1, <2>3, <3>1
  <2>4. CASE e # Len(a) + 1
    <3>1. e \in 1 .. Len(a) /\ f \in 1 .. Len(s)
      BY <1>0, <1>6, <2>2, <2>4
    <3> QED BY <1>1, <1>2, <1>3, <2>1, <2>2, <3>1
  <2> QED BY <2>3, <2>4
<1>8. u = v
  BY <1>4, <1>5, <1>6, <1>7, SeqEqual
<1> QED BY <1>8 DEF a, x, y, u, v

LEMMA PushLatest ==
  ASSUME NEW q \in Queue, NEW k \in Item
  PROVE  Contents(Push(q, k)) = Buffer!Latest(Append(Contents(q), k))
<1> DEFINE c == Contents(q)
           x == Append(c, k)
<1>1. /\ c \in Seq(Item) /\ Len(c) = Length(q) /\ Length(q) \in Nat
      /\ Length(q) <= Capacity /\ Capacity \in Nat \ {0}
  BY ContentsAre, Size DEF Capacity
<1>2. x \in Seq(Item) /\ Len(x) = Length(q) + 1 /\ x # << >>
  BY <1>1, AppendProperties
<1>3. CASE Length(q) < Capacity
  <2>1. Buffer!Latest(x) = x
    <3>1. Len(x) <= QueueSize - 1
      BY <1>1, <1>2, <1>3 DEF Capacity
    <3> QED BY <3>1 DEF Buffer!Latest
  <2> QED BY <1>3, <2>1, PushIs DEF Capacity
<1>4. CASE ~(Length(q) < Capacity)
  <2>1. Len(x) = Capacity + 1 /\ c # << >>
    BY <1>1, <1>2, <1>4, EmptySeq
  <2>2. Buffer!Latest(x) = SubSeq(x, 2, Len(x))
    <3>1. ~(Len(x) <= QueueSize - 1) /\ Len(x) - (QueueSize - 1) + 1 = 2
      BY <1>1, <2>1, Size DEF Capacity
    <3> QED BY <3>1 DEF Buffer!Latest
  <2>3. Tail(x) = SubSeq(x, 2, Len(x)) /\ Tail(x) = Append(Tail(c), k)
    BY <1>1, <1>2, <2>1, TailIsSubSeq, HeadTailAppend
  <2> QED BY <1>4, <2>2, <2>3, PushIs DEF Capacity
<1> QED BY <1>3, <1>4

\* w has what is kept of the first keys of b: without the partial ones, unless
\* somebody asked for those.
KeptSteps(w, b) ==
  /\ w[0] = << >>
  /\ \A i \in 1 .. Len(b) :
       w[i] = IF b[i] = Partial /\ ~partial THEN w[i - 1] ELSE Append(w[i - 1], b[i])

LEMMA PolledQueue ==
  ASSUME Types, Contents(notify) \in Seq(Keys), NEW b \in Seq(AnyKey), NEW w, KeptSteps(w, b)
  PROVE  /\ w[Len(b)] \in Seq(Item)
         /\ Contents(Polled(b).queue) = Buffer!Latest(Contents(queue) \o w[Len(b)])
<1> DEFINE c == Contents(queue)
<1>0. PICK r : PollSteps(r, b)
  BY PolledSteps
<1>1. /\ r[0] = Present /\ r[Len(b)] = Polled(b)
      /\ \A i \in 1 .. Len(b) : r[i] = PushKey(r[i - 1], b[i])
  BY <1>0 DEF PollSteps
<1>2. Len(b) \in Nat /\ \A i \in 1 .. Len(b) : b[i] \in AnyKey
  BY LenProperties, ElementOfSeq
<1>3. c \in Seq(Item) /\ Len(c) <= Capacity
  BY ContentsAre DEF Types, Capacity
<1> DEFINE Kept(s, v) == /\ s \in Console /\ Contents(s.notify) \in Seq(Keys)
                         /\ v \in Seq(Item) /\ Contents(s.queue) = Buffer!Latest(c \o v)
           P == {i \in 0 .. Len(b) : Kept(r[i], w[i])}
<1>4. Kept(Present, << >>)
  <2>1. c \o << >> = c /\ << >> \in Seq(Item)
    BY <1>3, ConcatEmptySeq, EmptySeq
  <2>2. Buffer!Latest(c) = c
    BY <1>3 DEF Buffer!Latest, Capacity
  <2> QED BY <2>1, <2>2 DEF Present, Console, Types
<1>5. ASSUME NEW s, NEW v, Kept(s, v), NEW k \in AnyKey
      PROVE  Kept(PushKey(s, k), IF k = Partial /\ ~partial THEN v ELSE Append(v, k))
  <2>1. /\ PushKey(s, k) \in Console /\ Contents(PushKey(s, k).notify) \in Seq(Keys)
        /\ PushKey(s, k).queue = IF k = Partial /\ ~partial THEN s.queue ELSE Push(s.queue, k)
    BY <1>5, PushKeyKeeps
  <2>2. CASE k = Partial /\ ~partial
    BY <1>5, <2>1, <2>2
  <2>3. CASE ~(k = Partial /\ ~partial)
    <3>1. k \in Item /\ s.queue \in Queue /\ v \in Seq(Item)
      BY <1>5, Key DEF Console
    <3>2. c \o v \in Seq(Item) /\ Append(v, k) \in Seq(Item) /\ <<k>> \in Seq(Item)
      BY <1>3, <3>1, ConcatProperties, AppendProperties
    <3>3. Append(c \o v, k) = c \o Append(v, k)
      <4>1. Append(c \o v, k) = (c \o v) \o <<k>> /\ Append(v, k) = v \o <<k>>
        BY <3>1, <3>2, AppendIsConcat
      <4>2. (c \o v) \o <<k>> = c \o (v \o <<k>>)
        BY <1>3, <3>1, <3>2, ConcatAssociative
      <4> QED BY <4>1, <4>2
    <3>4. Contents(Push(s.queue, k)) = Buffer!Latest(Append(Contents(s.queue), k))
      BY <3>1, PushLatest
    <3>5. Contents(s.queue) = Buffer!Latest(c \o v)
      BY <1>5
    <3>6. Contents(Push(s.queue, k)) = Buffer!Latest(c \o Append(v, k))
      <4> HIDE DEF c
      <4>1. Buffer!Latest(Append(Buffer!Latest(c \o v), k)) = Buffer!Latest(Append(c \o v, k))
        BY <3>1, <3>2, LatestOfMore
      <4> QED BY <3>3, <3>4, <3>5, <4>1
    <3> QED BY <2>1, <2>3, <3>2, <3>6
  <2> QED BY <2>2, <2>3
<1> HIDE DEF Kept
<1>6. 0 \in P
  BY <1>1, <1>2, <1>4 DEF KeptSteps
<1>7. ASSUME NEW i \in 1 .. Len(b), i - 1 \in P PROVE i \in P
  <2>1. /\ Kept(r[i - 1], w[i - 1]) /\ b[i] \in AnyKey /\ r[i] = PushKey(r[i - 1], b[i])
        /\ w[i] = IF b[i] = Partial /\ ~partial THEN w[i - 1] ELSE Append(w[i - 1], b[i])
    BY <1>1, <1>2, <1>7 DEF KeptSteps
  <2> QED BY <1>2, <1>5, <2>1
<1>8. 0 .. Len(b) \subseteq P
  <2> HIDE DEF P
  <2> QED BY <1>2, <1>6, <1>7, UpTo
<1>9. Kept(Polled(b), w[Len(b)])
  BY <1>1, <1>2, <1>8
<1> QED BY <1>9 DEF Kept

\* c has the beginnings of b without their partial keys.
CompleteSteps(c, b) ==
  /\ c[0] = << >> /\ c[Len(b)] = Buffer!Complete(b)
  /\ \A i \in 1 .. Len(b) :
       c[i] = IF b[i] = Partial THEN c[i - 1] ELSE Append(c[i - 1], b[i])

LEMMA CompleteIs ==
  ASSUME NEW T, NEW b \in Seq(T)
  PROVE  \E c : CompleteSteps(c, b)
<1> DEFINE m == Len(b)
           More(v, i) == IF b[i] = Partial THEN v ELSE Append(v, b[i])
           Step(f, n) == f = [i \in 0 .. n |-> IF i = 0 THEN << >> ELSE More(f[i - 1], i)]
           E == {n \in 0 .. m : \E f : Step(f, n)}
           c == CHOOSE f : Step(f, m)
<1>m. m \in Nat
  BY LenProperties
<1> HIDE DEF m
<1>1. 0 \in E
  <2>1. Step([i \in 0 .. 0 |-> << >>], 0)
    OBVIOUS
  <2> HIDE DEF Step
  <2> QED BY <2>1, <1>m
<1>2. ASSUME NEW n \in 1 .. m, n - 1 \in E PROVE n \in E
  <2>0. \E f : Step(f, n - 1)
    BY <1>2
  <2>1. PICK f : Step(f, n - 1)
    BY <2>0
  <2> HIDE DEF More
  <2>2. Step([i \in 0 .. n |-> IF i = n THEN More(f[n - 1], n) ELSE f[i]], n)
    BY <2>1, <1>m
  <2> HIDE DEF Step
  <2> QED BY <2>2
<1>3. \E f : Step(f, m)
  <2>1. 0 .. m \subseteq E
    <3> HIDE DEF E
    <3> QED BY <1>1, <1>2, <1>m, UpTo
  <2> HIDE DEF Step
  <2> QED BY <2>1, <1>m
<1>4. Step(c, m)
  <2> HIDE DEF Step
  <2> QED BY <1>3
<1>5. Buffer!Complete(b) = c[m]
  BY DEF Buffer!Complete, m
<1> HIDE DEF c
<1>6. c[0] = << >> /\ \A i \in 1 .. m : c[i] = More(c[i - 1], i)
  <2> HIDE DEF More
  <2> QED BY <1>4, <1>m
<1> QED BY <1>5, <1>6 DEF CompleteSteps, m

\* A poll types its keys on the abstract buffer.
LEMMA PolledTyped ==
  ASSUME Types, Contents(notify) \in Seq(Keys), NEW b \in Seq(AnyKey)
  PROVE  /\ Contents(Polled(b).queue) \in Buffer!Typed(b)
         /\ Contents(Polled(b).queue) \in Seq(Item) /\ Polled(b).queue \in Queue
<1>1. Polled(b).queue \in Queue /\ Contents(Polled(b).queue) \in Seq(Item)
  BY PolledKeeps, ContentsAre DEF Console
<1>2. CASE partial
  <2> DEFINE w == [i \in 0 .. Len(b) |-> SubSeq(b, 1, i)]
  <2>1. Len(b) \in Nat /\ \A i \in 1 .. Len(b) : b[i] \in AnyKey
    BY LenProperties, ElementOfSeq
  <2>2. w[0] = << >>
    BY <2>1, SubSeqEmpty
  <2>3. ASSUME NEW i \in 1 .. Len(b) PROVE w[i] = Append(w[i - 1], b[i])
    <3>1. 1 \in 1 .. Len(b) /\ i \in 1 .. Len(b) /\ i - 1 \in 0 .. Len(b)
      BY <2>1
    <3>2. SubSeq(b, 1, i) = SubSeq(b, 1, i - 1) \o <<b[i]>>
      BY <3>1, SubSeqRecursiveSecond
    <3>3. SubSeq(b, 1, i - 1) \in Seq(AnyKey)
      <4>1. \A j \in 1 .. i - 1 : b[j] \in AnyKey
        BY <2>1, <3>1
      <4> QED BY <4>1, <3>1, SubSeqProperties
    <3>4. Append(SubSeq(b, 1, i - 1), b[i]) = SubSeq(b, 1, i - 1) \o <<b[i]>>
      BY <2>1, <3>3, AppendIsConcat
    <3> QED BY <3>1, <3>2, <3>4
  <2>4. w[Len(b)] = b
    BY <2>1, SubSeqFull
  <2> HIDE DEF w
  <2>5. KeptSteps(w, b)
    BY <1>2, <2>2, <2>3 DEF KeptSteps
  <2>6. Contents(Polled(b).queue) = Buffer!Latest(Contents(queue) \o b)
    BY <2>4, <2>5, PolledQueue
  <2> QED BY <1>1, <2>6 DEF Buffer!Typed
<1>3. CASE ~partial
  <2>1. PICK c : CompleteSteps(c, b)
    BY CompleteIs
  <2>2. KeptSteps(c, b) /\ c[Len(b)] = Buffer!Complete(b)
    BY <1>3, <2>1 DEF CompleteSteps, KeptSteps
  <2>3. Contents(Polled(b).queue) = Buffer!Latest(Contents(queue) \o Buffer!Complete(b))
    BY <2>2, PolledQueue
  <2> QED BY <1>1, <2>3 DEF Buffer!Typed
<1> QED BY <1>2, <1>3

-------------------------------------------------------------------------------
(* The list of registrations                                               *)

ListInv ==
  /\ \A i, j \in 1 .. Len(list) : list[i] = list[j] => i = j
  /\ \A n \in Nodes \ Registered : reg[n] = Unused

LEMMA RegisteredAre ==
  ASSUME Types
  PROVE  /\ Registered \subseteq Nodes /\ Len(list) \in Nat
         /\ \A i \in 1 .. Len(list) : list[i] \in Registered
         /\ \A n : n \in Registered <=> \E i \in 1 .. Len(list) : list[i] = n
<1>1. Len(list) \in Nat /\ DOMAIN list = 1 .. Len(list) /\ \A i \in 1 .. Len(list) : list[i] \in Nodes
  BY LenProperties, ElementOfSeq DEF Types
<1> QED BY <1>1 DEF Registered

LEMMA PlaceIs ==
  ASSUME Types, ListInv
  PROVE  /\ \A n \in Registered : Place(n) \in 1 .. Len(list) /\ list[Place(n)] = n
         /\ \A n : n \notin Registered => Place(n) = Len(list) + 1
         /\ \A i \in 1 .. Len(list) : Place(list[i]) = i
<1>1. DOMAIN list = 1 .. Len(list)
  BY LenProperties DEF Types
<1>2. ASSUME NEW n \in Registered PROVE Place(n) \in 1 .. Len(list) /\ list[Place(n)] = n
  <2>1. \E i \in DOMAIN list : list[i] = n
    BY <1>1, RegisteredAre
  <2>2. Place(n) = CHOOSE i \in DOMAIN list : list[i] = n
    BY <2>1 DEF Place
  <2> QED BY <1>1, <2>1, <2>2
<1>3. ASSUME NEW n, n \notin Registered PROVE Place(n) = Len(list) + 1
  <2>1. ~ \E i \in DOMAIN list : list[i] = n
    BY <1>1, <1>3, RegisteredAre
  <2> QED BY <2>1 DEF Place
<1>4. ASSUME NEW i \in 1 .. Len(list) PROVE Place(list[i]) = i
  <2>1. list[i] \in Registered
    BY RegisteredAre
  <2> QED BY <1>2, <2>1 DEF ListInv
<1> QED BY <1>2, <1>3, <1>4

LEMMA BehindIs ==
  ASSUME Types, ListInv, NEW n \in Nodes, NEW m \in Behind(n)
  PROVE  /\ m \in Nodes \cup {NoNode}
         /\ n \in Registered => (m = NoNode \/ m \in Registered) /\ Place(m) = Place(n) + 1
<1>0. NoNode \notin Registered
  BY RegisteredAre, ConsoleAssumption
<1>1. CASE n \notin Registered
  BY <1>1 DEF Behind
<1>2. CASE n \in Registered /\ Place(n) = Len(list)
  <2>1. m = NoNode
    BY <1>2 DEF Behind
  <2> QED BY <1>0, <1>2, <2>1, PlaceIs
<1>3. CASE n \in Registered /\ Place(n) # Len(list)
  <2>1. m = list[Place(n) + 1]
    BY <1>3 DEF Behind
  <2>2. Place(n) + 1 \in 1 .. Len(list)
    BY <1>3, PlaceIs, RegisteredAre
  <2> QED BY <2>1, <2>2, PlaceIs, RegisteredAre
<1> QED BY <1>1, <1>2, <1>3

\* Another registration is behind all others, ...
LEMMA Appended ==
  ASSUME Types, ListInv, NEW n \in Nodes \ Registered, list' = Append(list, n)
  PROVE  /\ list' \in Seq(Nodes) /\ Registered' = Registered \cup {n}
         /\ \A i, j \in 1 .. Len(list') : list'[i] = list'[j] => i = j
<1>1. /\ list' \in Seq(Nodes) /\ Len(list') = Len(list) + 1 /\ list'[Len(list) + 1] = n
      /\ \A i \in 1 .. Len(list) : list'[i] = list[i]
  BY AppendProperties DEF Types
<1>2. DOMAIN list' = 1 .. Len(list) + 1
  BY <1>1, LenProperties
<1>3. Len(list) \in Nat /\ \A i \in 1 .. Len(list) : list[i] \in Registered
  BY RegisteredAre
<1>4. Registered' = Registered \cup {n}
  <2>1. \A m \in Nodes : m \in Registered <=> \E i \in 1 .. Len(list) : list[i] = m
    BY RegisteredAre
  <2>2. \A m \in Nodes : m \in Registered' <=> \E i \in 1 .. Len(list) + 1 : list'[i] = m
    BY <1>2 DEF Registered
  <2>3. Registered' \subseteq Nodes /\ Registered \subseteq Nodes
    BY DEF Registered
  <2>4. \A m \in Nodes : m \in Registered' <=> m \in Registered \/ m = n
    BY <1>1, <1>3, <2>1, <2>2
  <2> QED BY <2>3, <2>4
<1>5. ASSUME NEW i \in 1 .. Len(list'), NEW j \in 1 .. Len(list'), list'[i] = list'[j]
      PROVE  i = j
  <2>1. \A k \in 1 .. Len(list) : list'[k] # n
    BY <1>1, <1>3
  <2>2. /\ i \in 1 .. Len(list) \/ i = Len(list) + 1
        /\ j \in 1 .. Len(list) \/ j = Len(list) + 1
    BY <1>1, <1>3
  <2> QED BY <1>1, <1>5, <2>1, <2>2 DEF ListInv
<1> QED BY <1>1, <1>4, <1>5

\* ... and one that is removed leaves the others in their order.
LEMMA Removed ==
  ASSUME Types, ListInv, NEW n \in Registered, list' = RemoveAt(list, Place(n))
  PROVE  /\ list' \in Seq(Nodes) /\ Registered' = Registered \ {n}
         /\ \A i, j \in 1 .. Len(list') : list'[i] = list'[j] => i = j
         /\ \A m \in Registered \ {n} :
              \E i \in 1 .. Len(list') :
                list'[i] = m /\ Place(m) = IF i < Place(n) THEN i ELSE i + 1
<1> DEFINE p == Place(n)
<1>0. p \in 1 .. Len(list) /\ Len(list) \in Nat /\ list[p] = n
  BY PlaceIs, RegisteredAre
<1> HIDE DEF p
<1>1. /\ list' \in Seq(Nodes) /\ Len(list') = Len(list) - 1
      /\ \A j \in 1 .. Len(list) - 1 : list'[j] = IF j < p THEN list[j] ELSE list[j + 1]
  BY <1>0, RemoveAtProperties DEF Types, p
<1>2. DOMAIN list' = 1 .. Len(list) - 1
  BY <1>1, LenProperties
<1> DEFINE Old(i) == IF i < p THEN i ELSE i + 1
<1>3. ASSUME NEW i \in 1 .. Len(list')
      PROVE  Old(i) \in 1 .. Len(list) /\ Old(i) # p /\ list'[i] = list[Old(i)]
  BY <1>0, <1>1
<1>4. ASSUME NEW m \in Registered, m # n
      PROVE  \E i \in 1 .. Len(list') : list'[i] = m /\ Place(m) = Old(i)
  <2>1. Place(m) \in 1 .. Len(list) /\ list[Place(m)] = m
    BY PlaceIs
  <2>2. Place(m) # p
    BY <1>0, <1>4, <2>1
  <2>3. CASE Place(m) < p
    <3>1. Place(m) \in 1 .. Len(list') /\ Old(Place(m)) = Place(m)
      BY <1>0, <1>1, <2>1, <2>3
    <3> QED BY <1>3, <2>1, <3>1
  <2>4. CASE ~(Place(m) < p)
    <3>1. Place(m) - 1 \in 1 .. Len(list') /\ Old(Place(m) - 1) = Place(m)
      BY <1>0, <1>1, <2>1, <2>2, <2>4
    <3> QED BY <1>3, <2>1, <3>1
  <2> QED BY <2>3, <2>4
<1>5. ASSUME NEW i \in 1 .. Len(list'), NEW j \in 1 .. Len(list'), list'[i] = list'[j]
      PROVE  i = j
  <2>1. Old(i) = Old(j)
    BY <1>3, <1>5 DEF ListInv
  <2> QED BY <1>0, <1>1, <2>1
<1>6. Registered' = Registered \ {n}
  <2>1. Registered' \subseteq Nodes /\ Registered \subseteq Nodes
    BY DEF Registered
  <2>2. \A m \in Nodes : m \in Registered' <=> \E i \in 1 .. Len(list') : list'[i] = m
    BY <1>1, <1>2 DEF Registered
  <2>3. ASSUME NEW m \in Registered' PROVE m \in Registered \ {n}
    <3>1. PICK i \in 1 .. Len(list') : list'[i] = m
      BY <2>1, <2>2, <2>3
    <3>2. Old(i) \in 1 .. Len(list) /\ Old(i) # p /\ list[Old(i)] = m
      BY <1>3, <3>1
    <3> HIDE DEF Old
    <3> QED BY <1>0, <3>2, RegisteredAre DEF ListInv
  <2>4. ASSUME NEW m \in Registered \ {n} PROVE m \in Registered'
    BY <1>4, <2>1, <2>2
  <2> QED BY <2>3, <2>4
<1> QED BY <1>1, <1>4, <1>5, <1>6 DEF p

-------------------------------------------------------------------------------
(* The invariant that holds whatever functions do                          *)

HandlerInv ==
  /\ handler \in {"walk", "call"} => hand \in Keys
  /\ handler = "call" => link \in Nodes
  /\ phase # "running" => list = << >> /\ NoWalk

Base == Types /\ ListInv /\ Contents(notify) \in Seq(Keys) /\ HandlerInv

\* The part of it that calls may change.
CallInv ==
  /\ partial \in BOOLEAN /\ queue \in Queue /\ notify \in Queue
  /\ list \in Seq(Nodes) /\ reg \in [Nodes -> Wishes \cup {Unused}]
  /\ pending \in BOOLEAN /\ got \in AnyKey \cup {Nothing} /\ due \in [Nodes -> Nat]
  /\ ListInv /\ Contents(notify) \in Seq(Keys)

LEMMA NothingIsRegistered ==
  ASSUME list = << >> PROVE Registered = {}
  BY EmptySeq DEF Registered

LEMMA BurstType ==
  ASSUME NEW b \in Reported PROVE b \in Bursts /\ b \in Seq(AnyKey)
  BY ConsoleAssumption DEF Reported, AnyKey

LEMMA ReportType ==
  ASSUME Base, NEW b \in Reported
  PROVE  /\ Polled(b) \in Console
         /\ Polled(b).queue \in Queue /\ Polled(b).notify \in Queue
         /\ Polled(b).pending \in BOOLEAN /\ Polled(b).due \in [Nodes -> Nat]
         /\ Contents(Polled(b).notify) \in Seq(Keys)
         /\ Debts(Present) => Debts(Polled(b))
         /\ list = << >> => Polled(b).pending = pending
<1>1. b \in Seq(AnyKey)
  BY BurstType
<1>2. Polled(b) \in Console
  BY <1>1, PolledKeeps DEF Base
<1> QED BY <1>1, <1>2, PolledKeeps DEF Base, Console

LEMMA SameList ==
  ASSUME ListInv, UNCHANGED <<list, reg>>
  PROVE  ListInv' /\ Registered' = Registered
  BY DEF ListInv, Registered

LEMMA ReadType ==
  ASSUME Base, ReadKeyStrokeEx PROVE CallInv'
<1>1. PICK b \in Reported :
        /\ IF IsEmpty(Polled(b).queue) THEN queue' = Polled(b).queue /\ got' = Nothing
           ELSE queue' = Pop(Polled(b).queue) /\ got' = HeadOf(Polled(b).queue)
        /\ notify' = Polled(b).notify /\ pending' = Polled(b).pending /\ due' = Polled(b).due
        /\ UNCHANGED <<partial, list, reg>>
  BY DEF ReadKeyStrokeEx
<1>2. queue' \in Queue /\ got' \in AnyKey \cup {Nothing}
  <2>1. CASE IsEmpty(Polled(b).queue)
    BY <1>1, <2>1, ReportType
  <2>2. CASE ~IsEmpty(Polled(b).queue)
    <3>1. Polled(b).queue \in Queue
      BY ReportType
    <3>2. HeadOf(Polled(b).queue) \in AnyKey \cup {Nothing}
      BY <3>1 DEF HeadOf, Queue
    <3> QED BY <1>1, <2>2, <3>1, <3>2, PopIs
  <2> QED BY <2>1, <2>2
<1>3. /\ notify' \in Queue /\ pending' \in BOOLEAN /\ due' \in [Nodes -> Nat]
      /\ Contents(notify') \in Seq(Keys)
  BY <1>1, ReportType
<1>4. ListInv'
  BY <1>1, SameList DEF Base
<1> QED BY <1>1, <1>2, <1>3, <1>4 DEF CallInv, Base, Types

LEMMA WaitType ==
  ASSUME Base, WaitForKey PROVE CallInv'
<1>1. PICK b \in Reported :
        /\ queue' = WithoutPartial(Polled(b).queue)
        /\ notify' = Polled(b).notify /\ pending' = Polled(b).pending /\ due' = Polled(b).due
        /\ UNCHANGED <<partial, list, reg, got>>
  BY DEF WaitForKey
<1>2. queue' \in Queue
  BY <1>1, ReportType, WithoutPartialIs
<1>3. /\ notify' \in Queue /\ pending' \in BOOLEAN /\ due' \in [Nodes -> Nat]
      /\ Contents(notify') \in Seq(Keys)
  BY <1>1, ReportType
<1>4. ListInv'
  BY <1>1, SameList DEF Base
<1> QED BY <1>1, <1>2, <1>3, <1>4 DEF CallInv, Base, Types

LEMMA NewContents == Contents(NewQueue) \in Seq(Keys)
  BY NewIsEmpty, EmptySeq

LEMMA ResetType ==
  ASSUME Base, ResetConsole PROVE CallInv'
<1>1. ListInv'
  BY SameList DEF Base, ResetConsole
<1>2. Contents(notify') \in Seq(Keys) /\ queue' \in Queue /\ notify' \in Queue
  BY NewIsEmpty, NewContents DEF ResetConsole
<1> QED BY <1>1, <1>2 DEF CallInv, Base, Types, ResetConsole

LEMMA RegisterType ==
  ASSUME Base, NEW w \in Wishes, Register(w) PROVE CallInv'
<1>1. CASE (\E n \in Registered : reg[n] = w) \/ Registered = Nodes
  <2>1. UNCHANGED <<partial, rings, list, reg, pending, got, due>>
    BY <1>1 DEF Register
  <2>2. ListInv'
    BY <2>1, SameList DEF Base
  <2> QED BY <2>1, <2>2 DEF CallInv, Base, Types, rings
<1>2. CASE ~((\E n \in Registered : reg[n] = w) \/ Registered = Nodes)
  <2>1. PICK n \in Nodes \ Registered :
          /\ list' = Append(list, n) /\ reg' = [reg EXCEPT ![n] = w]
          /\ UNCHANGED <<partial, rings, pending, got, due>>
    BY <1>2 DEF Register
  <2>2. /\ list' \in Seq(Nodes) /\ Registered' = Registered \cup {n}
        /\ \A i, j \in 1 .. Len(list') : list'[i] = list'[j] => i = j
    BY <2>1, Appended DEF Base
  <2>3. reg' \in [Nodes -> Wishes \cup {Unused}]
    BY <2>1 DEF Base, Types
  <2>4. \A m \in Nodes \ Registered' : reg'[m] = Unused
    BY <2>1, <2>2 DEF Base, Types, ListInv
  <2>5. ListInv'
    BY <2>2, <2>4 DEF ListInv
  <2> QED BY <2>1, <2>2, <2>3, <2>5 DEF CallInv, Base, Types, rings
<1> QED BY <1>1, <1>2

LEMMA UnregisterType ==
  ASSUME Base, NEW n, Unregister(n) PROVE CallInv'
<1>1. /\ n \in Registered /\ n \in Nodes
      /\ list' = RemoveAt(list, Place(n))
      /\ reg' = [reg EXCEPT ![n] = Unused] /\ due' = [due EXCEPT ![n] = 0]
      /\ UNCHANGED <<partial, rings, pending, got>>
  BY DEF Unregister, Registered
<1>2. /\ list' \in Seq(Nodes) /\ Registered' = Registered \ {n}
      /\ \A i, j \in 1 .. Len(list') : list'[i] = list'[j] => i = j
  BY <1>1, Removed DEF Base
<1>3. reg' \in [Nodes -> Wishes \cup {Unused}] /\ due' \in [Nodes -> Nat]
  BY <1>1 DEF Base, Types
<1>4. \A m \in Nodes \ Registered' : reg'[m] = Unused
  BY <1>1, <1>2 DEF Base, Types, ListInv
<1>5. ListInv'
  BY <1>2, <1>4 DEF ListInv
<1> QED BY <1>1, <1>2, <1>3, <1>5 DEF CallInv, Base, Types, rings

LEMMA CallType ==
  ASSUME Base, NEW mine, Call(mine) PROVE CallInv'
<1>1. ASSUME NEW e \in BOOLEAN, SetState(e) PROVE CallInv'
  <2>1. ListInv'
    BY <1>1, SameList DEF Base, SetState
  <2> QED BY <1>1, <2>1 DEF CallInv, Base, Types, SetState, rings
<1> QED BY <1>1, ReadType, WaitType, ResetType, RegisterType, UnregisterType DEF Call

LEMMA BaseInit == Init => Base
<1> SUFFICES ASSUME Init PROVE Base
  OBVIOUS
<1>1. Types
  BY NewIsEmpty, EmptySeq DEF Init, Types
<1>2. Registered = {}
  BY NothingIsRegistered DEF Init
<1>3. ListInv
  BY <1>2, EmptySeq DEF Init, ListInv
<1> QED BY <1>1, <1>3, NewContents DEF Init, Base, HandlerInv, NoWalk

LEMMA BaseFreed ==
  ASSUME Base, Freed, phase \in {"stopped", "armed", "running"}, NoWalk, coded' \in BOOLEAN
  PROVE  Base'
<1>1. list' = << >> /\ reg' = [n \in Nodes |-> Unused]
  BY DEF Freed
<1>2. ListInv'
  BY <1>1, EmptySeq DEF ListInv
<1>3. Types'
  BY NewIsEmpty, EmptySeq DEF Base, Types, Freed, walk
<1>4. HandlerInv'
  BY DEF Base, HandlerInv, NoWalk, Freed, walk
<1> QED BY <1>2, <1>3, <1>4, NewContents DEF Base, Freed

\* Steps that leave alone all that calls may change.
LEMMA BaseWalk ==
  ASSUME Base, UNCHANGED <<partial, queue, list, reg>>, notify' \in Queue,
         Contents(notify') \in Seq(Keys), pending' \in BOOLEAN, due' \in [Nodes -> Nat],
         got' = got
  PROVE  CallInv'
<1>1. ListInv'
  BY SameList DEF Base
<1> QED BY <1>1 DEF CallInv, Base, Types

LEMMA BaseStep ==
  ASSUME Base, [Next]_vars PROVE Base'
<1> USE DEF rings, walk, binding
<1>1. CASE Dispatch
  <2>1. CallInv'
    BY <1>1, BaseWalk DEF Base, Types, Dispatch
  <2>2. phase = "running" /\ phase' = phase
    BY <1>1 DEF Base, HandlerInv, NoWalk, Dispatch
  <2> QED BY <1>1, <2>1, <2>2 DEF Base, Types, HandlerInv, CallInv, Dispatch
<1>2. CASE PopKey
  <2>0. phase = "running" /\ phase' = phase
    BY <1>2 DEF Base, HandlerInv, NoWalk, PopKey
  <2>1. CASE IsEmpty(notify)
    <3>1. CallInv'
      BY <1>2, <2>1, BaseWalk DEF Base, Types, PopKey
    <3> QED BY <1>2, <2>0, <2>1, <3>1 DEF Base, Types, HandlerInv, CallInv, PopKey
  <2>2. CASE ~IsEmpty(notify)
    <3>1. /\ hand' = HeadOf(notify) /\ notify' = Pop(notify) /\ handler' = "walk"
          /\ link' = IF list = << >> THEN NoNode ELSE Head(list)
      BY <1>2, <2>2 DEF PopKey
    <3>2. /\ Pop(notify) \in Queue /\ Contents(notify) # << >>
          /\ Contents(Pop(notify)) = Tail(Contents(notify))
          /\ HeadOf(notify) = Head(Contents(notify))
      BY <2>2, PopIs DEF Base, Types
    <3>3. HeadOf(notify) \in Keys /\ Contents(Pop(notify)) \in Seq(Keys)
      BY <3>2, HeadTailProperties DEF Base
    <3>4. link' \in Nodes \cup {NoNode}
      BY <3>1, HeadTailProperties DEF Base, Types
    <3>5. CallInv'
      BY <1>2, <3>1, <3>2, <3>3, BaseWalk DEF Base, Types, PopKey
    <3> QED BY <1>2, <2>0, <3>1, <3>3, <3>4, <3>5 DEF Base, Types, HandlerInv, CallInv, PopKey
  <2> QED BY <2>1, <2>2
<1>3. CASE WalkPast
  <2>1. CallInv'
    BY <1>3, BaseWalk DEF Base, Types, WalkPast
  <2>2. link' \in Nodes \cup {NoNode}
    BY <1>3, BehindIs DEF Base, Types, WalkPast
  <2>3. phase = "running" /\ phase' = phase
    BY <1>3 DEF Base, HandlerInv, NoWalk, WalkPast
  <2> QED BY <1>3, <2>1, <2>2, <2>3 DEF Base, Types, HandlerInv, CallInv, WalkPast
<1>4. CASE CallFunction
  <2>1. link \in Nodes
    BY <1>4 DEF Base, Types, CallFunction
  <2>2. due' \in [Nodes -> Nat]
    BY <1>4, <2>1 DEF Base, Types, CallFunction
  <2>3. CallInv'
    BY <1>4, <2>2, BaseWalk DEF Base, Types, CallFunction
  <2>4. phase = "running" /\ phase' = phase
    BY <1>4 DEF Base, HandlerInv, NoWalk, CallFunction
  <2> QED BY <1>4, <2>1, <2>3, <2>4 DEF Base, Types, HandlerInv, CallInv, CallFunction
<1>5. CASE FunctionReturns
  <2>1. CallInv'
    BY <1>5, BaseWalk DEF Base, Types, FunctionReturns
  <2>2. link' \in Nodes \cup {NoNode}
    BY <1>5, BehindIs DEF Base, HandlerInv, FunctionReturns
  <2>3. phase = "running" /\ phase' = phase
    BY <1>5 DEF Base, HandlerInv, NoWalk, FunctionReturns
  <2> QED BY <1>5, <2>1, <2>2, <2>3 DEF Base, Types, HandlerInv, CallInv, FunctionReturns
<1>6. CASE EndOfList
  <2>1. CallInv'
    BY <1>6, BaseWalk DEF Base, Types, EndOfList
  <2>2. phase = "running" /\ phase' = phase
    BY <1>6 DEF Base, HandlerInv, NoWalk, EndOfList
  <2> QED BY <1>6, <2>1, <2>2 DEF Base, Types, HandlerInv, CallInv, EndOfList
<1>7. CASE FunctionCalls
  <2>1. PICK mine : Call(mine)
    BY <1>7 DEF FunctionCalls
  <2>2. CallInv'
    BY <2>1, CallType
  <2>3. phase = "running" /\ phase' = phase
    BY <1>7 DEF Base, HandlerInv, NoWalk, FunctionCalls
  <2> QED BY <1>7, <2>2, <2>3 DEF Base, Types, HandlerInv, CallInv, FunctionCalls
<1>8. CASE Tick
  <2>1. PICK b \in Reported : /\ queue' = Polled(b).queue /\ notify' = Polled(b).notify
                              /\ pending' = Polled(b).pending /\ due' = Polled(b).due
    BY <1>8 DEF Tick
  <2>2. /\ queue' \in Queue /\ notify' \in Queue /\ pending' \in BOOLEAN
        /\ due' \in [Nodes -> Nat] /\ Contents(notify') \in Seq(Keys)
        /\ list = << >> => pending' = pending
    BY <2>1, ReportType
  <2>3. UNCHANGED <<phase, ticking, coded, partial, list, reg, handler, hand, link, acted, reading, got>>
    BY <1>8 DEF Tick
  <2>4. ListInv'
    BY <2>3, SameList DEF Base
  <2>5. Types'
    BY <2>2, <2>3 DEF Base, Types
  <2>6. HandlerInv'
    BY <2>2, <2>3 DEF Base, HandlerInv, NoWalk
  <2> QED BY <2>2, <2>4, <2>5, <2>6 DEF Base
<1>9. CASE AppCall
  <2>1. CallInv'
    BY <1>9, CallType DEF AppCall
  <2> QED BY <1>9, <2>1 DEF Base, Types, HandlerInv, CallInv, AppCall, NoWalk
<1>10. CASE ReadKeyStroke
  <2>1. CallInv'
    BY <1>10, ReadType DEF ReadKeyStroke
  <2> QED BY <1>10, <2>1 DEF Base, Types, HandlerInv, CallInv, ReadKeyStroke, NoWalk
<1>11. CASE Start
  <2>1. ListInv'
    BY <1>11, SameList DEF Base, Start
  <2>2. Types'
    BY <1>11, NewIsEmpty DEF Base, Types, Start
  <2>3. HandlerInv'
    BY <1>11 DEF Base, HandlerInv, NoWalk, Start
  <2> QED BY <1>11, <2>1, <2>2, <2>3, NewContents DEF Base, Start
<1>12. CASE FinishStart
  <2>1. CallInv'
    BY <1>12, ResetType DEF FinishStart
  <2> QED BY <1>12, <2>1 DEF Base, Types, HandlerInv, CallInv, FinishStart
<1>13. CASE FailStart
  <2>1. NoWalk /\ coded' \in BOOLEAN
    BY <1>13 DEF Base, HandlerInv, Types, FailStart
  <2> QED BY <1>13, <2>1, BaseFreed DEF Base, Types, FailStart
<1>14. CASE Stop
  <2>1. CASE Freed
    BY <1>14, <2>1, BaseFreed DEF Base, Types, Stop
  <2>2. CASE ticking' = FALSE /\ UNCHANGED <<phase, partial, rings, list, reg, pending, walk,
                                            reading, got, due>>
    <3>1. ListInv'
      BY <2>2, SameList DEF Base
    <3> QED BY <1>14, <2>2, <3>1 DEF Base, Types, HandlerInv, NoWalk, Stop
  <2> QED BY <1>14, <2>1, <2>2 DEF Stop
<1>15. CASE UNCHANGED vars
  <2>1. ListInv'
    BY <1>15, SameList DEF Base, vars
  <2> QED BY <1>15, <2>1 DEF Base, Types, HandlerInv, NoWalk, vars
<1> QED BY <1>1, <1>2, <1>3, <1>4, <1>5, <1>6, <1>7, <1>8, <1>9, <1>10, <1>11, <1>12, <1>13,
           <1>14, <1>15 DEF Next, Handler

-------------------------------------------------------------------------------
(* The console implements the buffer                                       *)

LEMMA ReadImplements ==
  ASSUME Base, ReadKeyStrokeEx PROVE Buffer!Read
<1>1. PICK b \in Reported :
        IF IsEmpty(Polled(b).queue) THEN queue' = Polled(b).queue /\ got' = Nothing
        ELSE queue' = Pop(Polled(b).queue) /\ got' = HeadOf(Polled(b).queue)
  BY DEF ReadKeyStrokeEx
<1> DEFINE q == Polled(b).queue
<1>2. q \in Queue /\ Contents(q) \in Buffer!Typed(b) /\ b \in Bursts
  BY BurstType, PolledTyped DEF Base
<1> HIDE DEF q
<1>3. CASE IsEmpty(q)
  <2>1. Contents(q) = << >> /\ Contents(queue') = << >> /\ got' = Nothing
    BY <1>1, <1>2, <1>3, EmptyOrFull DEF q
  <2> QED BY <1>2, <2>1 DEF Buffer!Read
<1>4. CASE ~IsEmpty(q)
  <2>1. /\ Contents(q) # << >> /\ Contents(queue') = Tail(Contents(q))
        /\ got' = Head(Contents(q))
    BY <1>1, <1>2, <1>4, PopIs DEF q
  <2> QED BY <1>2, <2>1 DEF Buffer!Read
<1> QED BY <1>3, <1>4

LEMMA WaitImplements ==
  ASSUME Base, WaitForKey PROVE Buffer!Await
<1>1. PICK b \in Reported : queue' = WithoutPartial(Polled(b).queue) /\ got' = got
  BY DEF WaitForKey
<1> DEFINE c == Contents(Polled(b).queue)
<1>2. c \in Buffer!Typed(b) /\ Polled(b).queue \in Queue /\ b \in Bursts
  BY BurstType, PolledTyped DEF Base
<1>3. PICK n \in 0 .. Len(c) : /\ \A i \in 1 .. n : c[i] = Partial
                               /\ Contents(queue') = SubSeq(c, n + 1, Len(c))
  BY <1>1, <1>2, WithoutPartialIs
<1> HIDE DEF c
<1> QED BY <1>1, <1>2, <1>3 DEF Buffer!Await

LEMMA ClearImplements ==
  ASSUME queue' = NewQueue, got' = got PROVE Buffer!Clear
  BY NewIsEmpty DEF Buffer!Clear

LEMMA CallImplements ==
  ASSUME Base, NEW mine, Call(mine)
  PROVE  Buffer!Next \/ UNCHANGED <<queue, got>>
<1>1. ASSUME ReadKeyStrokeEx PROVE Buffer!Next
  BY <1>1, ReadImplements DEF Buffer!Next
<1>2. ASSUME WaitForKey PROVE Buffer!Next
  BY <1>2, WaitImplements DEF Buffer!Next
<1>3. ASSUME ResetConsole PROVE Buffer!Next
  BY <1>3, ClearImplements DEF ResetConsole, Buffer!Next
<1>4. ASSUME NEW e \in BOOLEAN, SetState(e) PROVE UNCHANGED <<queue, got>>
  BY <1>4 DEF SetState, rings
<1>5. ASSUME NEW w \in Wishes, Register(w) PROVE UNCHANGED <<queue, got>>
  BY <1>5 DEF Register, rings
<1>6. ASSUME NEW n, Unregister(n) PROVE UNCHANGED <<queue, got>>
  BY <1>6 DEF Unregister, rings
<1> QED BY <1>1, <1>2, <1>3, <1>4, <1>5, <1>6 DEF Call

LEMMA StepImplements ==
  ASSUME Base, [Next]_vars
  PROVE  Buffer!Next \/ UNCHANGED <<queue, got>>
<1>1. CASE Handler
  BY <1>1 DEF Handler, Dispatch, PopKey, WalkPast, CallFunction, FunctionReturns, EndOfList, rings
<1>2. CASE FunctionCalls
  <2>1. PICK mine : Call(mine)
    BY <1>2 DEF FunctionCalls
  <2> QED BY <2>1, CallImplements
<1>3. CASE Tick
  <2>1. PICK b \in Reported : queue' = Polled(b).queue /\ got' = got
    BY <1>3 DEF Tick
  <2>2. Contents(queue') \in Buffer!Typed(b) /\ b \in Bursts
    BY <2>1, BurstType, PolledTyped DEF Base
  <2>3. Buffer!Type
    BY <2>1, <2>2 DEF Buffer!Type
  <2> QED BY <2>3 DEF Buffer!Next
<1>4. CASE AppCall
  BY <1>4, CallImplements DEF AppCall
<1>5. CASE ReadKeyStroke
  BY <1>5, ReadImplements DEF ReadKeyStroke, Buffer!Next
<1>6. CASE Start
  BY <1>6, ClearImplements DEF Start, Buffer!Next
<1>7. CASE FinishStart
  BY <1>7, ClearImplements DEF FinishStart, ResetConsole, Buffer!Next
<1>8. CASE FailStart
  BY <1>8, ClearImplements DEF FailStart, Freed, Buffer!Next
<1>9. CASE Stop
  <2>1. CASE Freed
    BY <2>1, ClearImplements DEF Freed, Buffer!Next
  <2> QED BY <1>9, <2>1 DEF Stop, rings
<1>10. CASE UNCHANGED vars
  BY <1>10 DEF vars, rings
<1> QED BY <1>1, <1>2, <1>3, <1>4, <1>5, <1>6, <1>7, <1>8, <1>9, <1>10 DEF Next

(* Readers of the console see a buffer of the latest keys, whatever polls,  *)
(* calls, ticks, starts and stops come in between, and also when a function *)
(* removes its own registration: keys are read in the order they were       *)
(* reported in, and a full ring drops the oldest (PushEfikeyBufTail).       *)
THEOREM BufferImplemented == Spec => ImplementsKeyBuffer
<1>1. Init => Base /\ Buffer!Init
  <2> SUFFICES ASSUME Init PROVE Base /\ Buffer!Init
    OBVIOUS
  <2> QED BY BaseInit, NewIsEmpty DEF Init, Buffer!Init
<1>2. Base /\ [Next]_vars => Base'
  BY BaseStep
<1>3. Base /\ [Next]_vars => [Buffer!Next]_<<Contents(queue), got>>
  <2> SUFFICES ASSUME Base, [Next]_vars
               PROVE  Buffer!Next \/ UNCHANGED <<Contents(queue), got>>
    OBVIOUS
  <2>1. CASE UNCHANGED <<queue, got>>
    <3>1. Contents(queue)' = Contents(queue)
      BY <2>1
    <3> QED BY <2>1, <3>1
  <2> QED BY <2>1, StepImplements
<1> QED BY <1>1, <1>2, <1>3, PTL DEF Spec, ImplementsKeyBuffer, Buffer!Spec

-------------------------------------------------------------------------------
(* What registrations are owed                                             *)

Owed(n) == due[n] <= Left(notify, n)

OwedInv ==
  /\ handler \in {"walk", "call"} /\ link # NoNode => link \in Registered
  /\ handler = "call" => link # NoNode
  /\ \A n \in Registered : Owed(n)
  /\ \A n \in Nodes \ Registered : due[n] = 0

LEMMA OwedDebts ==
  Debts(Present) <=> /\ \A n \in Registered : Owed(n)
                     /\ \A n \in Nodes \ Registered : due[n] = 0
  BY DEF Debts, Present, Owed

LEMMA OwedNumbers ==
  ASSUME Types, NEW n \in Nodes
  PROVE  due[n] \in Nat /\ Copies(notify, reg[n].key) \in Nat /\ Left(notify, n) \in Nat
  BY StillToldIs, CopiesAre DEF Types

\* Nobody is owed less than nothing.
LEMMA NoDebt ==
  ASSUME notify' \in Queue, NEW n, due'[n] = 0 PROVE Owed(n)'
<1>1. Copies(notify', reg'[n].key) \in Nat
  BY CopiesAre
<1>2. Ahead(n)' \in {0, 1}
  BY DEF Ahead
<1> QED BY <1>1, <1>2 DEF Owed, Left

\* The handler that has the key of n in hand still comes to n.
LEMMA StaysOwed ==
  ASSUME Types, NEW n \in Nodes, Owed(n), notify' = notify, hand' = hand,
         reg'[n] = reg[n], due'[n] = due[n],
         IsAhead(n) /\ hand = reg[n].key => IsAhead(n)'
  PROVE  Owed(n)'
<1>1. Ahead(n) \in {0, 1} /\ Ahead(n)' \in {0, 1} /\ (Ahead(n) = 1 => Ahead(n)' = 1)
  BY DEF Ahead
<1>2. due[n] \in Nat /\ Copies(notify, reg[n].key) \in Nat
  BY OwedNumbers
<1>3. due[n] <= Copies(notify, reg[n].key) + Ahead(n)
  BY DEF Owed, Left
<1>4. due[n] <= Copies(notify, reg[n].key) + Ahead(n)'
  BY <1>1, <1>2, <1>3
<1>5. Left(notify, n)' = Copies(notify', reg'[n].key) + Ahead(n)'
  BY DEF Left
<1> QED BY <1>4, <1>5 DEF Owed

LEMMA OwedInit == Init => OwedInv
<1> SUFFICES ASSUME Init PROVE OwedInv
  OBVIOUS
<1>1. Registered = {}
  BY NothingIsRegistered DEF Init
<1> QED BY <1>1 DEF Init, OwedInv

LEMMA OwedPoll ==
  ASSUME Base, OwedInv, NEW b \in Reported,
         notify' = Polled(b).notify, due' = Polled(b).due,
         UNCHANGED <<list, reg, handler, hand, link>>
  PROVE  OwedInv'
<1>1. Debts(Polled(b))
  BY ReportType, OwedDebts DEF OwedInv
<1>2. Registered' = Registered
  BY DEF Registered
<1>3. \A n : Ahead(n)' = Ahead(n)
  BY DEF Ahead, IsAhead, Place
<1>4. \A n \in Registered : Owed(n)'
  <2>1. SUFFICES ASSUME NEW n \in Registered PROVE Owed(n)'
    OBVIOUS
  <2>2. due'[n] <= Copies(notify', reg[n].key) + Ahead(n)
    BY <1>1 DEF Debts, Left
  <2> QED BY <1>3, <2>2 DEF Owed, Left
<1>5. \A n \in Nodes \ Registered : due'[n] = 0
  BY <1>1 DEF Debts
<1> QED BY <1>2, <1>4, <1>5 DEF OwedInv

LEMMA OwedReset ==
  ASSUME Base, OwedInv, ResetConsole, UNCHANGED <<handler, hand, link>>
  PROVE  OwedInv'
<1>1. Registered' = Registered /\ Registered \subseteq Nodes
  BY DEF Registered, ResetConsole
<1>2. \A n \in Nodes : due'[n] = 0
  BY DEF ResetConsole
<1>3. notify' \in Queue
  BY NewIsEmpty DEF ResetConsole
<1>4. \A n \in Registered : Owed(n)'
  BY <1>1, <1>2, <1>3, NoDebt
<1> QED BY <1>1, <1>2, <1>4 DEF OwedInv

\* Nothing that n or the handler could see has changed.
LEMMA OwedSame ==
  ASSUME Base, OwedInv, UNCHANGED <<notify, list, reg, due>>,
         handler' \in {"walk", "call"} => UNCHANGED <<handler, hand, link>>,
         handler \in {"walk", "call"} => UNCHANGED <<handler, hand, link>>
  PROVE  OwedInv'
<1>1. Registered' = Registered /\ Registered \subseteq Nodes
  BY DEF Registered
<1>2. ASSUME NEW n \in Registered PROVE Owed(n)'
  <2>1. Ahead(n)' = Ahead(n)
    BY DEF Ahead, IsAhead, Place
  <2>2. Owed(n)
    BY <1>2 DEF OwedInv
  <2> QED BY <2>1, <2>2 DEF Owed, Left
<1> QED BY <1>1, <1>2 DEF OwedInv

LEMMA OwedRegister ==
  ASSUME Base, OwedInv, CallInv', NEW w \in Wishes, Register(w), handler \in {"idle", "call"},
         UNCHANGED <<handler, hand, link>>
  PROVE  OwedInv'
<1>1. CASE (\E n \in Registered : reg[n] = w) \/ Registered = Nodes
  <2>1. UNCHANGED <<partial, rings, list, reg, pending, got, due>>
    BY <1>1 DEF Register
  <2> QED BY <2>1, OwedSame DEF rings
<1>2. CASE ~((\E n \in Registered : reg[n] = w) \/ Registered = Nodes)
  <2>1. PICK n \in Nodes \ Registered :
          /\ list' = Append(list, n) /\ reg' = [reg EXCEPT ![n] = w]
          /\ UNCHANGED <<partial, rings, pending, got, due>>
    BY <1>2 DEF Register
  <2>2. Registered' = Registered \cup {n} /\ Registered \subseteq Nodes
    BY <2>1, Appended, RegisteredAre DEF Base
  <2>3. \A m \in Registered : Place(m)' = Place(m)
    <3>1. /\ DOMAIN list' = 1 .. Len(list) + 1 /\ DOMAIN list = 1 .. Len(list)
          /\ \A i \in 1 .. Len(list) : list'[i] = list[i]
          /\ list'[Len(list) + 1] = n
      BY <2>1, AppendProperties, LenProperties DEF Base, Types
    <3>2. SUFFICES ASSUME NEW m \in Registered PROVE Place(m)' = Place(m)
      OBVIOUS
    <3>3. Place(m) \in 1 .. Len(list) /\ list[Place(m)] = m
      BY PlaceIs DEF Base
    <3>4. \A i \in 1 .. Len(list) + 1 : list'[i] = m <=> i = Place(m)
      <4>1. \A i \in 1 .. Len(list) : list[i] = m <=> i = Place(m)
        BY <3>3 DEF Base, ListInv
      <4>2. m # n /\ Len(list) \in Nat
        BY <2>1, RegisteredAre DEF Base
      <4> QED BY <3>1, <3>3, <4>1, <4>2
    <3>5. Place(m) \in DOMAIN list' /\ \A i \in DOMAIN list' : list'[i] = m <=> i = Place(m)
      BY <3>1, <3>3, <3>4, RegisteredAre DEF Base
    <3>6. Place(m)' = IF \E i \in DOMAIN list' : list'[i] = m
                      THEN CHOOSE i \in DOMAIN list' : list'[i] = m ELSE Len(list') + 1
      BY DEF Place
    <3> QED BY <3>5, <3>6
  <2>4. ASSUME NEW m \in Registered PROVE Owed(m)'
    <3>1. reg'[m] = reg[m] /\ Owed(m) /\ m \in Nodes
      BY <2>1, <2>2, <2>4 DEF Base, Types, OwedInv
    <3>2. IsAhead(m) => IsAhead(m)'
      <4>1. handler = "call" => link \in Registered
        BY DEF OwedInv
      <4> QED BY <2>3, <2>4, <4>1 DEF IsAhead
    <3> QED BY <2>1, <3>1, <3>2, StaysOwed DEF Base, rings
  <2>5. Owed(n)'
    <3>1. due'[n] = 0 /\ notify' \in Queue
      BY <2>1 DEF OwedInv, CallInv
    <3> QED BY <3>1, NoDebt
  <2> QED BY <2>1, <2>2, <2>4, <2>5 DEF OwedInv
<1> QED BY <1>1, <1>2

LEMMA OwedUnregister ==
  ASSUME Base, OwedInv, CallInv', NEW n, Unregister(n), handler \in {"idle", "call"},
         handler = "call" => n # link, UNCHANGED <<handler, hand, link>>
  PROVE  OwedInv'
<1>1. /\ n \in Registered /\ n \in Nodes
      /\ list' = RemoveAt(list, Place(n))
      /\ reg' = [reg EXCEPT ![n] = Unused] /\ due' = [due EXCEPT ![n] = 0]
      /\ notify' = notify
  BY DEF Unregister, Registered, rings
<1>2. /\ Registered' = Registered \ {n} /\ Registered \subseteq Nodes /\ list' \in Seq(Nodes)
      /\ \A i, j \in 1 .. Len(list') : list'[i] = list'[j] => i = j
      /\ \A m \in Registered \ {n} :
           \E i \in 1 .. Len(list') : list'[i] = m /\ Place(m) = IF i < Place(n) THEN i ELSE i + 1
  BY <1>1, Removed, RegisteredAre DEF Base
<1>3. ASSUME NEW m \in Registered \ {n}
      PROVE  /\ Place(m)' \in Nat /\ Place(n) \in Nat
             /\ Place(m) = IF Place(m)' < Place(n) THEN Place(m)' ELSE Place(m)' + 1
  <2>1. PICK i \in 1 .. Len(list') :
          list'[i] = m /\ Place(m) = IF i < Place(n) THEN i ELSE i + 1
    BY <1>2
  <2>2. DOMAIN list' = 1 .. Len(list') /\ Len(list') \in Nat
    BY <1>2, LenProperties
  <2>3. \A j \in DOMAIN list' : list'[j] = m <=> j = i
    BY <1>2, <2>1, <2>2
  <2>4. Place(m)' = IF \E j \in DOMAIN list' : list'[j] = m
                    THEN CHOOSE j \in DOMAIN list' : list'[j] = m ELSE Len(list') + 1
    BY DEF Place
  <2>5. Place(m)' = i
    BY <2>1, <2>2, <2>3, <2>4
  <2>6. Place(n) \in Nat
    BY <1>1, PlaceIs, RegisteredAre DEF Base
  <2> QED BY <2>1, <2>2, <2>5, <2>6
<1>4. ASSUME NEW m \in Registered \ {n} PROVE Owed(m)'
  <2>1. reg'[m] = reg[m] /\ due'[m] = due[m] /\ Owed(m) /\ m \in Nodes
    BY <1>1, <1>2 DEF Base, Types, OwedInv
  <2>2. IsAhead(m) => IsAhead(m)'
    <3>1. handler = "call" => link \in Registered \ {n}
      BY DEF OwedInv
    <3>2. handler = "call" => (Place(m) > Place(link) => Place(m)' > Place(link)')
      BY <1>3, <1>4, <3>1
    <3>3. IsAhead(m) => handler = "call" /\ Place(m) > Place(link)
      BY DEF IsAhead
    <3>4. link' = link /\ handler' = handler
      OBVIOUS
    <3>5. handler = "call" /\ Place(m)' > Place(link)' => IsAhead(m)'
      BY <3>4 DEF IsAhead
    <3> QED BY <3>2, <3>3, <3>5
  <2> QED BY <1>1, <2>1, <2>2, StaysOwed DEF Base
<1>5. \A m \in Nodes \ Registered' : due'[m] = 0
  BY <1>1, <1>2 DEF Base, Types, OwedInv
<1>6. /\ handler' \in {"walk", "call"} /\ link' # NoNode => link' \in Registered'
      /\ handler' = "call" => link' # NoNode
  BY <1>2 DEF OwedInv
<1> QED BY <1>2, <1>4, <1>5, <1>6 DEF OwedInv

LEMMA OwedCall ==
  ASSUME Base, OwedInv, CallInv', NEW mine, Call(mine), handler \in {"idle", "call"},
         handler = "call" => link \in mine, UNCHANGED <<handler, hand, link>>
  PROVE  OwedInv'
<1>1. ASSUME ReadKeyStrokeEx PROVE OwedInv'
  <2>1. PICK b \in Reported : /\ notify' = Polled(b).notify /\ due' = Polled(b).due
                              /\ UNCHANGED <<list, reg>>
    BY <1>1 DEF ReadKeyStrokeEx
  <2> QED BY <2>1, OwedPoll
<1>2. ASSUME WaitForKey PROVE OwedInv'
  <2>1. PICK b \in Reported : /\ notify' = Polled(b).notify /\ due' = Polled(b).due
                              /\ UNCHANGED <<list, reg>>
    BY <1>2 DEF WaitForKey
  <2> QED BY <2>1, OwedPoll
<1>3. ASSUME NEW e \in BOOLEAN, SetState(e) PROVE OwedInv'
  BY <1>3, OwedSame DEF SetState, rings
<1>4. ASSUME NEW n \in Nodes \ mine, Unregister(n) PROVE OwedInv'
  <2>1. handler = "call" => n # link
    BY <1>4
  <2> QED BY <1>4, <2>1, OwedUnregister
<1> QED BY <1>1, <1>2, <1>3, <1>4, OwedReset, OwedRegister DEF Call

\* The handler goes on to the next node, as no function needs to be called.
LEMMA OwedWalk ==
  ASSUME Base, OwedInv, handler \in {"walk", "call"}, link # NoNode, link' \in Behind(link),
         handler = "walk" => reg[link].key # hand, handler' = "walk",
         UNCHANGED <<notify, list, reg, hand, due>>
  PROVE  OwedInv'
<1>1. Registered' = Registered /\ Registered \subseteq Nodes
  BY DEF Registered
<1>2. link \in Registered /\ Place(link) \in Nat
  BY PlaceIs, RegisteredAre DEF OwedInv, Base
<1>3. (link' = NoNode \/ link' \in Registered) /\ Place(link') = Place(link) + 1
  BY <1>1, <1>2, BehindIs DEF Base
<1>4. ASSUME NEW n \in Registered PROVE Owed(n)'
  <2>1. n \in Nodes /\ Owed(n) /\ Place(n) \in Nat
    BY <1>1, PlaceIs, RegisteredAre DEF OwedInv, Base
  <2>2. Place(n)' = Place(n) /\ Place(link)' = Place(link')
    BY DEF Place
  <2>3. ASSUME IsAhead(n), hand = reg[n].key PROVE IsAhead(n)'
    <3>1. (Place(n) >= Place(link) /\ n # link) \/ Place(n) > Place(link)
      BY <2>3 DEF IsAhead
    <3>2. n # link => Place(n) # Place(link)
      BY <1>2, PlaceIs DEF Base
    <3>3. Place(n) >= Place(link')
      BY <1>2, <1>3, <2>1, <3>1, <3>2
    <3> QED BY <2>2, <3>3 DEF IsAhead
  <2> QED BY <2>1, <2>3, StaysOwed DEF Base
<1> QED BY <1>1, <1>3, <1>4 DEF OwedInv

\* It begins a walk along the whole list with the key it takes out of the ring.
LEMMA OwedPop ==
  ASSUME Base, OwedInv, PopKey PROVE OwedInv'
<1>1. CASE IsEmpty(notify)
  BY <1>1, OwedSame DEF PopKey
<1>2. CASE ~IsEmpty(notify)
  <2>1. /\ hand' = HeadOf(notify) /\ notify' = Pop(notify) /\ handler = "pop" /\ handler' = "walk"
        /\ link' = IF list = << >> THEN NoNode ELSE Head(list)
        /\ UNCHANGED <<list, reg, due>>
    BY <1>2 DEF PopKey
  <2>2. Registered' = Registered /\ Registered \subseteq Nodes
    BY <2>1 DEF Registered
  <2>3. link' # NoNode => link' \in Registered /\ list # << >> /\ Place(link') = 1
    <3>1. ASSUME link' # NoNode PROVE link' = list[1] /\ 1 \in 1 .. Len(list) /\ list # << >>
      BY <2>1, <3>1, HeadTailProperties, EmptySeq, RegisteredAre DEF Base, Types
    <3> QED BY <3>1, PlaceIs, RegisteredAre DEF Base
  <2>4. ASSUME NEW n \in Registered PROVE Owed(n)'
    <3>1. n \in Nodes /\ Owed(n) /\ Place(n) \in Nat /\ Place(n) >= 1 /\ list # << >>
      BY <2>2, <2>4, PlaceIs, RegisteredAre, NothingIsRegistered DEF OwedInv, Base
    <3>2. link' # NoNode
      <4>1. Head(list) \in Nodes
        BY <3>1, HeadTailProperties DEF Base, Types
      <4> QED BY <2>1, <3>1, <4>1, ConsoleAssumption
    <3>3. Place(n)' = Place(n) /\ Place(link)' = Place(link')
      BY <2>1 DEF Place
    <3>4. IsAhead(n)' /\ ~IsAhead(n)
      BY <2>1, <2>3, <3>1, <3>2, <3>3 DEF IsAhead
    <3>5. /\ Copies(notify, reg[n].key)
               = Copies(notify', reg[n].key) + (IF hand' = reg[n].key THEN 1 ELSE 0)
      BY <1>2, <2>1, PopCopies DEF Base, Types
    <3>6. Ahead(n) = 0 /\ Ahead(n)' = IF hand' = reg[n].key THEN 1 ELSE 0
      BY <2>1, <3>4 DEF Ahead
    <3>7. Left(notify, n)' = Copies(notify', reg[n].key) + Ahead(n)'
      BY <2>1 DEF Left
    <3>8. Left(notify, n) = Copies(notify, reg[n].key) + 0 /\ Copies(notify, reg[n].key) \in Nat
      BY <3>1, <3>6, OwedNumbers DEF Left, Base
    <3> QED BY <2>1, <3>1, <3>5, <3>6, <3>7, <3>8 DEF Owed
  <2>5. link' # NoNode => link' \in Registered'
    BY <2>2, <2>3
  <2> QED BY <2>1, <2>2, <2>4, <2>5 DEF OwedInv
<1> QED BY <1>1, <1>2

\* The function that is called is told one key, the one in hand.
LEMMA OwedTold ==
  ASSUME Base, OwedInv, CallFunction PROVE OwedInv'
<1>1. /\ handler = "walk" /\ link # NoNode /\ reg[link].key = hand /\ handler' = "call"
      /\ due' = [due EXCEPT ![link] = IF @ = 0 THEN 0 ELSE @ - 1]
      /\ UNCHANGED <<notify, list, reg, hand, link>>
  BY DEF CallFunction, rings
<1>2. Registered' = Registered /\ Registered \subseteq Nodes /\ link \in Registered
  BY <1>1 DEF Registered, OwedInv
<1>3. due \in [Nodes -> Nat] /\ due' \in [Nodes -> Nat]
  BY <1>1, <1>2 DEF Base, Types
<1>4. ASSUME NEW n \in Registered PROVE Owed(n)'
  <2>1. n \in Nodes /\ Owed(n) /\ Place(n) \in Nat /\ Place(link) \in Nat
    BY <1>2, PlaceIs, RegisteredAre DEF OwedInv, Base
  <2>2. Place(n)' = Place(n) /\ Place(link)' = Place(link)
    BY <1>1 DEF Place
  <2>3. CASE n # link
    <3>1. Place(n) # Place(link)
      BY <1>2, <2>3, PlaceIs DEF Base
    <3>2. IsAhead(n) => IsAhead(n)'
      BY <1>1, <2>1, <2>2, <3>1 DEF IsAhead
    <3> QED BY <1>1, <1>3, <2>1, <2>3, <3>2, StaysOwed DEF Base
  <2>4. CASE n = link
    <3>1. ~IsAhead(n)' /\ IsAhead(n)
      BY <1>1, <2>1, <2>2, <2>4 DEF IsAhead
    <3>2. Ahead(n)' = 0 /\ Ahead(n) = 1
      BY <1>1, <2>4, <3>1 DEF Ahead
    <3>3. due[n] \in Nat /\ Copies(notify, reg[n].key) \in Nat
      BY <2>1, OwedNumbers DEF Base
    <3>4. due[n] <= Copies(notify, reg[n].key) + 1
      BY <2>1, <3>2 DEF Owed, Left
    <3>5. due'[n] = IF due[n] = 0 THEN 0 ELSE due[n] - 1
      BY <1>1, <1>3, <2>1, <2>4
    <3>6. due'[n] <= Copies(notify, reg[n].key) + 0
      BY <3>3, <3>4, <3>5
    <3>7. Left(notify, n)' = Copies(notify, reg[n].key) + 0
      BY <1>1, <3>2 DEF Left
    <3> QED BY <3>6, <3>7 DEF Owed
  <2> QED BY <2>3, <2>4
<1>5. \A n \in Nodes \ Registered : due'[n] = 0
  BY <1>1, <1>2 DEF OwedInv, Base, Types
<1> QED BY <1>1, <1>2, <1>4, <1>5 DEF OwedInv

\* At the end of the list there is nobody left to tell the key in hand.
LEMMA OwedAtEnd ==
  ASSUME Base, OwedInv, EndOfList PROVE OwedInv'
<1>1. /\ handler = "walk" /\ link = NoNode /\ handler' = "pop"
      /\ UNCHANGED <<notify, list, reg, due>>
  BY DEF EndOfList, rings
<1>2. Registered' = Registered /\ Registered \subseteq Nodes /\ NoNode \notin Registered
  BY <1>1, ConsoleAssumption DEF Registered
<1>3. ASSUME NEW n \in Registered PROVE Owed(n)'
  <2>1. Place(n) \in 1 .. Len(list) /\ Place(link) = Len(list) + 1 /\ Len(list) \in Nat
    BY <1>1, <1>2, PlaceIs, RegisteredAre DEF Base
  <2>2. ~IsAhead(n)
    BY <1>1, <2>1 DEF IsAhead
  <2>3. Ahead(n) = 0 /\ Ahead(n)' = 0
    BY <1>1, <2>2 DEF Ahead, IsAhead
  <2> QED BY <1>1, <2>3 DEF OwedInv, Owed, Left
<1> QED BY <1>1, <1>2, <1>3 DEF OwedInv

\* Nothing is registered after a stop, and nobody is owed anything.
LEMMA OwedFreed ==
  ASSUME Base, OwedInv, Freed, handler = "idle" PROVE OwedInv'
<1>1. Registered' = {}
  BY EmptySeq DEF Freed, Registered
<1> QED BY <1>1 DEF OwedInv, Freed, walk

LEMMA OwedStep ==
  ASSUME NobodyLeaves, Base, OwedInv, [Next]_vars PROVE OwedInv'
<1> USE DEF rings, walk, binding
<1>1. CASE Dispatch
  BY <1>1, OwedSame DEF Dispatch
<1>2. CASE PopKey
  BY <1>2, OwedPop
<1>3. CASE WalkPast
  BY <1>3, OwedWalk DEF WalkPast
<1>4. CASE CallFunction
  BY <1>4, OwedTold
<1>5. CASE FunctionReturns
  BY <1>5, OwedWalk DEF FunctionReturns, OwedInv
<1>6. CASE EndOfList
  BY <1>6, OwedAtEnd
<1>7. CASE FunctionCalls
  <2>1. /\ handler = "call" /\ Call({link})
        /\ UNCHANGED <<handler, hand, link>>
    BY <1>7 DEF FunctionCalls, NobodyLeaves
  <2>2. CallInv'
    BY <2>1, CallType
  <2> QED BY <2>1, <2>2, OwedCall
<1>8. CASE Tick
  <2>1. PICK b \in Reported : notify' = Polled(b).notify /\ due' = Polled(b).due
    BY <1>8 DEF Tick
  <2> QED BY <1>8, <2>1, OwedPoll DEF Tick
<1>9. CASE AppCall
  <2>1. Call({}) /\ handler = "idle" /\ UNCHANGED <<handler, hand, link>>
    BY <1>9 DEF AppCall, NoWalk
  <2>2. CallInv'
    BY <2>1, CallType
  <2> QED BY <2>1, <2>2, OwedCall
<1>10. CASE ReadKeyStroke
  <2>1. Call({}) /\ handler = "idle" /\ UNCHANGED <<handler, hand, link>>
    BY <1>10 DEF ReadKeyStroke, NoWalk, Call
  <2>2. CallInv'
    BY <2>1, CallType
  <2> QED BY <2>1, <2>2, OwedCall
<1>11. CASE Start
  <2>1. Registered = {} /\ Registered' = {} /\ handler' = "idle"
    BY <1>11, NothingIsRegistered, EmptySeq DEF Start, Base, HandlerInv, NoWalk, Registered
  <2> QED BY <1>11, <2>1 DEF Start, OwedInv
<1>12. CASE FinishStart
  BY <1>12, OwedReset DEF FinishStart
<1>13. CASE FailStart
  BY <1>13, OwedFreed DEF FailStart, Base, HandlerInv, NoWalk
<1>14. CASE Stop
  <2>1. CASE Freed
    BY <1>14, <2>1, OwedFreed DEF Stop, NoWalk
  <2>2. CASE ~Freed
    BY <1>14, <2>2, OwedSame DEF Stop
  <2> QED BY <2>1, <2>2
<1>15. CASE UNCHANGED vars
  BY <1>15, OwedSame DEF vars
<1> QED BY <1>1, <1>2, <1>3, <1>4, <1>5, <1>6, <1>7, <1>8, <1>9, <1>10, <1>11, <1>12,
           <1>13, <1>14, <1>15 DEF Next, Handler

LEMMA OwedAlways ==
  ASSUME NobodyLeaves PROVE Spec => [](Base /\ OwedInv)
<1>1. Init => Base /\ OwedInv
  BY BaseInit, OwedInit
<1>2. Base /\ OwedInv /\ [Next]_vars => (Base /\ OwedInv)'
  BY BaseStep, OwedStep
<1> QED BY <1>1, <1>2, PTL DEF Spec

(* Every variable keeps its type, and nobody is owed more keys than the     *)
(* ring and the hand of the handler can hold: the debt is bounded although  *)
(* any number of keys is typed and polled (KeyNotifyProcessHandler).        *)
THEOREM ConsoleTypeCorrect ==
  ASSUME NobodyLeaves PROVE Spec => []TypeOK
<1>1. Base /\ OwedInv => TypeOK
  <2> SUFFICES ASSUME Base, OwedInv PROVE TypeOK
    OBVIOUS
  <2>1. ASSUME NEW n \in Nodes PROVE due[n] \in 0 .. QueueSize
    <3>1. CASE n \in Registered
      <4>1. due[n] <= Left(notify, n) /\ due[n] \in Nat
        BY <3>1, OwedNumbers DEF OwedInv, Owed, Base
      <4>2. Left(notify, n) \in Nat /\ Left(notify, n) <= Length(notify) + 1
        BY <4>1, StillToldIs DEF Base, Types
      <4>3. Length(notify) \in Nat /\ Length(notify) <= QueueSize - 1
        BY ContentsAre DEF Base, Types
      <4> QED BY <4>1, <4>2, <4>3, Size
    <3>2. CASE n \notin Registered
      BY <3>2, Size DEF OwedInv
    <3> QED BY <3>1, <3>2
  <2>2. due \in [Nodes -> 0 .. QueueSize]
    BY <2>1 DEF Base, Types
  <2> QED BY <2>2 DEF TypeOK, Base, Types
<1> QED BY <1>1, OwedAlways, PTL

(* As long as no function removes its own registration, every key somebody  *)
(* asked for is in the ring of notifications or in hand until the function  *)
(* is told, whatever others register, remove, read, poll or reset while the *)
(* handler is in the middle of the list (KeyNotifyProcessHandler).          *)
THEOREM NothingIsForgotten ==
  ASSUME NobodyLeaves PROVE Spec => []NothingForgotten
<1>1. Base /\ OwedInv => NothingForgotten
  <2> SUFFICES ASSUME Base, OwedInv, NEW n \in Registered
               PROVE  due[n] = StillTold(notify, n, due[n])
    BY DEF NothingForgotten
  <2>1. n \in Nodes
    BY RegisteredAre DEF Base
  <2>2. due[n] \in Nat /\ due[n] <= Left(notify, n)
    BY <2>1, OwedNumbers DEF OwedInv, Owed, Base
  <2> QED BY <2>2, StillToldIs DEF Base, Types
<1> QED BY <1>1, OwedAlways, PTL

===============================================================================
