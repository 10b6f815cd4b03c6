--------------------------- MODULE VirtioNetProofs ---------------------------
(***************************************************************************)
(* Theorems about the virtio-net driver, for every size of the rings and   *)
(* any set of buffers.                                                     *)
(***************************************************************************)
EXTENDS VirtioNet, TLAPS, FiniteSetTheorems, SequenceTheorems

(* Arithmetic of the free-running ring indices.                            *)

\* A remainder is determined by the multiple it leaves.
LEMMA ModUnique ==
    ASSUME NEW m \in Nat \ {0}, NEW q \in Int, NEW r \in 0 .. m - 1
    PROVE  (m * q + r) % m = r
  OBVIOUS

\* A remainder is less than its divisor.
LEMMA ModRange ==
    ASSUME NEW m \in Nat \ {0}, NEW x \in Int
    PROVE  x % m \in 0 .. m - 1 /\ \E q \in Int : x = m * q + (x % m)
  <1>1. x % m \in 0 .. m - 1
    OBVIOUS
  <1>2. x \div m \in Int /\ x = m * (x \div m) + (x % m)
    OBVIOUS
  <1>. QED
    BY <1>1, <1>2

\* A number less than the divisor is its own remainder.
LEMMA ModSmall ==
    ASSUME NEW m \in Nat \ {0}, NEW x \in 0 .. m - 1
    PROVE  x % m = x /\ (x - m) % m = x
  OBVIOUS

\* Adding the divisor does not change the remainder.
LEMMA ModPeriod ==
    ASSUME NEW m \in Nat \ {0}, NEW x \in Int, NEW y \in Int, y % m = 0
    PROVE  (x + y) % m = x % m /\ (x - y) % m = x % m
  <1>1. PICK q \in Int : y = m * q
    <2>1. PICK q \in Int : y = m * q + (y % m)
      BY ModRange
    <2>. QED
      BY <2>1
  <1>2. PICK p \in Int : x = m * p + (x % m)
    BY ModRange
  <1>3. x % m \in 0 .. m - 1
    BY ModRange
  <1>. DEFINE r == x % m
  <1>4. ASSUME NEW z \in Int, z = m * p + r
        PROVE  z + m * q = m * (p + q) + r /\ z - m * q = m * (p - q) + r
    <2>1. r \in Int
      BY <1>3
    <2>. HIDE DEF r
    <2>. QED
      BY <1>4, <2>1
  <1>5. x + y = m * (p + q) + r /\ x - y = m * (p - q) + r
    BY <1>1, <1>2, <1>4
  <1>6. p + q \in Int /\ p - q \in Int /\ r \in 0 .. m - 1
    BY <1>3
  <1>7. (m * (p + q) + r) % m = r
    BY <1>6, ModUnique
  <1>8. (m * (p - q) + r) % m = r
    BY <1>6, ModUnique
  <1>. QED
    BY <1>5, <1>7, <1>8

\* The number of entries from one index to another, as UINT16 arithmetic has it.
Count(from, to) == (to - from) % IdxMod

\* The distance between two free-running indices, wrapped or not.
LEMMA CountIs ==
    ASSUME NEW from \in Indices, NEW to \in Indices
    PROVE  /\ Count(from, to) = IF to >= from THEN to - from ELSE to - from + IdxMod
           /\ Count(from, to) \in Indices
           /\ Count(from, to) = 0 <=> from = to
  <1>1. CASE to >= from
    <2>1. to - from \in 0 .. IdxMod - 1
      BY <1>1, NetAssumption DEF Indices
    <2>. QED
      BY <1>1, <2>1, ModSmall, NetAssumption DEF Count, Indices
  <1>2. CASE to < from
    <2>1. to - from + IdxMod \in 0 .. IdxMod - 1 /\ to - from + IdxMod # 0
      BY <1>2, NetAssumption DEF Indices
    <2>2. PICK y \in 0 .. IdxMod - 1 : y = to - from + IdxMod
      BY <2>1
    <2>3. (y - IdxMod) % IdxMod = y
      BY ModSmall, NetAssumption
    <2>4. y - IdxMod = to - from
      BY <2>2, NetAssumption DEF Indices
    <2>. QED
      BY <1>2, <2>1, <2>2, <2>3, <2>4, NetAssumption DEF Count, Indices
  <1>. QED
    BY <1>1, <1>2 DEF Indices

\* An index that is advanced wraps at the end of UINT16.
LEMMA Advanced ==
    ASSUME NEW x \in Indices
    PROVE  /\ (x + 1) % IdxMod = IF x = IdxMod - 1 THEN 0 ELSE x + 1
           /\ (x + 1) % IdxMod \in Indices
  <1>1. CASE x = IdxMod - 1
    <2>1. (0 + IdxMod) % IdxMod = 0 % IdxMod
      BY NetAssumption, ModPeriod, ModSmall
    <2>. QED
      BY <1>1, <2>1, NetAssumption DEF Indices
  <1>2. CASE x # IdxMod - 1
    BY <1>2, ModSmall, NetAssumption DEF Indices
  <1>. QED
    BY <1>1, <1>2

\* The head of a queue advances: the length shrinks, and grows with the tail.
LEMMA CountSteps ==
    ASSUME NEW from \in Indices, NEW to \in Indices
    PROVE  /\ from # to => Count((from + 1) % IdxMod, to) = Count(from, to) - 1
           /\ Count(from, to) + 1 < IdxMod =>
                 Count(from, (to + 1) % IdxMod) = Count(from, to) + 1
  <1>1. /\ from + 1 \in Int /\ (from + 1) % IdxMod \in Indices
        /\ (to + 1) % IdxMod \in Indices
    BY Advanced DEF Indices
  <1>2. PICK f \in Indices : f = (from + 1) % IdxMod
    BY <1>1
  <1>3. PICK t \in Indices : t = (to + 1) % IdxMod
    BY <1>1
  <1>4. f = (IF from = IdxMod - 1 THEN 0 ELSE from + 1) /\ t = (IF to = IdxMod - 1 THEN 0 ELSE to + 1)
    BY <1>2, <1>3, Advanced
  <1>5. from # to => Count(f, to) = Count(from, to) - 1
    <2>1. /\ Count(from, to) = IF to >= from THEN to - from ELSE to - from + IdxMod
          /\ Count(f, to) = IF to >= f THEN to - f ELSE to - f + IdxMod
      BY CountIs
    <2>. QED
      BY <1>4, <2>1, NetAssumption DEF Indices
  <1>6. Count(from, to) + 1 < IdxMod => Count(from, t) = Count(from, to) + 1
    <2>1. /\ Count(from, to) = IF to >= from THEN to - from ELSE to - from + IdxMod
          /\ Count(from, t) = IF t >= from THEN t - from ELSE t - from + IdxMod
      BY CountIs
    <2>. QED
      BY <1>4, <2>1, NetAssumption DEF Indices
  <1>. QED
    BY <1>2, <1>3, <1>5, <1>6

\* The size of a ring divides the range of its indices, so that slots do not jump when
\* an index wraps.
Size(size) == size \in Nat \ {0} /\ IdxMod % size = 0

\* Slots follow each other also where the index wraps: the ring size divides the period.
LEMMA SlotStep ==
    ASSUME NEW size, Size(size), NEW x \in Indices, NEW k \in Int
    PROVE  (((x + 1) % IdxMod) + k) % size = (x + 1 + k) % size
  <1>1. CASE x = IdxMod - 1
    <2>1. (k + IdxMod) % size = k % size
      <3>1. IdxMod \in Int /\ size \in Nat \ {0} /\ IdxMod % size = 0
        BY NetAssumption DEF Size
      <3>. QED
        BY <3>1, ModPeriod, Zenon
    <2>2. ((x + 1) % IdxMod) + k = k /\ x + 1 + k = k + IdxMod
      BY <1>1, Advanced, NetAssumption
    <2>. QED
      BY <2>1, <2>2
  <1>2. CASE x # IdxMod - 1
    BY <1>2, Advanced
  <1>. QED
    BY <1>1, <1>2

\* The slot behind the last one of a queue.
LEMMA TailSlot ==
    ASSUME NEW size, Size(size), NEW from \in Indices, NEW to \in Indices
    PROVE  to % size = (from + Count(from, to)) % size
  <1>1. CASE to >= from
    <2>1. from + Count(from, to) = to
      BY <1>1, CountIs DEF Indices
    <2>. QED
      BY <2>1
  <1>2. CASE to < from
    <2>1. from + Count(from, to) = to + IdxMod
      BY <1>2, CountIs, NetAssumption DEF Indices
    <2>2. (to + IdxMod) % size = to % size
      <3>1. to \in Int /\ IdxMod \in Int /\ size \in Nat \ {0} /\ IdxMod % size = 0
        BY NetAssumption DEF Size, Indices
      <3>. QED
        BY <3>1, ModPeriod, Zenon
    <2>. QED
      BY <2>1, <2>2
  <1>. QED
    BY <1>1, <1>2 DEF Indices

\* Fewer entries than slots are in different slots.
LEMMA SlotsDistinct ==
    ASSUME NEW size \in Nat \ {0}, NEW x \in Int, NEW k \in Int, NEW l \in Int,
           k < l, l < k + size
    PROVE  (x + k) % size # (x + l) % size
  <1>. SUFFICES ASSUME (x + k) % size = (x + l) % size PROVE FALSE
    OBVIOUS
  <1>. DEFINE r == (x + k) % size
  <1>0. x + k \in Int /\ x + l \in Int
    OBVIOUS
  <1>1. PICK p \in Int : x + k = size * p + r
    BY <1>0, ModRange, Zenon
  <1>2. PICK q \in Int : x + l = size * q + r
    BY <1>0, ModRange, Zenon
  <1>3. r \in Int
    BY ModRange
  <1>. HIDE DEF r
  <1>4. l - k = size * q - size * p
    BY <1>1, <1>2, <1>3
  <1>. DEFINE d == q - p
  <1>5. d \in Int /\ size * q - size * p = size * d
    OBVIOUS
  <1>6. l - k = size * d
    BY <1>4, <1>5
  <1>. HIDE DEF d
  <1>7. CASE d >= 1
    <2>1. size * d >= size
      BY <1>5, <1>7
    <2>. QED
      BY <1>6, <2>1
  <1>8. CASE d <= 0
    <2>1. size * d <= 0
      BY <1>5, <1>8
    <2>. QED
      BY <1>6, <2>1
  <1>. QED
    BY <1>5, <1>7, <1>8

\* An index leads to a slot of its ring.
LEMMA SlotInRing ==
    ASSUME NEW size, Size(size), NEW x \in Int
    PROVE  x % size \in 0 .. size - 1
  BY ModRange DEF Size

-----------------------------------------------------------------------------
(* The chains between two indices of a ring, as a sequence.                *)

Queue(a, from, to, size) == [k \in 1 .. Count(from, to) |-> a[(from + (k - 1)) % size]]

RingQueue(a, from, to, size, S) ==
    Size(size) /\ a \in [0 .. size - 1 -> S] /\ from \in Indices /\ to \in Indices

\* Its length and its elements.
LEMMA QueueType ==
    ASSUME NEW a, NEW from, NEW to, NEW size, NEW S, RingQueue(a, from, to, size, S)
    PROVE  /\ Queue(a, from, to, size) \in Seq(S)
           /\ Len(Queue(a, from, to, size)) = Count(from, to)
           /\ Count(from, to) \in Nat
  <1>1. Count(from, to) \in Nat
    <2>1. Count(from, to) \in Indices
      BY CountIs DEF RingQueue
    <2>. QED
      BY <2>1, NetAssumption DEF Indices
  <1>2. \A k \in 1 .. Count(from, to) : a[(from + (k - 1)) % size] \in S
    <2>. TAKE k \in 1 .. Count(from, to)
    <2>1. from + (k - 1) \in Int /\ Size(size)
      BY <1>1 DEF Indices, RingQueue
    <2>2. (from + (k - 1)) % size \in 0 .. size - 1
      BY <2>1, SlotInRing, Zenon
    <2>. QED
      BY <2>2 DEF RingQueue
  <1>. DEFINE n == Count(from, to)
              f(k) == a[(from + (k - 1)) % size]
  <1>3. n \in Nat /\ \A k \in 1 .. n : f(k) \in S
    BY <1>1, <1>2
  <1>4. Queue(a, from, to, size) = [k \in 1 .. n |-> f(k)]
    BY DEF Queue
  <1>. HIDE DEF n, f
  <1>5. [k \in 1 .. n |-> f(k)] \in Seq(S) /\ Len([k \in 1 .. n |-> f(k)]) = n
    BY <1>3
  <1>. QED
    BY <1>3, <1>4, <1>5 DEF n

\* What is at a place of a queue.
LEMMA QueueAt ==
    ASSUME NEW a, NEW from, NEW to, NEW size
    PROVE  \A k \in 1 .. Count(from, to) :
              Queue(a, from, to, size)[k] = a[(from + (k - 1)) % size]
  BY DEF Queue

\* The oldest chain is taken off the queue.
LEMMA QueuePop ==
    ASSUME NEW a, NEW from, NEW to, NEW size, NEW S, RingQueue(a, from, to, size, S),
           from # to
    PROVE  /\ Queue(a, (from + 1) % IdxMod, to, size) = Tail(Queue(a, from, to, size))
           /\ Queue(a, from, to, size)[1] = a[from % size]
           /\ Len(Queue(a, from, to, size)) > 0
  <1>. DEFINE n == Count(from, to)
              q == Queue(a, from, to, size)
  <1>1. n \in Nat /\ q \in Seq(S) /\ Len(q) = n
    BY QueueType
  <1>2. n > 0 /\ from \in Int
    <2>1. n # 0
      BY CountIs DEF RingQueue
    <2>. QED
      BY <1>1, <2>1 DEF RingQueue, Indices
  <1>3. PICK f \in Indices : f = (from + 1) % IdxMod
    BY Advanced DEF RingQueue
  <1>4. Count(f, to) = n - 1
    BY <1>3, CountSteps DEF RingQueue
  <1>5. RingQueue(a, f, to, size, S)
    BY DEF RingQueue
  <1>. DEFINE t == Queue(a, f, to, size)
  <1>6. t \in Seq(S) /\ Len(t) = n - 1
    BY <1>4, <1>5, QueueType
  <1>7. \A k \in 1 .. n - 1 : (f + (k - 1)) % size = (from + k) % size
    <2>. TAKE k \in 1 .. n - 1
    <2>1. k - 1 \in Int /\ k \in Int /\ Size(size) /\ from \in Indices
      BY <1>1 DEF RingQueue
    <2>2. (((from + 1) % IdxMod) + (k - 1)) % size = (from + 1 + (k - 1)) % size
      BY <2>1, SlotStep, Zenon
    <2>3. from + 1 + (k - 1) = from + k
      BY <1>2, <2>1
    <2>. QED
      BY <1>3, <2>2, <2>3
  <1>8. \A k \in 1 .. n - 1 : q[k + 1] = a[(from + k) % size]
    <2>. TAKE k \in 1 .. n - 1
    <2>1. k + 1 \in 1 .. n /\ (k + 1) - 1 = k
      BY <1>1
    <2>. QED
      BY <2>1, QueueAt
  <1>9. q[1] = a[from % size]
    <2>1. from + (1 - 1) = from /\ 1 \in 1 .. n
      BY <1>1, <1>2
    <2>. QED
      BY <2>1, QueueAt
  <1>10. \A k \in 1 .. n - 1 : t[k] = a[(f + (k - 1)) % size]
    BY <1>4, QueueAt
  <1>. HIDE DEF n, q, t
  <1>11. /\ Tail(q) \in Seq(S) /\ Len(Tail(q)) = n - 1
         /\ \A k \in 1 .. n - 1 : Tail(q)[k] = q[k + 1]
    BY <1>1, <1>2
  <1>12. t = Tail(q)
    <2>1. \A k \in 1 .. n - 1 : t[k] = Tail(q)[k]
      BY <1>7, <1>8, <1>10, <1>11
    <2>. QED
      BY <1>6, <1>11, <2>1, SeqEqual
  <1>. QED
    BY <1>1, <1>2, <1>3, <1>9, <1>12 DEF q, t

\* An entry is written after the newest chain, which leaves the queue as it is.
LEMMA QueueWrite ==
    ASSUME NEW a, NEW from, NEW to, NEW size, NEW S, RingQueue(a, from, to, size, S),
           NEW c \in S, Count(from, to) < size
    PROVE  /\ Queue([a EXCEPT ![to % size] = c], from, to, size) = Queue(a, from, to, size)
           /\ [a EXCEPT ![to % size] = c] \in [0 .. size - 1 -> S]
           /\ [a EXCEPT ![to % size] = c][to % size] = c
  <1>1. Count(from, to) \in Nat
    BY QueueType
  <1>2. size \in Nat \ {0} /\ from \in Int /\ to \in Int /\ Size(size)
    BY DEF RingQueue, Size, Indices
  <1>3. ASSUME NEW k \in 1 .. Count(from, to)
        PROVE  [a EXCEPT ![to % size] = c][(from + (k - 1)) % size] = a[(from + (k - 1)) % size]
    <2>1. /\ k - 1 \in Int /\ Count(from, to) \in Int /\ from + (k - 1) \in Int
          /\ k - 1 < Count(from, to) /\ Count(from, to) < (k - 1) + size
      BY <1>1, <1>2
    <2>2. (from + (k - 1)) % size # (from + Count(from, to)) % size
      BY <1>2, <2>1, SlotsDistinct, Zenon
    <2>3. to % size = (from + Count(from, to)) % size
      BY TailSlot DEF RingQueue
    <2>4. (from + (k - 1)) % size \in 0 .. size - 1
      BY <1>2, <2>1, SlotInRing, Zenon
    <2>. QED
      BY <2>2, <2>3, <2>4 DEF RingQueue
  <1>4. to % size \in 0 .. size - 1
    BY <1>2, SlotInRing, Zenon
  <1>5. Queue([a EXCEPT ![to % size] = c], from, to, size) = Queue(a, from, to, size)
    BY <1>3 DEF Queue
  <1>. QED
    BY <1>4, <1>5 DEF RingQueue

\* The index moves behind the entry: the chain is at the end of the queue.
LEMMA QueuePublish ==
    ASSUME NEW a, NEW from, NEW to, NEW size, NEW S, RingQueue(a, from, to, size, S),
           Count(from, to) + 1 < IdxMod
    PROVE  /\ Queue(a, from, (to + 1) % IdxMod, size)
                 = Append(Queue(a, from, to, size), a[to % size])
           /\ a[to % size] \in S
  <1>. DEFINE n == Count(from, to)
              q == Queue(a, from, to, size)
              c == a[to % size]
  <1>1. n \in Nat /\ q \in Seq(S) /\ Len(q) = n
    BY QueueType
  <1>2. \A k \in 1 .. n : q[k] = a[(from + (k - 1)) % size]
    BY QueueAt
  <1>3. c \in S
    <2>1. to \in Int /\ Size(size)
      BY DEF RingQueue, Indices
    <2>2. to % size \in 0 .. size - 1
      BY <2>1, SlotInRing, Zenon
    <2>. QED
      BY <2>2 DEF RingQueue
  <1>4. PICK t \in Indices : t = (to + 1) % IdxMod
    BY Advanced DEF RingQueue
  <1>. DEFINE p == Queue(a, from, t, size)
  <1>5. Count(from, t) = n + 1
    BY <1>4, CountSteps DEF RingQueue
  <1>6. RingQueue(a, from, t, size, S)
    BY DEF RingQueue
  <1>7. p \in Seq(S) /\ Len(p) = n + 1
    BY <1>5, <1>6, QueueType
  <1>8. \A k \in 1 .. n + 1 : p[k] = a[(from + (k - 1)) % size]
    BY <1>5, QueueAt
  <1>9. p[n + 1] = c
    <2>1. (n + 1) - 1 = n /\ n + 1 \in 1 .. n + 1
      BY <1>1
    <2>2. to % size = (from + n) % size
      BY TailSlot DEF RingQueue
    <2>. QED
      BY <1>8, <2>1, <2>2
  <1>10. \A k \in 1 .. n : p[k] = q[k]
    BY <1>1, <1>2, <1>8
  <1>. HIDE DEF n, q, c, p
  <1>11. /\ Append(q, c) \in Seq(S) /\ Len(Append(q, c)) = n + 1 /\ Append(q, c)[n + 1] = c
         /\ \A k \in 1 .. n : Append(q, c)[k] = q[k]
    BY <1>1, <1>3, AppendProperties
  <1>12. \A k \in 1 .. n + 1 : p[k] = Append(q, c)[k]
    <2>. TAKE k \in 1 .. n + 1
    <2>1. CASE k = n + 1
      BY <1>9, <1>11, <2>1
    <2>2. CASE k # n + 1
      <3>1. k \in 1 .. n
        BY <1>1, <2>2
      <3>. QED
        BY <1>10, <1>11, <3>1
    <2>. QED
      BY <2>1, <2>2
  <1>13. p = Append(q, c)
    BY <1>7, <1>11, <1>12, SeqEqual
  <1>. QED
    BY <1>3, <1>4, <1>13 DEF q, c, p

-----------------------------------------------------------------------------
(* The places of a ring's chains: free, supplied to the host, taken by it, *)
(* and completed.                                                          *)

Injective(q) == \A i, j \in 1 .. Len(q) : q[i] = q[j] => i = j
Apart(q, set) == \A i \in 1 .. Len(q) : q[i] \notin set
In(q, c) == \E i \in 1 .. Len(q) : q[i] = c

\* Each chain is at exactly one place.
Places(free, supplied, taken, done, all) ==
    /\ free \subseteq all /\ taken \subseteq all /\ free \cap taken = {}
    /\ supplied \in Seq(all) /\ Injective(supplied) /\ Apart(supplied, free \cup taken)
    /\ done \in Seq(all) /\ Injective(done) /\ Apart(done, free \cup taken)
    /\ \A i \in 1 .. Len(supplied), j \in 1 .. Len(done) : supplied[i] # done[j]
    /\ \A c \in all : c \in free \/ c \in taken \/ In(supplied, c) \/ In(done, c)

\* The elements of an appended sequence.
LEMMA AppendIs ==
    ASSUME NEW all, NEW q \in Seq(all), NEW c \in all
    PROVE  /\ Append(q, c) \in Seq(all) /\ Len(Append(q, c)) = Len(q) + 1 /\ Len(q) \in Nat
           /\ Append(q, c)[Len(q) + 1] = c
           /\ \A i \in 1 .. Len(q) : Append(q, c)[i] = q[i]
  BY AppendProperties

\* The elements of a tail.
LEMMA TailIs ==
    ASSUME NEW all, NEW q \in Seq(all), Len(q) > 0
    PROVE  /\ Tail(q) \in Seq(all) /\ Len(Tail(q)) = Len(q) - 1 /\ Len(q) \in Nat
           /\ q[1] \in all
           /\ \A i \in 1 .. Len(q) - 1 : Tail(q)[i] = q[i + 1]
  OBVIOUS

\* The elements of a queue after an append.
LEMMA AppendIn ==
    ASSUME NEW all, NEW q \in Seq(all), NEW c \in all
    PROVE  /\ \A x : In(Append(q, c), x) <=> In(q, x) \/ x = c
           /\ Injective(q) /\ ~In(q, c) => Injective(Append(q, c))
  <1>. DEFINE n == Len(q)
              p == Append(q, c)
  <1>1. /\ p \in Seq(all) /\ Len(p) = n + 1 /\ n \in Nat /\ p[n + 1] = c
        /\ \A i \in 1 .. n : p[i] = q[i]
    BY AppendIs
  <1>. HIDE DEF p
  <1>2. 1 .. n + 1 = (1 .. n) \cup {n + 1}
    BY <1>1
  <1>3. \A x : In(p, x) <=> In(q, x) \/ x = c
    BY <1>1, <1>2 DEF In
  <1>4. ASSUME Injective(q), ~In(q, c) PROVE Injective(p)
    <2>. SUFFICES ASSUME NEW i \in 1 .. n + 1, NEW j \in 1 .. n + 1, p[i] = p[j]
                  PROVE  i = j
      BY <1>1 DEF Injective
    <2>1. CASE i = n + 1 /\ j = n + 1
      BY <2>1
    <2>2. CASE i = n + 1 /\ j \in 1 .. n
      BY <1>1, <1>4, <2>2 DEF In
    <2>3. CASE i \in 1 .. n /\ j = n + 1
      BY <1>1, <1>4, <2>3 DEF In
    <2>4. CASE i \in 1 .. n /\ j \in 1 .. n
      BY <1>1, <1>4, <2>4 DEF Injective
    <2>. QED
      BY <1>2, <2>1, <2>2, <2>3, <2>4
  <1>. QED
    BY <1>3, <1>4 DEF p

\* The elements of a queue whose head has been taken.
LEMMA TailIn ==
    ASSUME NEW all, NEW q \in Seq(all), Len(q) > 0
    PROVE  /\ \A x : In(q, x) <=> In(Tail(q), x) \/ x = q[1]
           /\ Injective(q) => Injective(Tail(q)) /\ ~In(Tail(q), q[1])
  <1>. DEFINE n == Len(q)
              t == Tail(q)
  <1>1. /\ t \in Seq(all) /\ Len(t) = n - 1 /\ n \in Nat /\ n > 0
        /\ \A i \in 1 .. n - 1 : t[i] = q[i + 1] /\ i + 1 \in 1 .. n /\ i + 1 # 1
    BY TailIs
  <1>. HIDE DEF t
  <1>2. ASSUME NEW j \in 1 .. n, j # 1
        PROVE  j - 1 \in 1 .. n - 1 /\ t[j - 1] = q[j]
    <2>1. j - 1 \in 1 .. n - 1 /\ (j - 1) + 1 = j
      BY <1>1, <1>2
    <2>. QED
      BY <1>1, <2>1
  <1>3. ASSUME NEW x PROVE In(q, x) <=> In(t, x) \/ x = q[1]
    <2>1. ASSUME In(q, x) PROVE In(t, x) \/ x = q[1]
      BY <1>1, <1>2, <2>1 DEF In
    <2>2. ASSUME In(t, x) PROVE In(q, x)
      BY <1>1, <2>2 DEF In
    <2>3. In(q, q[1])
      BY <1>1 DEF In
    <2>. QED
      BY <2>1, <2>2, <2>3
  <1>4. ASSUME Injective(q) PROVE Injective(t) /\ ~In(t, q[1])
    <2>1. ~In(t, q[1])
      <3>. SUFFICES ASSUME NEW i \in 1 .. n - 1, t[i] = q[1] PROVE FALSE
        BY <1>1 DEF In
      <3>1. i + 1 \in 1 .. n /\ 1 \in 1 .. n /\ q[i + 1] = q[1] /\ i + 1 # 1
        BY <1>1
      <3>. QED
        BY <1>4, <3>1 DEF Injective
    <2>2. Injective(t)
      <3>. SUFFICES ASSUME NEW i \in 1 .. n - 1, NEW j \in 1 .. n - 1, t[i] = t[j]
                    PROVE  i = j
        BY <1>1 DEF Injective
      <3>1. i + 1 \in 1 .. n /\ j + 1 \in 1 .. n /\ q[i + 1] = q[j + 1]
        BY <1>1
      <3>2. i + 1 = j + 1
        BY <1>4, <3>1 DEF Injective
      <3>. QED
        BY <3>2
    <2>. QED
      BY <2>1, <2>2
  <1>. QED
    BY <1>3, <1>4 DEF t

\* Places, in terms of membership.
LEMMA PlacesIs ==
    ASSUME NEW F, NEW S, NEW H, NEW D, NEW all
    PROVE  Places(F, S, H, D, all) <=>
              /\ F \subseteq all /\ H \subseteq all /\ F \cap H = {}
              /\ S \in Seq(all) /\ Injective(S) /\ D \in Seq(all) /\ Injective(D)
              /\ \A x : In(S, x) => x \notin F /\ x \notin H /\ ~In(D, x)
              /\ \A x : In(D, x) => x \notin F /\ x \notin H
              /\ \A x \in all : x \in F \/ x \in H \/ In(S, x) \/ In(D, x)
  BY DEF Places, Apart, In

\* A free chain is supplied.
LEMMA PlacesSupply ==
    ASSUME NEW F, NEW S, NEW H, NEW D, NEW all, Places(F, S, H, D, all), NEW c \in F
    PROVE  Places(F \ {c}, Append(S, c), H, D, all)
  <1>1. c \in all /\ S \in Seq(all) /\ Injective(S) /\ ~In(S, c)
    BY PlacesIs
  <1>2. Append(S, c) \in Seq(all) /\ Injective(Append(S, c))
    BY <1>1, AppendIs, AppendIn
  <1>3. \A x : In(Append(S, c), x) <=> In(S, x) \/ x = c
    BY <1>1, AppendIn
  <1>. QED
    BY <1>2, <1>3, PlacesIs

\* The host takes the oldest chain.
LEMMA PlacesTake ==
    ASSUME NEW F, NEW S, NEW H, NEW D, NEW all, Places(F, S, H, D, all), Len(S) > 0
    PROVE  Places(F, Tail(S), H \cup {S[1]}, D, all) /\ S[1] \notin H /\ S[1] \in all
  <1>1. S \in Seq(all) /\ Injective(S)
    BY PlacesIs
  <1>2. Tail(S) \in Seq(all) /\ Injective(Tail(S)) /\ S[1] \in all
    BY <1>1, TailIs, TailIn
  <1>3. \A x : In(S, x) <=> In(Tail(S), x) \/ x = S[1]
    BY <1>1, TailIn
  <1>4. ~In(Tail(S), S[1])
    BY <1>1, TailIn
  <1>. QED
    BY <1>2, <1>3, <1>4, PlacesIs

\* The host completes a chain.
LEMMA PlacesComplete ==
    ASSUME NEW F, NEW S, NEW H, NEW D, NEW all, Places(F, S, H, D, all), NEW c \in H
    PROVE  Places(F, S, H \ {c}, Append(D, c), all)
  <1>1. c \in all /\ D \in Seq(all) /\ Injective(D) /\ ~In(D, c)
    BY PlacesIs
  <1>2. Append(D, c) \in Seq(all) /\ Injective(Append(D, c))
    BY <1>1, AppendIs, AppendIn
  <1>3. \A x : In(Append(D, c), x) <=> In(D, x) \/ x = c
    BY <1>1, AppendIn
  <1>. QED
    BY <1>2, <1>3, PlacesIs

\* The driver reaps the oldest completed chain.
LEMMA PlacesReap ==
    ASSUME NEW F, NEW S, NEW H, NEW D, NEW all, Places(F, S, H, D, all), Len(D) > 0
    PROVE  Places(F \cup {D[1]}, S, H, Tail(D), all) /\ D[1] \notin F /\ D[1] \in all
  <1>1. D \in Seq(all) /\ Injective(D)
    BY PlacesIs
  <1>2. Tail(D) \in Seq(all) /\ Injective(Tail(D)) /\ D[1] \in all
    BY <1>1, TailIs, TailIn
  <1>3. \A x : In(D, x) <=> In(Tail(D), x) \/ x = D[1]
    BY <1>1, TailIn
  <1>4. ~In(Tail(D), D[1])
    BY <1>1, TailIn
  <1>. QED
    BY <1>2, <1>3, <1>4, PlacesIs

-----------------------------------------------------------------------------
(* The inductive invariant, by subject.                                    *)

Rings(size, chains) ==
    [AvailRing : [0 .. size - 1 -> chains], AvailIdx : Indices,
     UsedElem  : [0 .. size - 1 -> chains], UsedIdx  : Indices,
     Desc      : [chains -> TxAddresses \cup {None}]]
TxElements == [chain : TxChains, addr : TxAddresses \cup {None}]

StatusTypes ==
    /\ State \in {"Stopped", "Started", "Initialized"}
    /\ dev \in {"reset", "driver", "driver_ok", "failed"}
    /\ kicked \subseteq {"Tx", "Rx"}
    /\ asserted \in BOOLEAN
TxTypes ==
    /\ TxRing \in Rings(TxQueueSize, TxChains)
    /\ TxFreeStack = <<>> \/ TxFreeStack \in [1 .. TxMaxPending -> TxChains]
    /\ TxCurPending \in 0 .. TxMaxPending /\ TxLastUsed \in Indices
    /\ TxBufCollection \in [DOMAIN TxBufCollection -> Buffers]
    /\ DOMAIN TxBufCollection \subseteq TxAddresses
    /\ owned \subseteq Buffers
    /\ hostTx \in [idx : Indices, chains : SUBSET TxElements]
RxTypes ==
    /\ RxRing \in Rings(RxQueueSize, RxChains)
    /\ RxLastUsed \in Indices
    /\ hostRx \in [idx : Indices, chains : SUBSET RxChains]
    /\ rxbuf \in [RxChains -> Packets \cup {None}]
    /\ wire \in Seq(Packets)
Types == StatusTypes /\ TxTypes /\ RxTypes

\* The steps and labels, in the order in which they acquire and release.
BindingSteps == {"unbound", "open", "waitevent", "getfeatures", "exitevent", "devicepath",
                 "install", "bychild", "UninstallMultiple", "FreeMacDevicePath", "Evacuate",
                 "CloseWaitForPacket", "CloseVirtIo", "FreeVirtioNet", "stopparent"}
RingSteps == {"driver", "RxRingInit", "RxRingMap", "RxRingSet", "RxUnmapQueue", "RxReleaseQueue",
              "TxRingInit", "TxRingMap", "TxRingSet", "TxUnmapQueue", "TxReleaseQueue",
              "driverok", "ReleaseTxRing", "ReleaseRxRing", "DeviceFailed"}
InitTxSteps == {"TxFreeStack", "TxBufCollection", "TxSharedReq", "TxSharedReqMap",
                "FreeTxSharedReqBuffer", "UninitTxBufCollection", "FreeTxFreeStack"}
InitRxSteps == {"RxBuf", "RxBufMap", "RxPublish", "RxNotify"}
UnwindSteps == {"UnmapSharedBuffer", "FreeSharedBuffer", "ReleaseTxAux", "AbortDevice"}
CallSteps == {"TxInsert", "TxPublish", "TxNotify", "RxRecycle", "RxRecycleNotify"}
ShutdownSteps == {"ShutdownRx", "ShutdownTx", "ShutdownTxRing", "ShutdownRxRing"}

\* The interface accepts Transmit(), GetStatus() and Receive(), or one of them runs.
Operating == pc \in CallSteps \/ (pc = "idle" /\ State = "Initialized")

Control ==
    /\ pc \in BindingSteps \cup RingSteps \cup InitTxSteps \cup InitRxSteps \cup UnwindSteps
              \cup CallSteps \cup ShutdownSteps \cup {"idle", "exited"}
    /\ pc \in BindingSteps => State = "Stopped"
    /\ pc \in RingSteps \cup InitTxSteps \cup InitRxSteps \cup UnwindSteps => State = "Started"
    /\ pc \in CallSteps \cup ShutdownSteps => State = "Initialized"

\* When the device is live.  One that is not has no chains.
NothingTaken == [idx |-> 0, chains |-> {}]

Device ==
    /\ pc \in InitTxSteps \cup InitRxSteps \/ Operating => dev = "driver_ok"
    /\ pc = "idle" /\ State # "Initialized" => dev = "reset"
    /\ pc \in {"exitevent", "devicepath", "install", "bychild"} \cup ShutdownSteps => dev = "reset"
    /\ pc \in BindingSteps \cup RingSteps \cup {"exited", "UnmapSharedBuffer"}
          => dev # "driver_ok"
    /\ dev # "driver_ok" => hostTx = NothingTaken /\ hostRx = NothingTaken /\ wire = <<>>
    /\ pc \in {"driver", "RxRingInit", "RxRingMap", "RxRingSet", "TxRingInit", "TxRingMap",
               "TxRingSet", "driverok"} => dev = "driver"

\* What is held, by the step or the label.
Bound == {"Dev", "VirtIo", "WaitForPacket", "ExitBoot", "MacDevicePath", "Snp", "Child"}

Holdings ==
    /\ pc \in {"unbound", "exited"} => held = {}
    /\ pc \in {"open", "FreeVirtioNet"} => held = {"Dev"}
    /\ pc = "stopparent" => held = {"VirtIo"}
    /\ pc \in {"waitevent", "CloseVirtIo"} => held = {"Dev", "VirtIo"}
    /\ pc \in {"getfeatures", "exitevent", "CloseWaitForPacket"} =>
          held = {"Dev", "VirtIo", "WaitForPacket"}
    /\ pc \in {"devicepath", "Evacuate"} => held = {"Dev", "VirtIo", "WaitForPacket", "ExitBoot"}
    /\ pc \in {"install", "FreeMacDevicePath"} =>
          held = {"Dev", "VirtIo", "WaitForPacket", "ExitBoot", "MacDevicePath"}
    /\ pc \in {"bychild", "UninstallMultiple"} =>
          held = {"Dev", "VirtIo", "WaitForPacket", "ExitBoot", "MacDevicePath", "Snp"}
    /\ pc \in {"driver", "RxRingInit", "DeviceFailed"} => held = Bound
    /\ pc = "idle" /\ State # "Initialized" => held = Bound
    /\ pc \in {"RxRingMap", "RxRingSet", "RxUnmapQueue", "RxReleaseQueue", "TxRingInit",
               "ReleaseRxRing", "ShutdownRxRing"} => held = Bound \cup {"RxRing"}
    /\ pc \in {"TxRingMap", "TxRingSet", "TxUnmapQueue", "TxReleaseQueue", "driverok",
               "ReleaseTxRing", "TxFreeStack", "AbortDevice", "ShutdownTxRing"} =>
          held = Bound \cup {"RxRing", "TxRing"}
    /\ pc \in {"TxBufCollection", "FreeTxFreeStack"} =>
          held = Bound \cup {"RxRing", "TxRing", "TxFreeStack"}
    /\ pc \in {"TxSharedReq", "UninitTxBufCollection"} =>
          held = Bound \cup {"RxRing", "TxRing", "TxFreeStack", "TxBufCollection"}
    /\ pc \in {"TxSharedReqMap", "FreeTxSharedReqBuffer", "RxBuf", "ReleaseTxAux", "ShutdownTx"} =>
          held = Resources \ {"RxBuf"}
    /\ pc \in {"RxBufMap", "RxPublish", "RxNotify", "UnmapSharedBuffer", "FreeSharedBuffer",
               "ShutdownRx"} \/ Operating => held = Resources

\* What is mapped, by the step or the label.
Mappings ==
    /\ pc \in BindingSteps \cup {"exited", "driver", "RxRingInit", "RxRingMap", "RxReleaseQueue",
                                 "DeviceFailed"} => mapped = {}
    /\ pc = "idle" /\ State # "Initialized" => mapped = {}
    /\ pc \in {"RxRingSet", "RxUnmapQueue", "TxRingInit", "TxRingMap", "TxReleaseQueue",
               "ReleaseRxRing", "ShutdownRxRing"} => mapped = {"RxRing"}
    /\ pc \in {"TxRingSet", "TxUnmapQueue", "driverok", "ReleaseTxRing", "ShutdownTxRing"}
              \cup InitTxSteps \cup {"AbortDevice"} => mapped = {"RxRing", "TxRing"}
    /\ pc \in {"RxBuf", "RxBufMap", "ReleaseTxAux", "FreeSharedBuffer"} =>
          mapped = {"RxRing", "TxRing", "TxSharedReq"}
    /\ pc = "ShutdownTx" => mapped = {"RxRing", "TxRing", "TxSharedReq"} \cup DOMAIN TxBufCollection
    /\ pc \in {"RxPublish", "RxNotify", "UnmapSharedBuffer"} =>
          mapped = {"RxRing", "TxRing", "TxSharedReq", "RxBuf"}
    /\ pc = "ShutdownRx" \/ (Operating /\ pc # "TxInsert") =>
          mapped = {"RxRing", "TxRing", "TxSharedReq", "RxBuf"} \cup DOMAIN TxBufCollection
    /\ pc = "TxInsert" =>
          mapped = {"RxRing", "TxRing", "TxSharedReq", "RxBuf"} \cup DOMAIN TxBufCollection
                   \cup {cur.addr}

\* The rings of a device that is being set up or torn down: nothing is on them.
Empty(ring) == ring.AvailIdx = 0 /\ ring.UsedIdx = 0
TxOperating == pc \in InitRxSteps \/ Operating
RxOperating == pc \in {"RxPublish", "RxNotify"} \/ Operating

Idle ==
    /\ ~Operating /\ pc \notin {"ShutdownRx", "ShutdownTx", "exited"} => TxBufCollection = <<>>
    /\ pc \in {"RxRingMap", "RxRingSet", "TxRingInit", "TxRingMap", "TxRingSet", "driverok"}
          => Empty(RxRing)
    /\ pc \in {"TxRingMap", "TxRingSet", "driverok"} => Empty(TxRing)
    /\ dev = "driver_ok" /\ ~Operating => Empty(TxRing) /\ hostTx = NothingTaken
    /\ dev = "driver_ok" /\ ~RxOperating =>
          Empty(RxRing) /\ hostRx = NothingTaken /\ wire = <<>>
    /\ pc \in {"TxBufCollection", "TxSharedReq", "TxSharedReqMap"} => TxCurPending = 0

\* The transmit chains.  While pc is "TxPublish" the chain is in the ring already, and
\* Avail.Idx not yet behind it, so that the host cannot take it.
TxEnd == IF pc = "TxPublish" THEN (TxRing.AvailIdx + 1) % IdxMod ELSE TxRing.AvailIdx
TxSupplied == Queue(TxRing.AvailRing, hostTx.idx, TxEnd, TxQueueSize)
TxTaken == {c.chain : c \in hostTx.chains}
TxDone == Queue(TxRing.UsedElem, TxLastUsed, TxRing.UsedIdx, TxQueueSize)

TxQueues == TxOperating =>
    /\ TxFreeStack \in [1 .. TxMaxPending -> TxChains]
    /\ \A i, j \in TxCurPending + 1 .. TxMaxPending : TxFreeStack[i] = TxFreeStack[j] => i = j
    /\ Places(FreeTx, TxSupplied, TxTaken, TxDone, TxChains)
    /\ Len(TxSupplied) + Cardinality(TxTaken) + Len(TxDone) = TxCurPending
    /\ pc \in InitRxSteps => TxCurPending = 0
    /\ pc \in {"TxPublish", "TxNotify"} => TxCurPending > 0
    /\ pc = "TxInsert" => TxCurPending < TxMaxPending
    /\ pc = "TxPublish" => TxEnd # hostTx.idx

\* The chains in use have different addresses, those of the buffers collected; the host
\* has seen these addresses.
TxBuffers == TxOperating =>
    /\ DOMAIN TxBufCollection = {TxRing.Desc[c] : c \in TxChains \ FreeTx}
    /\ \A c, d \in TxChains \ FreeTx : TxRing.Desc[c] = TxRing.Desc[d] => c = d
    /\ \A c \in hostTx.chains : c.addr = TxRing.Desc[c.chain]

\* Transmit()'s locals.
Locals ==
    /\ pc \in {"TxInsert", "TxPublish", "TxNotify"} =>
          /\ cur \in [buf : Buffers, addr : TxAddresses]
          /\ Identity => cur.addr = cur.buf
    /\ pc = "TxInsert" /\ ~Identity => cur.addr \notin DOMAIN TxBufCollection
    /\ Identity => \A a \in DOMAIN TxBufCollection : TxBufCollection[a] = a

\* The receive chains; a chain is recycled in two steps, too.
RxEnd == CASE pc = "RxPublish" -> RxAlwaysPending
           [] pc = "RxRecycle" -> (RxRing.AvailIdx + 1) % IdxMod
           [] OTHER -> RxRing.AvailIdx
RxSupplied == Queue(RxRing.AvailRing, hostRx.idx, RxEnd, RxQueueSize)
RxDone == Queue(RxRing.UsedElem, RxLastUsed, RxRing.UsedIdx, RxQueueSize)

RxQueues == RxOperating =>
    /\ Places({}, RxSupplied, hostRx.chains, RxDone, RxChains)
    /\ Len(RxSupplied) + Cardinality(hostRx.chains) + Len(RxDone) = RxAlwaysPending
    /\ pc = "RxPublish" => Empty(RxRing) /\ hostRx = NothingTaken /\ RxLastUsed = 0
    /\ pc = "RxRecycle" => RxEnd # hostRx.idx

\* The packets that wait, in order.
RxPackets == RxOperating =>
    /\ Len(wire) = Len(RxDone)
    /\ \A k \in 1 .. Len(wire) : rxbuf[RxDone[k]] = wire[k]

Inv ==
    /\ Types /\ Control /\ Device /\ Holdings /\ Mappings /\ Idle /\ Locals
    /\ TxQueues /\ TxBuffers /\ RxQueues /\ RxPackets

\* Who has which buffer, which is settled unless a notification fails.
InCollection == {TxBufCollection[a] : a \in DOMAIN TxBufCollection}
Owners ==
    /\ ~asserted
    /\ owned = Buffers \ (InCollection \cup IF pc = "TxInsert" THEN {cur.buf} ELSE {})
    /\ pc = "TxInsert" => cur.buf \notin InCollection
    /\ \A a, b \in DOMAIN TxBufCollection : TxBufCollection[a] = TxBufCollection[b] => a = b

OInv == Inv /\ Owners

-----------------------------------------------------------------------------
(* The constants, and frames.                                              *)

\* A ring holds twice as many descriptors as chains, and no more than an index counts.
LEMMA RingSize ==
    ASSUME NEW size \in Nat, size >= 2, IdxMod % size = 0
    PROVE  /\ Size(size) /\ size <= IdxMod
           /\ Least(size \div 2, VNET_MAX_PENDING) \in Nat \ {0}
           /\ 2 * Least(size \div 2, VNET_MAX_PENDING) <= size
  <1>1. IdxMod \in Nat \ {0}
    BY NetAssumption
  <1>2. IdxMod < size => IdxMod % size = IdxMod
    BY <1>1, ModSmall
  <1>3. size \div 2 \in Nat /\ size \div 2 >= 1 /\ 2 * (size \div 2) <= size
    OBVIOUS
  <1>4. Least(size \div 2, VNET_MAX_PENDING) \in {size \div 2, VNET_MAX_PENDING}
    BY DEF Least
  <1>5. Least(size \div 2, VNET_MAX_PENDING) <= size \div 2
    BY <1>3, NetAssumption DEF Least
  <1>. QED
    BY <1>1, <1>2, <1>3, <1>4, <1>5, NetAssumption DEF Size

\* The numbers of chains, from the sizes of the rings.
LEMMA Sizes ==
    /\ Size(TxQueueSize) /\ TxQueueSize \in Nat \ {0} /\ TxQueueSize <= IdxMod
    /\ TxMaxPending \in Nat \ {0} /\ 2 * TxMaxPending <= TxQueueSize
    /\ Size(RxQueueSize) /\ RxQueueSize \in Nat \ {0} /\ RxQueueSize <= IdxMod
    /\ RxAlwaysPending \in Nat \ {0} /\ 2 * RxAlwaysPending <= RxQueueSize
    /\ IdxMod \in Nat \ {0}
  <1>1. /\ Size(TxQueueSize) /\ TxQueueSize <= IdxMod
        /\ TxMaxPending \in Nat \ {0} /\ 2 * TxMaxPending <= TxQueueSize
    BY RingSize, NetAssumption DEF TxMaxPending
  <1>2. /\ Size(RxQueueSize) /\ RxQueueSize <= IdxMod
        /\ RxAlwaysPending \in Nat \ {0} /\ 2 * RxAlwaysPending <= RxQueueSize
    BY RingSize, NetAssumption DEF RxAlwaysPending
  <1>. QED
    BY <1>1, <1>2, NetAssumption

\* The chains of a ring, by number.
LEMMA EvenNumbers ==
    ASSUME NEW n \in Nat
    PROVE  /\ IsFiniteSet({2 * i : i \in 0 .. n - 1})
           /\ Cardinality({2 * i : i \in 0 .. n - 1}) = n
  <1>. DEFINE S == 0 .. n - 1
              T == {2 * i : i \in S}
              f == [i \in S |-> 2 * i]
  <1>1. IsFiniteSet(S) /\ Cardinality(S) = n
    BY FS_Interval
  <1>2. f \in Bijection(S, T)
    <2>1. f \in [S -> T]
      OBVIOUS
    <2>2. \A i, j \in S : f[i] = f[j] => i = j
      OBVIOUS
    <2>3. \A t \in T : \E i \in S : f[i] = t
      OBVIOUS
    <2>. HIDE DEF S, T, f
    <2>. QED
      BY <2>1, <2>2, <2>3 DEF Bijection, Injection, Surjection, IsInjective
  <1>3. ExistsBijection(S, T)
    BY <1>2 DEF ExistsBijection
  <1>. QED
    BY <1>1, <1>3, FS_Bijection

\* There are finitely many chains, and they fit the rings.
LEMMA Chains ==
    /\ 0 \in TxChains /\ \A c \in TxChains : c \in Nat /\ c < 2 * TxMaxPending - 1
    /\ 0 \in RxChains /\ RxChains \subseteq Nat
    /\ IsFiniteSet(TxChains) /\ Cardinality(TxChains) = TxMaxPending
    /\ IsFiniteSet(RxChains) /\ Cardinality(RxChains) = RxAlwaysPending
  <1>1. 0 = 2 * 0 /\ 0 \in 0 .. TxMaxPending - 1 /\ 0 \in 0 .. RxAlwaysPending - 1
    BY Sizes
  <1>2. \A c \in TxChains : c \in Nat /\ c < 2 * TxMaxPending - 1
    BY Sizes DEF TxChains
  <1>3. RxChains \subseteq Nat
    BY Sizes DEF RxChains
  <1>4. 0 \in TxChains /\ 0 \in RxChains
    BY <1>1 DEF TxChains, RxChains
  <1>5. IsFiniteSet(TxChains) /\ Cardinality(TxChains) = TxMaxPending
    BY Sizes, EvenNumbers DEF TxChains
  <1>6. IsFiniteSet(RxChains) /\ Cardinality(RxChains) = RxAlwaysPending
    BY Sizes, EvenNumbers DEF RxChains
  <1>. QED
    BY <1>2, <1>3, <1>4, <1>5, <1>6

\* A ring as it is when it was allocated has its type and is empty.
LEMMA EmptyRings ==
    /\ EmptyRing(TxQueueSize, TxChains) \in Rings(TxQueueSize, TxChains)
    /\ EmptyRing(RxQueueSize, RxChains) \in Rings(RxQueueSize, RxChains)
    /\ Empty(EmptyRing(TxQueueSize, TxChains)) /\ Empty(EmptyRing(RxQueueSize, RxChains))
    /\ 0 \in Indices
  <1>1. 0 \in Indices
    BY Sizes DEF Indices
  <1>2. ASSUME NEW size, NEW chains, 0 \in chains
        PROVE  EmptyRing(size, chains) \in Rings(size, chains) /\ Empty(EmptyRing(size, chains))
    <2>1. /\ [i \in 0 .. size - 1 |-> 0] \in [0 .. size - 1 -> chains]
          /\ [c \in chains |-> None] \in [chains -> TxAddresses \cup {None}]
      BY <1>2
    <2>. QED
      BY <1>1, <2>1 DEF EmptyRing, Rings, Empty
  <1>. QED
    BY <1>1, <1>2, Chains

\* The memory of the driver is not the caller's.
LEMMA AddressesApart ==
    /\ "RxRing" \notin TxAddresses /\ "TxRing" \notin TxAddresses
    /\ "TxSharedReq" \notin TxAddresses /\ "RxBuf" \notin TxAddresses
  BY NetAssumption DEF TxAddresses

\* An interface that is not operating has no queues to account for.
LEMMA NotOperating ==
    ASSUME ~TxOperating'
    PROVE  TxQueues' /\ TxBuffers' /\ RxQueues' /\ RxPackets'
  BY DEF TxOperating, RxOperating, InitRxSteps, TxQueues, TxBuffers, RxQueues, RxPackets

\* Steps that leave the transmit ring alone.
LEMMA TxFrame ==
    ASSUME TxQueues, TxBuffers, TxOperating' => TxOperating,
           UNCHANGED <<TxRing, TxFreeStack, TxCurPending, TxLastUsed, TxBufCollection, hostTx>>,
           pc' = "TxPublish" <=> pc = "TxPublish",
           pc' \in InitRxSteps => pc \in InitRxSteps,
           pc' \in {"TxPublish", "TxNotify"} => pc \in {"TxPublish", "TxNotify"},
           pc' = "TxInsert" => TxCurPending < TxMaxPending
    PROVE  TxQueues' /\ TxBuffers'
  <1>1. FreeTx' = FreeTx /\ TxTaken' = TxTaken
    BY DEF FreeTx, TxTaken
  <1>2. TxSupplied' = TxSupplied /\ TxDone' = TxDone
    BY DEF TxSupplied, TxDone, TxEnd
  <1>3. TxQueues'
    BY <1>1, <1>2 DEF TxQueues, TxEnd
  <1>4. TxBuffers'
    BY <1>1 DEF TxBuffers
  <1>. QED
    BY <1>3, <1>4

\* Steps that leave the receive ring alone.
LEMMA RxFrame ==
    ASSUME RxQueues, RxPackets, RxOperating' => RxOperating,
           UNCHANGED <<RxRing, RxLastUsed, hostRx, rxbuf, wire>>,
           pc' = "RxPublish" <=> pc = "RxPublish",
           pc' = "RxRecycle" <=> pc = "RxRecycle"
    PROVE  RxQueues' /\ RxPackets'
  <1>1. RxSupplied' = RxSupplied /\ RxDone' = RxDone
    BY DEF RxSupplied, RxDone, RxEnd
  <1>2. RxQueues'
    BY <1>1 DEF RxQueues, Empty, RxEnd
  <1>3. RxPackets'
    BY <1>1 DEF RxPackets
  <1>. QED
    BY <1>2, <1>3

\* Types of what stays the same.
LEMMA TxTypesFrame ==
    ASSUME TxTypes, UNCHANGED <<TxRing, TxFreeStack, TxCurPending, TxLastUsed, TxBufCollection>>,
           UNCHANGED <<owned, hostTx>>
    PROVE  TxTypes'
  <1>1. /\ TxRing' \in Rings(TxQueueSize, TxChains)
        /\ TxCurPending' \in 0 .. TxMaxPending /\ TxLastUsed' \in Indices
        /\ hostTx' \in [idx : Indices, chains : SUBSET TxElements]
    BY DEF TxTypes
  <1>2. TxFreeStack' = <<>> \/ TxFreeStack' \in [1 .. TxMaxPending -> TxChains]
    BY DEF TxTypes
  <1>3. /\ TxBufCollection' \in [DOMAIN TxBufCollection' -> Buffers]
        /\ DOMAIN TxBufCollection' \subseteq TxAddresses /\ owned' \subseteq Buffers
    BY DEF TxTypes
  <1>. QED
    BY <1>1, <1>2, <1>3 DEF TxTypes

\* RxTypes depends on the receive side only.
LEMMA RxTypesFrame ==
    ASSUME RxTypes, UNCHANGED <<RxRing, RxLastUsed, hostRx, rxbuf, wire>>
    PROVE  RxTypes'
  <1>1. RxRing' \in Rings(RxQueueSize, RxChains) /\ RxLastUsed' \in Indices
    BY DEF RxTypes
  <1>2. hostRx' \in [idx : Indices, chains : SUBSET RxChains]
    BY DEF RxTypes
  <1>3. rxbuf' \in [RxChains -> Packets \cup {None}] /\ wire' \in Seq(Packets)
    BY DEF RxTypes
  <1>. QED
    BY <1>1, <1>2, <1>3 DEF RxTypes

\* The invariant holds initially.
LEMMA InvInit == ASSUME Init PROVE Inv
  <1>1. /\ pc = "unbound" /\ held = {} /\ mapped = {} /\ State = "Stopped" /\ dev = "reset"
        /\ TxBufCollection = <<>> /\ hostTx = NothingTaken /\ hostRx = NothingTaken
        /\ wire = <<>>
    BY DEF Init, NothingTaken
  <1>2. Types
    <2>1. TxRing \in Rings(TxQueueSize, TxChains) /\ RxRing \in Rings(RxQueueSize, RxChains)
      BY EmptyRings DEF Init
    <2>2. /\ hostTx \in [idx : Indices, chains : SUBSET TxElements]
          /\ hostRx \in [idx : Indices, chains : SUBSET RxChains]
      BY EmptyRings DEF Init
    <2>3. rxbuf \in [RxChains -> Packets \cup {None}]
      BY DEF Init, ZeroRxBuf
    <2>4. TxBufCollection \in [DOMAIN TxBufCollection -> Buffers] /\ DOMAIN TxBufCollection = {}
      BY <1>1
    <2>5. TxCurPending \in 0 .. TxMaxPending /\ TxLastUsed \in Indices /\ RxLastUsed \in Indices
      BY EmptyRings, Sizes DEF Init
    <2>6. /\ State \in {"Stopped", "Started", "Initialized"}
          /\ dev \in {"reset", "driver", "driver_ok", "failed"}
          /\ asserted \in BOOLEAN /\ kicked \subseteq {"Tx", "Rx"}
      BY DEF Init
    <2>7. owned \subseteq Buffers /\ TxFreeStack = <<>> /\ wire \in Seq(Packets)
      BY DEF Init
    <2>. QED
      BY <2>1, <2>2, <2>3, <2>4, <2>5, <2>6, <2>7 DEF Types, StatusTypes, TxTypes, RxTypes
  <1>3. Control /\ Device /\ Holdings /\ Mappings /\ Idle /\ Locals
    BY <1>1 DEF Control, Device, Holdings, Mappings, Idle, Locals, Operating, TxOperating,
                RxOperating, BindingSteps, RingSteps, InitTxSteps, InitRxSteps, UnwindSteps,
                CallSteps, ShutdownSteps
  <1>4. TxQueues /\ TxBuffers /\ RxQueues /\ RxPackets
    BY <1>1 DEF TxQueues, TxBuffers, RxQueues, RxPackets, TxOperating, RxOperating, Operating,
                InitRxSteps, CallSteps
  <1>. QED
    BY <1>2, <1>3, <1>4 DEF Inv

-----------------------------------------------------------------------------
(* The steps of the binding and of Initialize() that leave the rings alone. *)

Plain ==
    \/ BindingAcquire \/ VirtioNetGetFeatures \/ BindingRelease
    \/ VirtioNetDriverBindingStopChild \/ VirtioNetDriverBindingStop
    \/ VirtioNetStart \/ VirtioNetStop \/ VirtioNetInitialize \/ NegotiateFeatures \/ DriverOk
    \/ InitTxUnwind \/ InitRxUnwind

\* A plain step leaves the rings and what the host has taken alone.
LEMMA PlainFrame ==
    ASSUME Plain
    PROVE  /\ UNCHANGED <<TxRing, TxFreeStack, TxCurPending, TxLastUsed, TxBufCollection, cur>>
           /\ UNCHANGED <<owned, RxRing, RxLastUsed, asserted, kicked, hostTx, hostRx, rxbuf, wire>>
  <1>1. CASE BindingAcquire
    BY <1>1 DEF BindingAcquire, AllocateDev, OpenVirtIo, CreateWaitForPacket, CreateExitBoot,
           AppendMacNode, InstallSnp, OpenByChild, tx, rx, host
  <1>2. CASE VirtioNetGetFeatures
    BY <1>2 DEF VirtioNetGetFeatures, tx, rx, host
  <1>3. CASE BindingRelease
    BY <1>3 DEF BindingRelease, VirtioNetSnpEvacuate, tx, rx, host
  <1>4. CASE VirtioNetDriverBindingStopChild
    BY <1>4 DEF VirtioNetDriverBindingStopChild, tx, rx, host
  <1>5. CASE VirtioNetDriverBindingStop
    BY <1>5 DEF VirtioNetDriverBindingStop, tx, rx, host
  <1>6. CASE VirtioNetStart
    BY <1>6 DEF VirtioNetStart, tx, rx, host
  <1>7. CASE VirtioNetStop
    BY <1>7 DEF VirtioNetStop, tx, rx, host
  <1>8. CASE VirtioNetInitialize
    BY <1>8 DEF VirtioNetInitialize, tx, rx, host
  <1>9. CASE NegotiateFeatures
    BY <1>9 DEF NegotiateFeatures, tx, rx, host
  <1>10. CASE DriverOk
    BY <1>10 DEF DriverOk, tx, rx, host
  <1>11. CASE InitTxUnwind
    BY <1>11 DEF InitTxUnwind, tx, rx, host
  <1>12. CASE InitRxUnwind
    BY <1>12 DEF InitRxUnwind, tx, rx, host
  <1>. QED
    BY <1>1, <1>2, <1>3, <1>4, <1>5, <1>6, <1>7, <1>8, <1>9, <1>10, <1>11, <1>12 DEF Plain

\* Control, for the steps of the binding, Start(), Stop() and Initialize().
LEMMA PlainControl == ASSUME Inv, Plain PROVE Control'
  <1>. USE PlainFrame DEF Inv, Control, Device, Acquire, Release,
          Operating, BindingSteps, RingSteps, InitTxSteps, InitRxSteps,
          UnwindSteps, CallSteps, ShutdownSteps
  <1>1. CASE BindingAcquire
    BY <1>1 DEF BindingAcquire, AllocateDev, OpenVirtIo, CreateWaitForPacket, CreateExitBoot,
           AppendMacNode, InstallSnp, OpenByChild
  <1>2. CASE VirtioNetGetFeatures
    BY <1>2 DEF VirtioNetGetFeatures
  <1>3. CASE BindingRelease
    BY <1>3 DEF BindingRelease, VirtioNetSnpEvacuate
  <1>4. CASE VirtioNetDriverBindingStopChild
    BY <1>4 DEF VirtioNetDriverBindingStopChild
  <1>5. CASE VirtioNetDriverBindingStop
    BY <1>5 DEF VirtioNetDriverBindingStop
  <1>6. CASE VirtioNetStart
    BY <1>6 DEF VirtioNetStart
  <1>7. CASE VirtioNetStop
    BY <1>7 DEF VirtioNetStop
  <1>8. CASE VirtioNetInitialize
    BY <1>8 DEF VirtioNetInitialize
  <1>9. CASE NegotiateFeatures
    BY <1>9 DEF NegotiateFeatures
  <1>10. CASE DriverOk
    BY <1>10 DEF DriverOk
  <1>11. CASE InitTxUnwind
    BY <1>11 DEF InitTxUnwind
  <1>12. CASE InitRxUnwind
    BY <1>12 DEF InitRxUnwind
  <1>. QED
    BY <1>1, <1>2, <1>3, <1>4, <1>5, <1>6, <1>7, <1>8, <1>9, <1>10, <1>11, <1>12 DEF Plain

\* Device, for the same steps.
LEMMA PlainDevice == ASSUME Inv, Plain PROVE Device'
  <1>. USE PlainFrame DEF Inv, Control, Device, Acquire, Release,
          Operating, BindingSteps, RingSteps, InitTxSteps, InitRxSteps,
          UnwindSteps, CallSteps, ShutdownSteps, host
  <1>1. CASE BindingAcquire
    BY <1>1 DEF BindingAcquire, AllocateDev, OpenVirtIo, CreateWaitForPacket, CreateExitBoot,
           AppendMacNode, InstallSnp, OpenByChild
  <1>2. CASE VirtioNetGetFeatures
    BY <1>2 DEF VirtioNetGetFeatures
  <1>3. CASE BindingRelease
    BY <1>3 DEF BindingRelease, VirtioNetSnpEvacuate
  <1>4. CASE VirtioNetDriverBindingStopChild
    BY <1>4 DEF VirtioNetDriverBindingStopChild
  <1>5. CASE VirtioNetDriverBindingStop
    BY <1>5 DEF VirtioNetDriverBindingStop
  <1>6. CASE VirtioNetStart
    BY <1>6 DEF VirtioNetStart
  <1>7. CASE VirtioNetStop
    BY <1>7 DEF VirtioNetStop
  <1>8. CASE VirtioNetInitialize
    BY <1>8 DEF VirtioNetInitialize
  <1>9. CASE NegotiateFeatures
    BY <1>9 DEF NegotiateFeatures
  <1>10. CASE DriverOk
    BY <1>10 DEF DriverOk
  <1>11. CASE InitTxUnwind
    BY <1>11 DEF InitTxUnwind
  <1>12. CASE InitRxUnwind
    BY <1>12 DEF InitRxUnwind
  <1>. QED
    BY <1>1, <1>2, <1>3, <1>4, <1>5, <1>6, <1>7, <1>8, <1>9, <1>10, <1>11, <1>12 DEF Plain

\* Holdings, for the same steps.
LEMMA PlainHoldings == ASSUME Inv, Plain PROVE Holdings'
  <1>. USE PlainFrame DEF Inv, Control, Device, Holdings, Acquire, Release,
          Operating, BindingSteps, RingSteps, InitTxSteps, InitRxSteps,
          UnwindSteps, CallSteps, ShutdownSteps, Resources, Bound
  <1>1. CASE BindingAcquire
    BY <1>1 DEF BindingAcquire, AllocateDev, OpenVirtIo, CreateWaitForPacket, CreateExitBoot,
           AppendMacNode, InstallSnp, OpenByChild
  <1>2. CASE VirtioNetGetFeatures
    BY <1>2 DEF VirtioNetGetFeatures
  <1>3. CASE BindingRelease
    BY <1>3 DEF BindingRelease, VirtioNetSnpEvacuate
  <1>4. CASE VirtioNetDriverBindingStopChild
    BY <1>4 DEF VirtioNetDriverBindingStopChild
  <1>5. CASE VirtioNetDriverBindingStop
    BY <1>5 DEF VirtioNetDriverBindingStop
  <1>6. CASE VirtioNetStart
    BY <1>6 DEF VirtioNetStart
  <1>7. CASE VirtioNetStop
    BY <1>7 DEF VirtioNetStop
  <1>8. CASE VirtioNetInitialize
    BY <1>8 DEF VirtioNetInitialize
  <1>9. CASE NegotiateFeatures
    BY <1>9 DEF NegotiateFeatures
  <1>10. CASE DriverOk
    BY <1>10 DEF DriverOk
  <1>11. CASE InitTxUnwind
    BY <1>11 DEF InitTxUnwind
  <1>12. CASE InitRxUnwind
    BY <1>12 DEF InitRxUnwind
  <1>. QED
    BY <1>1, <1>2, <1>3, <1>4, <1>5, <1>6, <1>7, <1>8, <1>9, <1>10, <1>11, <1>12 DEF Plain

\* Mappings, for the same steps.
LEMMA PlainMappings == ASSUME Inv, Plain PROVE Mappings'
  <1>. USE PlainFrame DEF Inv, Control, Device, Mappings, Acquire, Release,
          Operating, BindingSteps, RingSteps, InitTxSteps, InitRxSteps,
          UnwindSteps, CallSteps, ShutdownSteps
  <1>1. CASE BindingAcquire
    BY <1>1 DEF BindingAcquire, AllocateDev, OpenVirtIo, CreateWaitForPacket, CreateExitBoot,
           AppendMacNode, InstallSnp, OpenByChild
  <1>2. CASE VirtioNetGetFeatures
    BY <1>2 DEF VirtioNetGetFeatures
  <1>3. CASE BindingRelease
    BY <1>3 DEF BindingRelease, VirtioNetSnpEvacuate
  <1>4. CASE VirtioNetDriverBindingStopChild
    BY <1>4 DEF VirtioNetDriverBindingStopChild
  <1>5. CASE VirtioNetDriverBindingStop
    BY <1>5 DEF VirtioNetDriverBindingStop
  <1>6. CASE VirtioNetStart
    BY <1>6 DEF VirtioNetStart
  <1>7. CASE VirtioNetStop
    BY <1>7 DEF VirtioNetStop
  <1>8. CASE VirtioNetInitialize
    BY <1>8 DEF VirtioNetInitialize
  <1>9. CASE NegotiateFeatures
    BY <1>9 DEF NegotiateFeatures
  <1>10. CASE DriverOk
    BY <1>10 DEF DriverOk
  <1>11. CASE InitTxUnwind
    BY <1>11 DEF InitTxUnwind
  <1>12. CASE InitRxUnwind
    BY <1>12 DEF InitRxUnwind
  <1>. QED
    BY <1>1, <1>2, <1>3, <1>4, <1>5, <1>6, <1>7, <1>8, <1>9, <1>10, <1>11, <1>12 DEF Plain

\* Idle, for the same steps.
LEMMA PlainIdle == ASSUME Inv, Plain PROVE Idle'
  <1>. USE PlainFrame DEF Inv, Control, Device, Idle, Acquire, Release,
          Operating, BindingSteps, RingSteps, InitTxSteps, InitRxSteps,
          UnwindSteps, CallSteps, ShutdownSteps, TxOperating, RxOperating, Empty, host
  <1>1. CASE BindingAcquire
    BY <1>1 DEF BindingAcquire, AllocateDev, OpenVirtIo, CreateWaitForPacket, CreateExitBoot,
           AppendMacNode, InstallSnp, OpenByChild
  <1>2. CASE VirtioNetGetFeatures
    BY <1>2 DEF VirtioNetGetFeatures
  <1>3. CASE BindingRelease
    BY <1>3 DEF BindingRelease, VirtioNetSnpEvacuate
  <1>4. CASE VirtioNetDriverBindingStopChild
    BY <1>4 DEF VirtioNetDriverBindingStopChild
  <1>5. CASE VirtioNetDriverBindingStop
    BY <1>5 DEF VirtioNetDriverBindingStop
  <1>6. CASE VirtioNetStart
    BY <1>6 DEF VirtioNetStart
  <1>7. CASE VirtioNetStop
    BY <1>7 DEF VirtioNetStop
  <1>8. CASE VirtioNetInitialize
    BY <1>8 DEF VirtioNetInitialize
  <1>9. CASE NegotiateFeatures
    BY <1>9 DEF NegotiateFeatures
  <1>10. CASE DriverOk
    BY <1>10 DEF DriverOk
  <1>11. CASE InitTxUnwind
    BY <1>11 DEF InitTxUnwind
  <1>12. CASE InitRxUnwind
    BY <1>12 DEF InitRxUnwind
  <1>. QED
    BY <1>1, <1>2, <1>3, <1>4, <1>5, <1>6, <1>7, <1>8, <1>9, <1>10, <1>11, <1>12 DEF Plain

\* Types of the status variables, for the same steps.
LEMMA PlainStatus ==
    ASSUME Inv, Plain
    PROVE  /\ State' \in {"Stopped", "Started", "Initialized"}
           /\ dev' \in {"reset", "driver", "driver_ok", "failed"}
  <1>. USE DEF Inv, Types, StatusTypes, host
  <1>1. CASE BindingAcquire
    BY <1>1 DEF BindingAcquire, AllocateDev, OpenVirtIo, CreateWaitForPacket, CreateExitBoot,
           AppendMacNode, InstallSnp, OpenByChild
  <1>2. CASE VirtioNetGetFeatures
    BY <1>2 DEF VirtioNetGetFeatures
  <1>3. CASE BindingRelease
    BY <1>3 DEF BindingRelease, VirtioNetSnpEvacuate
  <1>4. CASE VirtioNetDriverBindingStopChild
    BY <1>4 DEF VirtioNetDriverBindingStopChild
  <1>5. CASE VirtioNetDriverBindingStop
    BY <1>5 DEF VirtioNetDriverBindingStop
  <1>6. CASE VirtioNetStart
    BY <1>6 DEF VirtioNetStart
  <1>7. CASE VirtioNetStop
    BY <1>7 DEF VirtioNetStop
  <1>8. CASE VirtioNetInitialize
    BY <1>8 DEF VirtioNetInitialize
  <1>9. CASE NegotiateFeatures
    BY <1>9 DEF NegotiateFeatures
  <1>10. CASE DriverOk
    BY <1>10 DEF DriverOk
  <1>11. CASE InitTxUnwind
    BY <1>11 DEF InitTxUnwind
  <1>12. CASE InitRxUnwind
    BY <1>12 DEF InitRxUnwind
  <1>. QED
    BY <1>1, <1>2, <1>3, <1>4, <1>5, <1>6, <1>7, <1>8, <1>9, <1>10, <1>11, <1>12 DEF Plain

\* Types, for the same steps.
LEMMA PlainTypes == ASSUME Inv, Plain PROVE Types'
  <1>1. StatusTypes'
    BY PlainStatus, PlainFrame DEF Inv, Types, StatusTypes
  <1>2. TxTypes'
    BY PlainFrame, TxTypesFrame DEF Inv, Types
  <1>3. RxTypes'
    BY PlainFrame, RxTypesFrame DEF Inv, Types
  <1>. QED
    BY <1>1, <1>2, <1>3 DEF Types

\* None of these steps finds or leaves the interface initialized.
LEMMA PlainNotOperating ==
    ASSUME Inv, Plain
    PROVE  pc' \notin InitRxSteps \cup CallSteps /\ (pc' = "idle" => State' # "Initialized")
  <1>. USE DEF Inv, Control, Acquire, Release, BindingSteps, RingSteps, InitTxSteps,
          InitRxSteps, UnwindSteps, CallSteps
  <1>1. CASE BindingAcquire
    BY <1>1 DEF BindingAcquire, AllocateDev, OpenVirtIo, CreateWaitForPacket, CreateExitBoot,
           AppendMacNode, InstallSnp, OpenByChild
  <1>2. CASE VirtioNetGetFeatures
    BY <1>2 DEF VirtioNetGetFeatures
  <1>3. CASE BindingRelease
    BY <1>3 DEF BindingRelease, VirtioNetSnpEvacuate
  <1>4. CASE VirtioNetDriverBindingStopChild
    BY <1>4 DEF VirtioNetDriverBindingStopChild
  <1>5. CASE VirtioNetDriverBindingStop
    BY <1>5 DEF VirtioNetDriverBindingStop
  <1>6. CASE VirtioNetStart
    BY <1>6 DEF VirtioNetStart
  <1>7. CASE VirtioNetStop
    BY <1>7 DEF VirtioNetStop
  <1>8. CASE VirtioNetInitialize
    BY <1>8 DEF VirtioNetInitialize
  <1>9. CASE NegotiateFeatures
    BY <1>9 DEF NegotiateFeatures
  <1>10. CASE DriverOk
    BY <1>10 DEF DriverOk
  <1>11. CASE InitTxUnwind
    BY <1>11 DEF InitTxUnwind
  <1>12. CASE InitRxUnwind
    BY <1>12 DEF InitRxUnwind
  <1>. QED
    BY <1>1, <1>2, <1>3, <1>4, <1>5, <1>6, <1>7, <1>8, <1>9, <1>10, <1>11, <1>12 DEF Plain

\* The steps of the binding, Start(), Stop() and Initialize() keep the invariant.
LEMMA PlainInv == ASSUME Inv, Plain PROVE Inv'
  <1>1. Control' /\ Device' /\ Holdings' /\ Mappings' /\ Idle'
    BY PlainControl, PlainDevice, PlainHoldings, PlainMappings, PlainIdle
  <1>2. pc' \notin InitRxSteps \cup CallSteps /\ (pc' = "idle" => State' # "Initialized")
    BY PlainNotOperating
  <1>3. Types'
    BY PlainTypes
  <1>4. Locals'
    BY <1>2, PlainFrame DEF Inv, Locals, CallSteps
  <1>5. TxQueues' /\ TxBuffers' /\ RxQueues' /\ RxPackets'
    BY <1>2, NotOperating DEF TxOperating, Operating
  <1>. QED
    BY <1>1, <1>3, <1>4, <1>5 DEF Inv

-----------------------------------------------------------------------------
(* The other steps that end or set up the interface.                       *)

TearDown ==
    \/ VirtioNetExitBoot \/ InitRxRing \/ InitTxRing \/ InitTxAcquire \/ AbortDevice
    \/ VirtioNetShutdown \/ VirtioNetShutdownRx \/ VirtioNetShutdownTx
    \/ \E q \in {"TxRing", "RxRing"} : VirtioNetUninitRing(q)

\* None of these steps leaves the interface initialized.
LEMMA TearDownNotOperating ==
    ASSUME Inv, TearDown
    PROVE  pc' \notin InitRxSteps \cup CallSteps /\ (pc' = "idle" => State' # "Initialized")
  <1>. USE DEF Inv, Control, Acquire, Release, BindingSteps, RingSteps, InitTxSteps,
          InitRxSteps, UnwindSteps, CallSteps
  <1>1. CASE VirtioNetExitBoot
    BY <1>1 DEF VirtioNetExitBoot, ResetDevice
  <1>2. CASE InitRxRing
    BY <1>2 DEF InitRxRing, VirtioNetInitRing
  <1>3. CASE InitTxRing
    BY <1>3 DEF InitTxRing, VirtioNetInitRing
  <1>4. CASE InitTxAcquire
    BY <1>4 DEF InitTxAcquire
  <1>5. CASE AbortDevice
    BY <1>5 DEF AbortDevice, ResetDevice
  <1>6. CASE VirtioNetShutdown
    BY <1>6 DEF VirtioNetShutdown, ResetDevice
  <1>7. CASE VirtioNetShutdownRx
    BY <1>7 DEF VirtioNetShutdownRx
  <1>8. CASE VirtioNetShutdownTx
    BY <1>8 DEF VirtioNetShutdownTx
  <1>9. CASE \E q \in {"TxRing", "RxRing"} : VirtioNetUninitRing(q)
    BY <1>9 DEF VirtioNetUninitRing
  <1>. QED
    BY <1>1, <1>2, <1>3, <1>4, <1>5, <1>6, <1>7, <1>8, <1>9 DEF TearDown

\* Control, for the steps that end or set up the interface.
LEMMA TearDownControl == ASSUME Inv, TearDown PROVE Control'
  <1>. USE DEF Inv, Control, Device, Acquire, Release,
          Operating, BindingSteps, RingSteps, InitTxSteps, InitRxSteps,
          UnwindSteps, CallSteps, ShutdownSteps
  <1>1. CASE VirtioNetExitBoot
    BY <1>1 DEF VirtioNetExitBoot, ResetDevice
  <1>2. CASE InitRxRing
    BY <1>2 DEF InitRxRing, VirtioNetInitRing
  <1>3. CASE InitTxRing
    BY <1>3 DEF InitTxRing, VirtioNetInitRing
  <1>4. CASE InitTxAcquire
    BY <1>4 DEF InitTxAcquire
  <1>5. CASE AbortDevice
    BY <1>5 DEF AbortDevice, ResetDevice
  <1>6. CASE VirtioNetShutdown
    BY <1>6 DEF VirtioNetShutdown, ResetDevice
  <1>7. CASE VirtioNetShutdownRx
    BY <1>7 DEF VirtioNetShutdownRx
  <1>8. CASE VirtioNetShutdownTx
    BY <1>8 DEF VirtioNetShutdownTx
  <1>9. CASE \E q \in {"TxRing", "RxRing"} : VirtioNetUninitRing(q)
    BY <1>9 DEF VirtioNetUninitRing
  <1>. QED
    BY <1>1, <1>2, <1>3, <1>4, <1>5, <1>6, <1>7, <1>8, <1>9 DEF TearDown

\* Device, for the same steps.
LEMMA TearDownDevice == ASSUME Inv, TearDown PROVE Device'
  <1>. USE DEF Inv, Control, Device, Acquire, Release,
          Operating, BindingSteps, RingSteps, InitTxSteps, InitRxSteps,
          UnwindSteps, CallSteps, ShutdownSteps, Holdings, Resources, NothingTaken, tx, rx, host
  <1>1. CASE VirtioNetExitBoot
    BY <1>1 DEF VirtioNetExitBoot, ResetDevice
  <1>2. CASE InitRxRing
    BY <1>2 DEF InitRxRing, VirtioNetInitRing
  <1>3. CASE InitTxRing
    BY <1>3 DEF InitTxRing, VirtioNetInitRing
  <1>4. CASE InitTxAcquire
    BY <1>4 DEF InitTxAcquire
  <1>5. CASE AbortDevice
    BY <1>5 DEF AbortDevice, ResetDevice
  <1>6. CASE VirtioNetShutdown
    BY <1>6 DEF VirtioNetShutdown, ResetDevice
  <1>7. CASE VirtioNetShutdownRx
    BY <1>7 DEF VirtioNetShutdownRx
  <1>8. CASE VirtioNetShutdownTx
    BY <1>8 DEF VirtioNetShutdownTx
  <1>9. CASE \E q \in {"TxRing", "RxRing"} : VirtioNetUninitRing(q)
    BY <1>9 DEF VirtioNetUninitRing
  <1>. QED
    BY <1>1, <1>2, <1>3, <1>4, <1>5, <1>6, <1>7, <1>8, <1>9 DEF TearDown

\* Holdings, for the same steps.
LEMMA TearDownHoldings == ASSUME Inv, TearDown PROVE Holdings'
  <1>. USE DEF Inv, Control, Device, Holdings, Acquire, Release,
          Operating, BindingSteps, RingSteps, InitTxSteps, InitRxSteps,
          UnwindSteps, CallSteps, ShutdownSteps, Resources, Bound
  <1>1. CASE VirtioNetExitBoot
    BY <1>1 DEF VirtioNetExitBoot, ResetDevice
  <1>2. CASE InitRxRing
    BY <1>2 DEF InitRxRing, VirtioNetInitRing
  <1>3. CASE InitTxRing
    BY <1>3 DEF InitTxRing, VirtioNetInitRing
  <1>4. CASE InitTxAcquire
    BY <1>4 DEF InitTxAcquire
  <1>5. CASE AbortDevice
    BY <1>5 DEF AbortDevice, ResetDevice
  <1>6. CASE VirtioNetShutdown
    BY <1>6 DEF VirtioNetShutdown, ResetDevice
  <1>7. CASE VirtioNetShutdownRx
    BY <1>7 DEF VirtioNetShutdownRx
  <1>8. CASE VirtioNetShutdownTx
    BY <1>8 DEF VirtioNetShutdownTx
  <1>9. CASE \E q \in {"TxRing", "RxRing"} : VirtioNetUninitRing(q)
    BY <1>9 DEF VirtioNetUninitRing
  <1>. QED
    BY <1>1, <1>2, <1>3, <1>4, <1>5, <1>6, <1>7, <1>8, <1>9 DEF TearDown

\* Mappings, for the same steps.
LEMMA TearDownMappings == ASSUME Inv, TearDown PROVE Mappings'
  <1>. USE AddressesApart DEF Inv, Control, Device, Mappings, Acquire, Release,
          Operating, BindingSteps, RingSteps, InitTxSteps, InitRxSteps,
          UnwindSteps, CallSteps, ShutdownSteps, tx, rx, host, Types, TxTypes
  <1>1. CASE VirtioNetExitBoot
    BY <1>1 DEF VirtioNetExitBoot, ResetDevice
  <1>2. CASE InitRxRing
    BY <1>2 DEF InitRxRing, VirtioNetInitRing
  <1>3. CASE InitTxRing
    BY <1>3 DEF InitTxRing, VirtioNetInitRing
  <1>4. CASE InitTxAcquire
    BY <1>4 DEF InitTxAcquire
  <1>5. CASE AbortDevice
    BY <1>5 DEF AbortDevice, ResetDevice
  <1>6. CASE VirtioNetShutdown
    BY <1>6 DEF VirtioNetShutdown, ResetDevice
  <1>7. CASE VirtioNetShutdownRx
    BY <1>7 DEF VirtioNetShutdownRx
  <1>8. CASE VirtioNetShutdownTx
    BY <1>8 DEF VirtioNetShutdownTx
  <1>9. CASE \E q \in {"TxRing", "RxRing"} : VirtioNetUninitRing(q)
    BY <1>9 DEF VirtioNetUninitRing
  <1>. QED
    BY <1>1, <1>2, <1>3, <1>4, <1>5, <1>6, <1>7, <1>8, <1>9 DEF TearDown

\* Idle, for the same steps.
LEMMA TearDownIdle == ASSUME Inv, TearDown PROVE Idle'
  <1>. USE EmptyRings, TearDownDevice DEF Inv, Control, Device, Idle, Acquire, Release,
          Operating, BindingSteps, RingSteps, InitTxSteps, InitRxSteps,
          UnwindSteps, CallSteps, ShutdownSteps, TxOperating, RxOperating, Empty, NothingTaken, tx, rx, host
  <1>1. CASE VirtioNetExitBoot
    BY <1>1 DEF VirtioNetExitBoot, ResetDevice
  <1>2. CASE InitRxRing
    BY <1>2 DEF InitRxRing, VirtioNetInitRing
  <1>3. CASE InitTxRing
    BY <1>3 DEF InitTxRing, VirtioNetInitRing
  <1>4. CASE InitTxAcquire
    BY <1>4 DEF InitTxAcquire
  <1>5. CASE AbortDevice
    BY <1>5 DEF AbortDevice, ResetDevice
  <1>6. CASE VirtioNetShutdown
    BY <1>6 DEF VirtioNetShutdown, ResetDevice
  <1>7. CASE VirtioNetShutdownRx
    BY <1>7 DEF VirtioNetShutdownRx
  <1>8. CASE VirtioNetShutdownTx
    BY <1>8 DEF VirtioNetShutdownTx
  <1>9. CASE \E q \in {"TxRing", "RxRing"} : VirtioNetUninitRing(q)
    BY <1>9 DEF VirtioNetUninitRing
  <1>. QED
    BY <1>1, <1>2, <1>3, <1>4, <1>5, <1>6, <1>7, <1>8, <1>9 DEF TearDown

\* What these steps leave of the collection of transmit buffers.
LEMMA TearDownCollection ==
    ASSUME Inv, TearDown
    PROVE  TxBufCollection' = TxBufCollection \/ TxBufCollection' = <<>>
  <1>. USE DEF tx
  <1>1. CASE VirtioNetExitBoot
    BY <1>1 DEF VirtioNetExitBoot, ResetDevice
  <1>2. CASE InitRxRing
    BY <1>2 DEF InitRxRing, VirtioNetInitRing
  <1>3. CASE InitTxRing
    BY <1>3 DEF InitTxRing, VirtioNetInitRing
  <1>4. CASE InitTxAcquire
    BY <1>4 DEF InitTxAcquire
  <1>5. CASE AbortDevice
    BY <1>5 DEF AbortDevice, ResetDevice
  <1>6. CASE VirtioNetShutdown
    BY <1>6 DEF VirtioNetShutdown, ResetDevice
  <1>7. CASE VirtioNetShutdownRx
    BY <1>7 DEF VirtioNetShutdownRx
  <1>8. CASE VirtioNetShutdownTx
    BY <1>8 DEF VirtioNetShutdownTx
  <1>9. CASE \E q \in {"TxRing", "RxRing"} : VirtioNetUninitRing(q)
    BY <1>9 DEF VirtioNetUninitRing
  <1>. QED
    BY <1>1, <1>2, <1>3, <1>4, <1>5, <1>6, <1>7, <1>8, <1>9 DEF TearDown

\* Every variable of the rings stays or goes back to where it started.
LEMMA TearDownFrame ==
    ASSUME TearDown
    PROVE  /\ TxRing' = TxRing \/ TxRing' = EmptyRing(TxQueueSize, TxChains)
           /\ RxRing' = RxRing \/ RxRing' = EmptyRing(RxQueueSize, RxChains)
           /\ TxFreeStack' = TxFreeStack \/ TxFreeStack' = <<>>
           /\ TxCurPending' = TxCurPending \/ TxCurPending' = 0
           /\ owned' = owned \/ owned' = Buffers
           /\ hostTx' = hostTx \/ hostTx' = NothingTaken
           /\ hostRx' = hostRx \/ hostRx' = NothingTaken
           /\ rxbuf' = rxbuf \/ rxbuf' = ZeroRxBuf
           /\ wire' = wire \/ wire' = <<>>
           /\ kicked' = kicked \/ kicked' = {}
           /\ UNCHANGED <<TxLastUsed, RxLastUsed, asserted>>
  <1>. USE DEF NothingTaken, tx, rx, host
  <1>1. CASE VirtioNetExitBoot
    BY <1>1 DEF VirtioNetExitBoot, ResetDevice
  <1>2. CASE InitRxRing
    BY <1>2 DEF InitRxRing, VirtioNetInitRing
  <1>3. CASE InitTxRing
    BY <1>3 DEF InitTxRing, VirtioNetInitRing
  <1>4. CASE InitTxAcquire
    BY <1>4 DEF InitTxAcquire
  <1>5. CASE AbortDevice
    BY <1>5 DEF AbortDevice, ResetDevice
  <1>6. CASE VirtioNetShutdown
    BY <1>6 DEF VirtioNetShutdown, ResetDevice
  <1>7. CASE VirtioNetShutdownRx
    BY <1>7 DEF VirtioNetShutdownRx
  <1>8. CASE VirtioNetShutdownTx
    BY <1>8 DEF VirtioNetShutdownTx
  <1>9. CASE \E q \in {"TxRing", "RxRing"} : VirtioNetUninitRing(q)
    BY <1>9 DEF VirtioNetUninitRing
  <1>. QED
    BY <1>1, <1>2, <1>3, <1>4, <1>5, <1>6, <1>7, <1>8, <1>9 DEF TearDown

\* Types of the status variables, for the same steps.
LEMMA TearDownStatus ==
    ASSUME Inv, TearDown
    PROVE  /\ State' \in {"Stopped", "Started", "Initialized"}
           /\ dev' \in {"reset", "driver", "driver_ok", "failed"}
  <1>. USE DEF Inv, Types, StatusTypes, host
  <1>1. CASE VirtioNetExitBoot
    BY <1>1 DEF VirtioNetExitBoot, ResetDevice
  <1>2. CASE InitRxRing
    BY <1>2 DEF InitRxRing, VirtioNetInitRing
  <1>3. CASE InitTxRing
    BY <1>3 DEF InitTxRing, VirtioNetInitRing
  <1>4. CASE InitTxAcquire
    BY <1>4 DEF InitTxAcquire
  <1>5. CASE AbortDevice
    BY <1>5 DEF AbortDevice, ResetDevice
  <1>6. CASE VirtioNetShutdown
    BY <1>6 DEF VirtioNetShutdown, ResetDevice
  <1>7. CASE VirtioNetShutdownRx
    BY <1>7 DEF VirtioNetShutdownRx
  <1>8. CASE VirtioNetShutdownTx
    BY <1>8 DEF VirtioNetShutdownTx
  <1>9. CASE \E q \in {"TxRing", "RxRing"} : VirtioNetUninitRing(q)
    BY <1>9 DEF VirtioNetUninitRing
  <1>. QED
    BY <1>1, <1>2, <1>3, <1>4, <1>5, <1>6, <1>7, <1>8, <1>9 DEF TearDown

\* Types, for the same steps.
LEMMA TearDownTypes == ASSUME Inv, TearDown PROVE Types'
  <1>1. StatusTypes'
    BY TearDownStatus, TearDownFrame DEF Inv, Types, StatusTypes
  <1>2. TxTypes'
    <2>1. TxRing' \in Rings(TxQueueSize, TxChains)
      BY TearDownFrame, EmptyRings DEF Inv, Types, TxTypes
    <2>2. TxFreeStack' = <<>> \/ TxFreeStack' \in [1 .. TxMaxPending -> TxChains]
      BY TearDownFrame DEF Inv, Types, TxTypes
    <2>3. TxCurPending' \in 0 .. TxMaxPending /\ TxLastUsed' \in Indices
      BY TearDownFrame, Sizes DEF Inv, Types, TxTypes
    <2>4. TxBufCollection' \in [DOMAIN TxBufCollection' -> Buffers]
      <3>1. CASE TxBufCollection' = TxBufCollection
        BY <3>1 DEF Inv, Types, TxTypes
      <3>2. CASE TxBufCollection' = <<>>
        BY <3>2
      <3>. QED
        BY <3>1, <3>2, TearDownCollection
    <2>5. DOMAIN TxBufCollection' \subseteq TxAddresses
      BY TearDownCollection DEF Inv, Types, TxTypes
    <2>6. owned' \subseteq Buffers
      BY TearDownFrame DEF Inv, Types, TxTypes
    <2>7. hostTx' \in [idx : Indices, chains : SUBSET TxElements]
      BY TearDownFrame, EmptyRings DEF Inv, Types, TxTypes, NothingTaken
    <2>. QED
      BY <2>1, <2>2, <2>3, <2>4, <2>5, <2>6, <2>7 DEF TxTypes
  <1>3. RxTypes'
    <2>1. RxRing' \in Rings(RxQueueSize, RxChains)
      BY TearDownFrame, EmptyRings DEF Inv, Types, RxTypes
    <2>2. RxLastUsed' \in Indices
      BY TearDownFrame DEF Inv, Types, RxTypes
    <2>3. hostRx' \in [idx : Indices, chains : SUBSET RxChains]
      BY TearDownFrame, EmptyRings DEF Inv, Types, RxTypes, NothingTaken
    <2>4. rxbuf' \in [RxChains -> Packets \cup {None}]
      BY TearDownFrame DEF Inv, Types, RxTypes, ZeroRxBuf
    <2>5. wire' \in Seq(Packets)
      <3>1. CASE wire' = wire
        BY <3>1 DEF Inv, Types, RxTypes
      <3>2. CASE wire' = <<>>
        BY <3>2
      <3>. QED
        BY <3>1, <3>2, TearDownFrame
    <2>. QED
      BY <2>1, <2>2, <2>3, <2>4, <2>5 DEF RxTypes
  <1>. QED
    BY <1>1, <1>2, <1>3 DEF Types

\* The steps that end or set up the interface keep the invariant.
LEMMA TearDownInv == ASSUME Inv, TearDown PROVE Inv'
  <1>1. Control' /\ Device' /\ Holdings' /\ Mappings' /\ Idle'
    BY TearDownControl, TearDownDevice, TearDownHoldings, TearDownMappings, TearDownIdle
  <1>2. pc' \notin InitRxSteps \cup CallSteps /\ (pc' = "idle" => State' # "Initialized")
    BY TearDownNotOperating
  <1>3. Locals'
    <2>1. pc' \notin {"TxInsert", "TxPublish", "TxNotify"}
      BY <1>2 DEF CallSteps
    <2>2. Identity => \A a \in DOMAIN TxBufCollection' : TxBufCollection'[a] = a
      BY TearDownCollection DEF Inv, Locals
    <2>. QED
      BY <2>1, <2>2 DEF Locals
  <1>4. TxQueues' /\ TxBuffers' /\ RxQueues' /\ RxPackets'
    BY <1>2, NotOperating DEF TxOperating, Operating
  <1>. QED
    BY <1>1, <1>3, <1>4, TearDownTypes DEF Inv

-----------------------------------------------------------------------------
(* The steps that work on the rings.                                       *)

Working ==
    \/ InitTxLayout \/ AllocateRxBuf \/ InitRxLayout \/ InitRxPublish \/ InitRxNotify
    \/ (\E b \in Buffers : VirtioNetTransmit(b)) \/ TxInsertFails \/ TransmitSupply
    \/ TransmitPublish \/ TransmitNotify \/ VirtioNetGetStatus
    \/ VirtioNetReceive \/ ReceivePublish \/ ReceiveNotify
    \/ HostTakeTx \/ (\E chain \in TxChains : HostSend(chain)) \/ HostTakeRx
    \/ \E c \in hostRx.chains, packet \in Packets : HostStoreRx(c, packet)

\* The host works on the ring of a device that operates.
LEMMA HostWorks ==
    ASSUME Inv
    PROVE  /\ hostTx.chains # {} \/ (dev = "driver_ok" /\ hostTx.idx # TxRing.AvailIdx) =>
                 dev = "driver_ok" /\ Operating
           /\ hostRx.chains # {} \/ (dev = "driver_ok" /\ hostRx.idx # RxRing.AvailIdx) =>
                 dev = "driver_ok" /\ RxOperating /\ pc # "RxPublish"
  <1>1. NothingTaken.chains = {} /\ NothingTaken.idx = 0
    BY DEF NothingTaken
  <1>2. Device /\ Idle /\ RxQueues
    BY DEF Inv
  <1>3. hostTx.chains # {} => dev = "driver_ok"
    BY <1>1, <1>2 DEF Device
  <1>4. hostRx.chains # {} => dev = "driver_ok"
    BY <1>1, <1>2 DEF Device
  <1>5. dev = "driver_ok" /\ ~Operating => hostTx.chains = {} /\ hostTx.idx = TxRing.AvailIdx
    BY <1>1, <1>2 DEF Idle, Empty
  <1>6. dev = "driver_ok" /\ ~RxOperating => hostRx.chains = {} /\ hostRx.idx = RxRing.AvailIdx
    BY <1>1, <1>2 DEF Idle, Empty
  <1>7. pc = "RxPublish" => hostRx.chains = {} /\ hostRx.idx = RxRing.AvailIdx
    BY <1>1, <1>2 DEF RxQueues, Empty, RxOperating
  <1>. QED
    BY <1>3, <1>4, <1>5, <1>6, <1>7

\* A completed chain has a buffer in the collection.
LEMMA ReapedFound ==
    ASSUME Inv, pc = "idle", State = "Initialized", TxLastUsed # TxRing.UsedIdx
    PROVE  /\ Used(TxRing, TxQueueSize, TxLastUsed) \in TxChains \ FreeTx
           /\ TxRing.Desc[Used(TxRing, TxQueueSize, TxLastUsed)] \in DOMAIN TxBufCollection
           /\ TxCurPending \in 1 .. TxMaxPending
           /\ TxFreeStack \in [1 .. TxMaxPending -> TxChains]
           /\ TxDone[1] = Used(TxRing, TxQueueSize, TxLastUsed) /\ Len(TxDone) > 0
  <1>. DEFINE chain == Used(TxRing, TxQueueSize, TxLastUsed)
  <1>1. TxOperating /\ TxTypes /\ TxQueues /\ TxBuffers
    BY DEF Inv, TxOperating, Operating, Types
  <1>2. RingQueue(TxRing.UsedElem, TxLastUsed, TxRing.UsedIdx, TxQueueSize, TxChains)
    BY <1>1, Sizes DEF TxTypes, Rings, RingQueue
  <1>3. Len(TxDone) > 0 /\ TxDone[1] = chain
    BY <1>2, QueuePop DEF TxDone, Used
  <1>4. Places(FreeTx, TxSupplied, TxTaken, TxDone, TxChains)
    BY <1>1 DEF TxQueues
  <1>5. chain \in TxChains /\ chain \notin FreeTx
    <2>1. TxDone[1] \in TxChains /\ TxDone[1] \notin FreeTx
      BY <1>3, <1>4, PlacesReap, Zenon
    <2>. QED
      BY <1>3, <2>1
  <1>6. TxRing.Desc[chain] \in DOMAIN TxBufCollection
    BY <1>1, <1>5 DEF TxBuffers
  <1>7. TxCurPending \in 1 .. TxMaxPending
    <2>1. Len(TxSupplied) \in Nat /\ Len(TxDone) \in Nat
      BY <1>4, LenProperties DEF Places
    <2>2. Cardinality(TxTaken) \in Nat
      <3>1. IsFiniteSet(TxTaken)
        BY <1>4, Chains, FS_Subset DEF Places
      <3>. QED
        BY <3>1, FS_CardinalityType
    <2>3. Len(TxSupplied) + Cardinality(TxTaken) + Len(TxDone) = TxCurPending
      BY <1>1 DEF TxQueues
    <2>. QED
      BY <1>1, <1>3, <2>1, <2>2, <2>3 DEF TxTypes
  <1>. QED
    BY <1>1, <1>3, <1>5, <1>6, <1>7 DEF TxQueues

\* Control, for the steps that work on the rings.
LEMMA WorkingControl == ASSUME Inv, Working PROVE Control'
  <1>. USE DEF Inv, Control, Acquire, binding, Operating, BindingSteps, RingSteps, InitTxSteps,
          InitRxSteps, UnwindSteps, CallSteps, ShutdownSteps
  <1>1. CASE InitTxLayout
    BY <1>1 DEF InitTxLayout
  <1>2. CASE AllocateRxBuf
    BY <1>2 DEF AllocateRxBuf
  <1>3. CASE InitRxLayout
    BY <1>3 DEF InitRxLayout
  <1>4. CASE InitRxPublish
    BY <1>4 DEF InitRxPublish
  <1>5. CASE InitRxNotify
    BY <1>5 DEF InitRxNotify, ResetDevice
  <1>6. CASE \E b \in Buffers : VirtioNetTransmit(b)
    BY <1>6 DEF VirtioNetTransmit
  <1>7. CASE TxInsertFails
    BY <1>7 DEF TxInsertFails, Unmap, Duplicate
  <1>8. CASE TransmitSupply
    BY <1>8 DEF TransmitSupply, Duplicate
  <1>9. CASE TransmitPublish
    BY <1>9 DEF TransmitPublish
  <1>10. CASE TransmitNotify
    BY <1>10 DEF TransmitNotify
  <1>11. CASE VirtioNetGetStatus
    BY <1>11 DEF VirtioNetGetStatus
  <1>12. CASE VirtioNetReceive
    BY <1>12 DEF VirtioNetReceive
  <1>13. CASE ReceivePublish
    BY <1>13 DEF ReceivePublish
  <1>14. CASE ReceiveNotify
    BY <1>14 DEF ReceiveNotify
  <1>15. CASE HostTakeTx
    BY <1>15 DEF HostTakeTx
  <1>16. CASE \E chain \in TxChains : HostSend(chain)
    BY <1>16 DEF HostSend, HostCompleteTx
  <1>17. CASE HostTakeRx
    BY <1>17 DEF HostTakeRx
  <1>18. CASE \E c \in hostRx.chains, packet \in Packets : HostStoreRx(c, packet)
    BY <1>18 DEF HostStoreRx
  <1>. QED
    BY <1>1, <1>2, <1>3, <1>4, <1>5, <1>6, <1>7, <1>8, <1>9, <1>10, <1>11, <1>12, <1>13, <1>14,
       <1>15, <1>16, <1>17, <1>18 DEF Working

\* Holdings, for the same steps.
LEMMA WorkingHoldings == ASSUME Inv, Working PROVE Holdings'
  <1>. USE DEF Inv, Control, Holdings, Acquire, binding, Resources, Bound, Operating, BindingSteps,
          RingSteps, InitTxSteps, InitRxSteps, UnwindSteps, CallSteps, ShutdownSteps
  <1>1. CASE InitTxLayout
    BY <1>1 DEF InitTxLayout
  <1>2. CASE AllocateRxBuf
    BY <1>2 DEF AllocateRxBuf
  <1>3. CASE InitRxLayout
    BY <1>3 DEF InitRxLayout
  <1>4. CASE InitRxPublish
    BY <1>4 DEF InitRxPublish
  <1>5. CASE InitRxNotify
    BY <1>5 DEF InitRxNotify, ResetDevice
  <1>6. CASE \E b \in Buffers : VirtioNetTransmit(b)
    BY <1>6 DEF VirtioNetTransmit
  <1>7. CASE TxInsertFails
    BY <1>7 DEF TxInsertFails, Unmap, Duplicate
  <1>8. CASE TransmitSupply
    BY <1>8 DEF TransmitSupply, Duplicate
  <1>9. CASE TransmitPublish
    BY <1>9 DEF TransmitPublish
  <1>10. CASE TransmitNotify
    BY <1>10 DEF TransmitNotify
  <1>11. CASE VirtioNetGetStatus
    BY <1>11 DEF VirtioNetGetStatus
  <1>12. CASE VirtioNetReceive
    BY <1>12 DEF VirtioNetReceive
  <1>13. CASE ReceivePublish
    BY <1>13 DEF ReceivePublish
  <1>14. CASE ReceiveNotify
    BY <1>14 DEF ReceiveNotify
  <1>15. CASE HostTakeTx
    BY <1>15 DEF HostTakeTx
  <1>16. CASE \E chain \in TxChains : HostSend(chain)
    BY <1>16 DEF HostSend, HostCompleteTx
  <1>17. CASE HostTakeRx
    BY <1>17 DEF HostTakeRx
  <1>18. CASE \E c \in hostRx.chains, packet \in Packets : HostStoreRx(c, packet)
    BY <1>18 DEF HostStoreRx
  <1>. QED
    BY <1>1, <1>2, <1>3, <1>4, <1>5, <1>6, <1>7, <1>8, <1>9, <1>10, <1>11, <1>12, <1>13, <1>14,
       <1>15, <1>16, <1>17, <1>18 DEF Working

\* Device, for the same steps.
LEMMA WorkingDevice == ASSUME Inv, Working PROVE Device'
  <1>. USE HostWorks DEF Inv, Control, Device, Acquire, binding, host, NothingTaken, Operating, BindingSteps,
          RingSteps, InitTxSteps, InitRxSteps, UnwindSteps, CallSteps, ShutdownSteps
  <1>1. CASE InitTxLayout
    BY <1>1 DEF InitTxLayout
  <1>2. CASE AllocateRxBuf
    BY <1>2 DEF AllocateRxBuf
  <1>3. CASE InitRxLayout
    BY <1>3 DEF InitRxLayout
  <1>4. CASE InitRxPublish
    BY <1>4 DEF InitRxPublish
  <1>5. CASE InitRxNotify
    BY <1>5 DEF InitRxNotify, ResetDevice
  <1>6. CASE \E b \in Buffers : VirtioNetTransmit(b)
    BY <1>6 DEF VirtioNetTransmit
  <1>7. CASE TxInsertFails
    BY <1>7 DEF TxInsertFails, Unmap, Duplicate
  <1>8. CASE TransmitSupply
    BY <1>8 DEF TransmitSupply, Duplicate
  <1>9. CASE TransmitPublish
    BY <1>9 DEF TransmitPublish
  <1>10. CASE TransmitNotify
    BY <1>10 DEF TransmitNotify
  <1>11. CASE VirtioNetGetStatus
    BY <1>11 DEF VirtioNetGetStatus
  <1>12. CASE VirtioNetReceive
    BY <1>12 DEF VirtioNetReceive
  <1>13. CASE ReceivePublish
    BY <1>13 DEF ReceivePublish
  <1>14. CASE ReceiveNotify
    BY <1>14 DEF ReceiveNotify
  <1>15. CASE HostTakeTx
    BY <1>15 DEF HostTakeTx
  <1>16. CASE \E chain \in TxChains : HostSend(chain)
    BY <1>16 DEF HostSend, HostCompleteTx
  <1>17. CASE HostTakeRx
    BY <1>17 DEF HostTakeRx
  <1>18. CASE \E c \in hostRx.chains, packet \in Packets : HostStoreRx(c, packet)
    BY <1>18 DEF HostStoreRx
  <1>. QED
    BY <1>1, <1>2, <1>3, <1>4, <1>5, <1>6, <1>7, <1>8, <1>9, <1>10, <1>11, <1>12, <1>13, <1>14,
       <1>15, <1>16, <1>17, <1>18 DEF Working

\* Mappings, for the same steps.
LEMMA WorkingMappings == ASSUME Inv, Working PROVE Mappings'
  <1>. USE AddressesApart DEF Inv, Control, Mappings, Acquire, binding, tx, rx, host, Operating, BindingSteps,
          RingSteps, InitTxSteps, InitRxSteps, UnwindSteps, CallSteps, ShutdownSteps
  <1>1. CASE InitTxLayout
    BY <1>1 DEF InitTxLayout
  <1>2. CASE AllocateRxBuf
    BY <1>2 DEF AllocateRxBuf
  <1>3. CASE InitRxLayout
    BY <1>3 DEF InitRxLayout
  <1>4. CASE InitRxPublish
    BY <1>4 DEF InitRxPublish
  <1>5. CASE InitRxNotify
    <2>1. TxBufCollection = <<>> /\ UNCHANGED <<mapped, TxBufCollection>>
      BY <1>5 DEF InitRxNotify, Idle
    <2>2. DOMAIN TxBufCollection' = {}
      BY <2>1
    <2>. QED
      BY <1>5, <2>1, <2>2 DEF InitRxNotify, ResetDevice
  <1>6. CASE \E b \in Buffers : VirtioNetTransmit(b)
    <2>1. pc = "idle" /\ State = "Initialized" /\ pc' = "TxInsert" /\ UNCHANGED TxBufCollection
      BY <1>6 DEF VirtioNetTransmit
    <2>2. mapped' = mapped \cup {cur'.addr}
      BY <1>6 DEF VirtioNetTransmit
    <2>. QED
      BY <2>1, <2>2
  <1>7. CASE TxInsertFails
    <2>1. pc = "TxInsert" /\ pc' = "idle" /\ State' = "Initialized" /\ UNCHANGED TxBufCollection
      BY <1>7 DEF TxInsertFails
    <2>2. cur.addr \in TxAddresses
      BY <2>1 DEF Locals
    <2>3. Duplicate => Identity
      BY <2>1 DEF Locals, Duplicate
    <2>4. mapped' = {"RxRing", "TxRing", "TxSharedReq", "RxBuf"} \cup DOMAIN TxBufCollection
      BY <1>7, <2>1, <2>2, <2>3 DEF TxInsertFails, Unmap, Duplicate
    <2>. QED
      BY <2>1, <2>4
  <1>8. CASE TransmitSupply
    <2>1. pc = "TxInsert" /\ pc' = "TxPublish" /\ UNCHANGED mapped
      BY <1>8 DEF TransmitSupply
    <2>2. DOMAIN TxBufCollection' = DOMAIN TxBufCollection \cup {cur.addr}
      BY <1>8 DEF TransmitSupply
    <2>. QED
      BY <2>1, <2>2
  <1>9. CASE TransmitPublish
    BY <1>9 DEF TransmitPublish
  <1>10. CASE TransmitNotify
    BY <1>10 DEF TransmitNotify
  <1>11. CASE VirtioNetGetStatus
    <2>. DEFINE addr == TxRing.Desc[Used(TxRing, TxQueueSize, TxLastUsed)]
    <2>1. pc = "idle" /\ State = "Initialized" /\ UNCHANGED <<pc, State>> /\ TxLastUsed # TxRing.UsedIdx
      BY <1>11 DEF VirtioNetGetStatus
    <2>2. addr \in DOMAIN TxBufCollection
      BY <2>1, ReapedFound
    <2>3. mapped' = mapped \ {addr} /\ DOMAIN TxBufCollection' = DOMAIN TxBufCollection \ {addr}
      BY <1>11, <2>2 DEF VirtioNetGetStatus
    <2>4. addr \in TxAddresses
      BY <2>2 DEF Types, TxTypes
    <2>. HIDE DEF addr
    <2>. QED
      BY <2>1, <2>2, <2>3, <2>4
  <1>12. CASE VirtioNetReceive
    BY <1>12 DEF VirtioNetReceive
  <1>13. CASE ReceivePublish
    BY <1>13 DEF ReceivePublish
  <1>14. CASE ReceiveNotify
    BY <1>14 DEF ReceiveNotify
  <1>15. CASE HostTakeTx
    BY <1>15 DEF HostTakeTx
  <1>16. CASE \E chain \in TxChains : HostSend(chain)
    BY <1>16 DEF HostSend, HostCompleteTx
  <1>17. CASE HostTakeRx
    BY <1>17 DEF HostTakeRx
  <1>18. CASE \E c \in hostRx.chains, packet \in Packets : HostStoreRx(c, packet)
    BY <1>18 DEF HostStoreRx
  <1>. QED
    BY <1>1, <1>2, <1>3, <1>4, <1>5, <1>6, <1>7, <1>8, <1>9, <1>10, <1>11, <1>12, <1>13, <1>14,
       <1>15, <1>16, <1>17, <1>18 DEF Working

\* Idle, for the same steps.
LEMMA WorkingIdle == ASSUME Inv, Working PROVE Idle'
  <1>. USE HostWorks DEF Inv, Control, Device, Idle, Acquire, binding, tx, rx, host, NothingTaken, TxOperating,
          RxOperating, Empty, Operating, BindingSteps, RingSteps, InitTxSteps, InitRxSteps,
          UnwindSteps, CallSteps, ShutdownSteps
  <1>1. CASE InitTxLayout
    BY <1>1 DEF InitTxLayout, RxQueues
  <1>2. CASE AllocateRxBuf
    BY <1>2 DEF AllocateRxBuf
  <1>3. CASE InitRxLayout
    BY <1>3 DEF InitRxLayout, RxQueues
  <1>4. CASE InitRxPublish
    BY <1>4 DEF InitRxPublish
  <1>5. CASE InitRxNotify
    BY <1>5 DEF InitRxNotify, ResetDevice
  <1>6. CASE \E b \in Buffers : VirtioNetTransmit(b)
    BY <1>6 DEF VirtioNetTransmit
  <1>7. CASE TxInsertFails
    BY <1>7 DEF TxInsertFails, Unmap, Duplicate
  <1>8. CASE TransmitSupply
    BY <1>8 DEF TransmitSupply, Duplicate
  <1>9. CASE TransmitPublish
    BY <1>9 DEF TransmitPublish
  <1>10. CASE TransmitNotify
    BY <1>10 DEF TransmitNotify
  <1>11. CASE VirtioNetGetStatus
    BY <1>11 DEF VirtioNetGetStatus
  <1>12. CASE VirtioNetReceive
    BY <1>12 DEF VirtioNetReceive
  <1>13. CASE ReceivePublish
    BY <1>13 DEF ReceivePublish
  <1>14. CASE ReceiveNotify
    BY <1>14 DEF ReceiveNotify
  <1>15. CASE HostTakeTx
    BY <1>15 DEF HostTakeTx
  <1>16. CASE \E chain \in TxChains : HostSend(chain)
    BY <1>16 DEF HostSend, HostCompleteTx
  <1>17. CASE HostTakeRx
    BY <1>17 DEF HostTakeRx
  <1>18. CASE \E c \in hostRx.chains, packet \in Packets : HostStoreRx(c, packet)
    BY <1>18 DEF HostStoreRx
  <1>. QED
    BY <1>1, <1>2, <1>3, <1>4, <1>5, <1>6, <1>7, <1>8, <1>9, <1>10, <1>11, <1>12, <1>13, <1>14,
       <1>15, <1>16, <1>17, <1>18 DEF Working

\* Types of the status variables, for the same steps.
LEMMA WorkingStatus == ASSUME Inv, Working PROVE StatusTypes'
  <1>. USE DEF Inv, Types, StatusTypes, binding, host, tx, rx
  <1>1. CASE InitTxLayout
    BY <1>1 DEF InitTxLayout
  <1>2. CASE AllocateRxBuf
    BY <1>2 DEF AllocateRxBuf
  <1>3. CASE InitRxLayout
    BY <1>3 DEF InitRxLayout
  <1>4. CASE InitRxPublish
    BY <1>4 DEF InitRxPublish
  <1>5. CASE InitRxNotify
    BY <1>5 DEF InitRxNotify, ResetDevice
  <1>6. CASE \E b \in Buffers : VirtioNetTransmit(b)
    BY <1>6 DEF VirtioNetTransmit
  <1>7. CASE TxInsertFails
    BY <1>7 DEF TxInsertFails
  <1>8. CASE TransmitSupply
    BY <1>8 DEF TransmitSupply, Duplicate
  <1>9. CASE TransmitPublish
    BY <1>9 DEF TransmitPublish
  <1>10. CASE TransmitNotify
    BY <1>10 DEF TransmitNotify
  <1>11. CASE VirtioNetGetStatus
    BY <1>11 DEF VirtioNetGetStatus
  <1>12. CASE VirtioNetReceive
    BY <1>12 DEF VirtioNetReceive
  <1>13. CASE ReceivePublish
    BY <1>13 DEF ReceivePublish
  <1>14. CASE ReceiveNotify
    BY <1>14 DEF ReceiveNotify
  <1>15. CASE HostTakeTx
    BY <1>15 DEF HostTakeTx
  <1>16. CASE \E chain \in TxChains : HostSend(chain)
    BY <1>16 DEF HostSend, HostCompleteTx
  <1>17. CASE HostTakeRx
    BY <1>17 DEF HostTakeRx
  <1>18. CASE \E c \in hostRx.chains, packet \in Packets : HostStoreRx(c, packet)
    BY <1>18 DEF HostStoreRx
  <1>. QED
    BY <1>1, <1>2, <1>3, <1>4, <1>5, <1>6, <1>7, <1>8, <1>9, <1>10, <1>11, <1>12, <1>13, <1>14,
       <1>15, <1>16, <1>17, <1>18 DEF Working

\* A ring that is supplied or published is a ring.
LEMMA RingUpdates ==
    ASSUME NEW size, NEW chains, Size(size), NEW ring \in Rings(size, chains)
    PROVE  /\ ring.AvailIdx \in Indices /\ ring.UsedIdx \in Indices
           /\ \A c \in chains : Supply(ring, size, c) \in Rings(size, chains)
           /\ Publish(ring) \in Rings(size, chains)
           /\ \A x \in Indices : Used(ring, size, x) \in chains
           /\ \A x \in Indices : ring.AvailRing[x % size] \in chains
  <1>1. ring.AvailIdx \in Indices /\ ring.UsedIdx \in Indices
    BY DEF Rings
  <1>2. \A x \in Indices : x \in Int /\ x % size \in 0 .. size - 1
    <2>. TAKE x \in Indices
    <2>1. x \in Int
      BY DEF Indices
    <2>. QED
      BY <2>1, SlotInRing, Zenon
  <1>3. \A c \in chains : Supply(ring, size, c) \in Rings(size, chains)
    BY <1>1, <1>2 DEF Supply, Rings
  <1>4. Publish(ring) \in Rings(size, chains)
    <2>1. (ring.AvailIdx + 1) % IdxMod \in Indices
      BY <1>1, Advanced
    <2>. QED
      BY <2>1 DEF Publish, Rings
  <1>5. \A x \in Indices : Used(ring, size, x) \in chains /\ ring.AvailRing[x % size] \in chains
    BY <1>2 DEF Used, Rings
  <1>. QED
    BY <1>1, <1>3, <1>4, <1>5

\* A ring in which the host has completed a chain is a ring.
LEMMA RingCompletes ==
    ASSUME NEW size, NEW chains, Size(size), NEW ring \in Rings(size, chains), NEW c \in chains
    PROVE  [ring EXCEPT !.UsedElem[ring.UsedIdx % size] = c, !.UsedIdx = (@ + 1) % IdxMod]
              \in Rings(size, chains)
  <1>1. ring.UsedIdx \in Indices /\ ring.UsedIdx \in Int
    BY DEF Rings, Indices
  <1>2. (ring.UsedIdx + 1) % IdxMod \in Indices
    BY <1>1, Advanced
  <1>3. ring.UsedIdx % size \in 0 .. size - 1
    BY <1>1, SlotInRing, Zenon
  <1>. QED
    BY <1>2, <1>3 DEF Rings

\* A descriptor is given an address.
LEMMA RingDesc ==
    ASSUME NEW size, NEW chains, NEW ring \in Rings(size, chains), NEW c \in chains,
           NEW a \in TxAddresses
    PROVE  [ring EXCEPT !.Desc[c] = a] \in Rings(size, chains)
  BY DEF Rings

\* The chain that Transmit() pops is free.
LEMMA PoppedFree ==
    ASSUME Inv, pc = "TxInsert"
    PROVE  /\ TxCurPending + 1 \in TxCurPending + 1 .. TxMaxPending
           /\ TxCurPending + 1 \in 1 .. TxMaxPending
           /\ TxFreeStack[TxCurPending + 1] \in FreeTx
           /\ TxFreeStack[TxCurPending + 1] \in TxChains
           /\ cur.addr \in TxAddresses /\ cur.buf \in Buffers
  <1>1. TxOperating /\ TxTypes /\ TxQueues /\ Locals
    BY DEF Inv, TxOperating, Operating, CallSteps, Types
  <1>2. TxCurPending \in Nat /\ TxMaxPending \in Nat /\ TxCurPending < TxMaxPending
    BY <1>1, Sizes DEF TxQueues, TxTypes
  <1>3. TxFreeStack \in [1 .. TxMaxPending -> TxChains]
    BY <1>1 DEF TxQueues
  <1>. QED
    BY <1>1, <1>2, <1>3 DEF FreeTx, Locals

\* Types of the transmit side, for the same steps.
LEMMA WorkingTxTypes == ASSUME Inv, Working PROVE TxTypes'
  <1>. USE DEF binding, tx, rx, host
  <1>0. TxTypes
    BY DEF Inv, Types
  <1>a. ASSUME UNCHANGED <<TxRing, TxFreeStack, TxCurPending, TxLastUsed, TxBufCollection>>,
               owned' \subseteq Buffers, hostTx' = hostTx \/ hostTx' = NothingTaken
        PROVE  TxTypes'
    <2>1. hostTx' \in [idx : Indices, chains : SUBSET TxElements]
      BY <1>0, <1>a, EmptyRings DEF TxTypes, NothingTaken
    <2>2. TxRing' \in Rings(TxQueueSize, TxChains)
      BY <1>0, <1>a DEF TxTypes
    <2>3. TxBufCollection' \in [DOMAIN TxBufCollection' -> Buffers]
      BY <1>0, <1>a DEF TxTypes
    <2>. QED
      BY <1>0, <1>a, <2>1, <2>2, <2>3 DEF TxTypes
  <1>1. CASE InitTxLayout
    <2>1. /\ UNCHANGED <<TxRing, TxCurPending, TxBufCollection, owned, hostTx>>
          /\ TxLastUsed' \in Indices
      BY <1>0, <1>1 DEF InitTxLayout, TxTypes, Rings
    <2>2. TxFreeStack' = <<>> \/ TxFreeStack' \in [1 .. TxMaxPending -> TxChains]
      <3>1. CASE TxFreeStack' = TxFreeStack
        BY <1>0, <3>1 DEF TxTypes
      <3>2. CASE TxFreeStack' = [i \in 1 .. TxMaxPending |-> 2 * (i - 1)]
        <4>1. \A i \in 1 .. TxMaxPending : i - 1 \in 0 .. TxMaxPending - 1
          BY Sizes
        <4>2. \A i \in 1 .. TxMaxPending : 2 * (i - 1) \in TxChains
          BY <4>1 DEF TxChains
        <4>. QED
          BY <3>2, <4>2
      <3>. QED
        BY <1>1, <3>1, <3>2 DEF InitTxLayout
    <2>3. TxRing' \in Rings(TxQueueSize, TxChains)
      BY <1>0, <2>1 DEF TxTypes
    <2>4. TxBufCollection' \in [DOMAIN TxBufCollection' -> Buffers]
      BY <1>0, <2>1 DEF TxTypes
    <2>. QED
      BY <1>0, <2>1, <2>2, <2>3, <2>4 DEF TxTypes
  <1>2. CASE AllocateRxBuf
    BY <1>0, <1>a, <1>2 DEF AllocateRxBuf, TxTypes
  <1>3. CASE InitRxLayout
    BY <1>0, <1>a, <1>3 DEF InitRxLayout, TxTypes
  <1>4. CASE InitRxPublish
    BY <1>0, <1>a, <1>4 DEF InitRxPublish, TxTypes
  <1>5. CASE InitRxNotify
    BY <1>0, <1>a, <1>5 DEF InitRxNotify, ResetDevice, TxTypes, NothingTaken
  <1>6. CASE \E b \in Buffers : VirtioNetTransmit(b)
    BY <1>0, <1>a, <1>6 DEF VirtioNetTransmit, TxTypes
  <1>7. CASE TxInsertFails
    <2>1. cur.buf \in Buffers
      BY <1>7, PoppedFree DEF TxInsertFails
    <2>. QED
      BY <1>0, <1>a, <1>7, <2>1 DEF TxInsertFails, TxTypes
  <1>8. CASE TransmitSupply
    <2>. DEFINE chain == TxFreeStack[TxCurPending + 1]
    <2>1. /\ TxCurPending + 1 \in 1 .. TxMaxPending /\ chain \in TxChains
          /\ cur.addr \in TxAddresses /\ cur.buf \in Buffers
      BY <1>8, PoppedFree DEF TransmitSupply
    <2>2. TxRing' = Supply([TxRing EXCEPT !.Desc[chain] = cur.addr], TxQueueSize, chain)
      BY <1>8 DEF TransmitSupply
    <2>3. TxRing' \in Rings(TxQueueSize, TxChains)
      <3>1. [TxRing EXCEPT !.Desc[chain] = cur.addr] \in Rings(TxQueueSize, TxChains)
        BY <1>0, <2>1, RingDesc DEF TxTypes
      <3>. QED
        BY <2>1, <2>2, <3>1, RingUpdates, Sizes
    <2>4. /\ TxBufCollection' \in [DOMAIN TxBufCollection' -> Buffers]
          /\ DOMAIN TxBufCollection' \subseteq TxAddresses
      BY <1>0, <1>8, <2>1 DEF TransmitSupply, TxTypes
    <2>5. UNCHANGED <<TxFreeStack, TxLastUsed, owned, hostTx>> /\ TxCurPending' = TxCurPending + 1
      BY <1>8 DEF TransmitSupply
    <2>6. TxCurPending' \in 0 .. TxMaxPending
      BY <2>1, <2>5
    <2>. QED
      BY <1>0, <2>3, <2>4, <2>5, <2>6 DEF TxTypes
  <1>9. CASE TransmitPublish
    <2>1. /\ UNCHANGED <<TxFreeStack, TxCurPending, TxLastUsed, TxBufCollection, owned, hostTx>>
          /\ TxRing' = Publish(TxRing)
      BY <1>9 DEF TransmitPublish
    <2>2. TxRing' \in Rings(TxQueueSize, TxChains)
      BY <1>0, <2>1, RingUpdates, Sizes DEF TxTypes
    <2>3. TxBufCollection' \in [DOMAIN TxBufCollection' -> Buffers]
      BY <1>0, <2>1 DEF TxTypes
    <2>. QED
      BY <1>0, <2>1, <2>2, <2>3 DEF TxTypes
  <1>10. CASE TransmitNotify
    <2>1. pc = "TxNotify" => cur.buf \in Buffers
      BY DEF Inv, Locals
    <2>. QED
      BY <1>0, <1>a, <1>10, <2>1 DEF TransmitNotify, TxTypes
  <1>11. CASE VirtioNetGetStatus
    <2>. DEFINE chain == Used(TxRing, TxQueueSize, TxLastUsed)
                addr  == TxRing.Desc[chain]
    <2>1. /\ chain \in TxChains /\ addr \in DOMAIN TxBufCollection
          /\ TxCurPending \in 1 .. TxMaxPending /\ TxFreeStack \in [1 .. TxMaxPending -> TxChains]
      BY <1>11, ReapedFound DEF VirtioNetGetStatus
    <2>2. /\ TxFreeStack' = [TxFreeStack EXCEPT ![TxCurPending] = chain]
          /\ TxBufCollection' = [a \in DOMAIN TxBufCollection \ {addr} |-> TxBufCollection[a]]
          /\ owned' = owned \cup {TxBufCollection[addr]}
          /\ TxLastUsed' = (TxLastUsed + 1) % IdxMod /\ TxCurPending' = TxCurPending - 1
          /\ UNCHANGED <<TxRing, hostTx>>
      BY <1>11, <2>1 DEF VirtioNetGetStatus
    <2>3. TxLastUsed' \in Indices /\ TxCurPending' \in 0 .. TxMaxPending
      BY <1>0, <2>1, <2>2, Advanced, Sizes DEF TxTypes
    <2>. HIDE DEF chain, addr
    <2>4. TxFreeStack' \in [1 .. TxMaxPending -> TxChains]
      BY <2>1, <2>2
    <2>5. /\ TxBufCollection' \in [DOMAIN TxBufCollection' -> Buffers]
          /\ DOMAIN TxBufCollection' \subseteq TxAddresses /\ owned' \subseteq Buffers
      BY <1>0, <2>1, <2>2 DEF TxTypes
    <2>. QED
      BY <1>0, <2>2, <2>3, <2>4, <2>5 DEF TxTypes
  <1>12. CASE VirtioNetReceive
    BY <1>0, <1>a, <1>12 DEF VirtioNetReceive, TxTypes
  <1>13. CASE ReceivePublish
    BY <1>0, <1>a, <1>13 DEF ReceivePublish, TxTypes
  <1>14. CASE ReceiveNotify
    BY <1>0, <1>a, <1>14 DEF ReceiveNotify, TxTypes
  <1>15. CASE HostTakeTx
    <2>1. UNCHANGED <<TxRing, TxFreeStack, TxCurPending, TxLastUsed, TxBufCollection, owned>>
      BY <1>15 DEF HostTakeTx
    <2>2. hostTx' \in [idx : Indices, chains : SUBSET TxElements]
      <3>. DEFINE chain == TxRing.AvailRing[hostTx.idx % TxQueueSize]
      <3>1. hostTx.idx \in Indices /\ hostTx.chains \subseteq TxElements
        BY <1>0 DEF TxTypes
      <3>2. (hostTx.idx + 1) % IdxMod \in Indices
        BY <3>1, Advanced
      <3>3. chain \in TxChains
        BY <1>0, <3>1, RingUpdates, Sizes DEF TxTypes
      <3>4. TxRing.Desc[chain] \in TxAddresses \cup {None}
        BY <1>0, <3>3 DEF TxTypes, Rings
      <3>5. [chain |-> chain, addr |-> TxRing.Desc[chain]] \in TxElements
        BY <3>3, <3>4 DEF TxElements
      <3>6. hostTx' = hostTx \/ hostTx' = [idx |-> (hostTx.idx + 1) % IdxMod, chains |->
                hostTx.chains \cup {[chain |-> chain, addr |-> TxRing.Desc[chain]]}]
        BY <1>15 DEF HostTakeTx
      <3>. HIDE DEF chain
      <3>. QED
        BY <1>0, <3>1, <3>2, <3>5, <3>6 DEF TxTypes
    <2>3. TxRing' \in Rings(TxQueueSize, TxChains)
      BY <1>0, <2>1 DEF TxTypes
    <2>4. TxBufCollection' \in [DOMAIN TxBufCollection' -> Buffers]
      BY <1>0, <2>1 DEF TxTypes
    <2>. QED
      BY <1>0, <2>1, <2>2, <2>3, <2>4 DEF TxTypes
  <1>16. CASE \E chain \in TxChains : HostSend(chain)
    <2>1. PICK c \in hostTx.chains : HostCompleteTx(c)
      BY <1>16 DEF HostSend
    <2>2. c.chain \in TxChains
      BY <1>0 DEF TxTypes, TxElements
    <2>3. UNCHANGED <<TxFreeStack, TxCurPending, TxLastUsed, TxBufCollection, owned>>
      BY <2>1 DEF HostCompleteTx
    <2>4. TxRing' \in Rings(TxQueueSize, TxChains)
      BY <1>0, <2>1, <2>2, RingCompletes, Sizes DEF TxTypes, HostCompleteTx
    <2>5. hostTx' \in [idx : Indices, chains : SUBSET TxElements]
      BY <1>0, <2>1 DEF TxTypes, HostCompleteTx
    <2>6. TxBufCollection' \in [DOMAIN TxBufCollection' -> Buffers]
      BY <1>0, <2>3 DEF TxTypes
    <2>. QED
      BY <1>0, <2>3, <2>4, <2>5, <2>6 DEF TxTypes
  <1>17. CASE HostTakeRx
    BY <1>0, <1>a, <1>17 DEF HostTakeRx, TxTypes
  <1>18. CASE \E c \in hostRx.chains, packet \in Packets : HostStoreRx(c, packet)
    BY <1>0, <1>a, <1>18 DEF HostStoreRx, TxTypes
  <1>. QED
    BY <1>1, <1>2, <1>3, <1>4, <1>5, <1>6, <1>7, <1>8, <1>9, <1>10, <1>11, <1>12, <1>13, <1>14,
       <1>15, <1>16, <1>17, <1>18 DEF Working

\* Types of the receive side, for the same steps.
LEMMA WorkingRxTypes == ASSUME Inv, Working PROVE RxTypes'
  <1>. USE DEF binding, tx, rx, host
  <1>0. RxTypes
    BY DEF Inv, Types
  <1>a. ASSUME UNCHANGED <<RxRing, RxLastUsed, hostRx, rxbuf, wire>>
        PROVE  RxTypes'
    BY <1>0, <1>a, RxTypesFrame
  <1>1. CASE InitTxLayout
    BY <1>0, <1>a, <1>1 DEF InitTxLayout
  <1>2. CASE AllocateRxBuf
    BY <1>0, <1>a, <1>2 DEF AllocateRxBuf
  <1>3. CASE InitRxLayout
    <2>1. UNCHANGED <<hostRx, wire>> /\ rxbuf' = ZeroRxBuf /\ RxLastUsed' \in Indices
      BY <1>0, <1>3 DEF InitRxLayout, RxTypes, Rings
    <2>2. RxRing' \in Rings(RxQueueSize, RxChains)
      <3>1. CASE RxRing' = RxRing
        BY <1>0, <3>1 DEF RxTypes
      <3>2. CASE RxRing' = [RxRing EXCEPT !.AvailRing =
                     [i \in DOMAIN @ |-> IF i < RxAlwaysPending THEN 2 * i ELSE @[i]]]
        <4>. DEFINE a == [i \in DOMAIN RxRing.AvailRing |->
                            IF i < RxAlwaysPending THEN 2 * i ELSE RxRing.AvailRing[i]]
        <4>1. RxRing.AvailRing \in [0 .. RxQueueSize - 1 -> RxChains]
          BY <1>0 DEF RxTypes, Rings
        <4>2. \A i \in 0 .. RxQueueSize - 1 : i < RxAlwaysPending => 2 * i \in RxChains
          BY Sizes DEF RxChains
        <4>3. a \in [0 .. RxQueueSize - 1 -> RxChains]
          BY <4>1, <4>2
        <4>4. RxRing' = [RxRing EXCEPT !.AvailRing = a]
          BY <3>2
        <4>. HIDE DEF a
        <4>. QED
          BY <1>0, <4>3, <4>4 DEF RxTypes, Rings
      <3>. QED
        BY <1>3, <3>1, <3>2 DEF InitRxLayout
    <2>3. rxbuf' \in [RxChains -> Packets \cup {None}] /\ wire' \in Seq(Packets)
      BY <1>0, <2>1 DEF RxTypes, ZeroRxBuf
    <2>. QED
      BY <1>0, <2>1, <2>2, <2>3 DEF RxTypes
  <1>4. CASE InitRxPublish
    <2>1. /\ UNCHANGED <<RxLastUsed, hostRx, rxbuf, wire>>
          /\ RxRing' = [RxRing EXCEPT !.AvailIdx = RxAlwaysPending]
      BY <1>4 DEF InitRxPublish
    <2>2. RxAlwaysPending \in Indices
      BY Sizes DEF Indices
    <2>3. RxRing' \in Rings(RxQueueSize, RxChains)
      BY <1>0, <2>1, <2>2 DEF RxTypes, Rings
    <2>4. rxbuf' \in [RxChains -> Packets \cup {None}] /\ wire' \in Seq(Packets)
      BY <1>0, <2>1 DEF RxTypes
    <2>. QED
      BY <1>0, <2>1, <2>3, <2>4 DEF RxTypes
  <1>5. CASE InitRxNotify
    <2>1. UNCHANGED <<RxRing, RxLastUsed, rxbuf>>
      BY <1>5 DEF InitRxNotify, ResetDevice
    <2>2. hostRx' \in [idx : Indices, chains : SUBSET RxChains]
      BY <1>0, <1>5, EmptyRings DEF InitRxNotify, ResetDevice, RxTypes
    <2>3. wire' \in Seq(Packets)
      <3>1. CASE wire' = wire
        BY <1>0, <3>1 DEF RxTypes
      <3>2. CASE wire' = <<>>
        BY <3>2
      <3>. QED
        BY <1>5, <3>1, <3>2 DEF InitRxNotify, ResetDevice
    <2>4. RxRing' \in Rings(RxQueueSize, RxChains) /\ rxbuf' \in [RxChains -> Packets \cup {None}]
      BY <1>0, <2>1 DEF RxTypes
    <2>. QED
      BY <1>0, <2>1, <2>2, <2>3, <2>4 DEF RxTypes
  <1>6. CASE \E b \in Buffers : VirtioNetTransmit(b)
    BY <1>0, <1>a, <1>6 DEF VirtioNetTransmit
  <1>7. CASE TxInsertFails
    BY <1>0, <1>a, <1>7 DEF TxInsertFails, Unmap, Duplicate
  <1>8. CASE TransmitSupply
    BY <1>0, <1>a, <1>8 DEF TransmitSupply, Duplicate
  <1>9. CASE TransmitPublish
    BY <1>0, <1>a, <1>9 DEF TransmitPublish
  <1>10. CASE TransmitNotify
    BY <1>0, <1>a, <1>10 DEF TransmitNotify
  <1>11. CASE VirtioNetGetStatus
    BY <1>0, <1>a, <1>11 DEF VirtioNetGetStatus
  <1>12. CASE VirtioNetReceive
    <2>. DEFINE c == Used(RxRing, RxQueueSize, RxLastUsed)
    <2>1. /\ UNCHANGED <<hostRx, rxbuf>> /\ RxLastUsed # RxRing.UsedIdx
          /\ RxRing' = Supply(RxRing, RxQueueSize, c)
          /\ RxLastUsed' = (RxLastUsed + 1) % IdxMod /\ wire' = Tail(wire)
          /\ pc = "idle" /\ State = "Initialized"
      BY <1>12 DEF VirtioNetReceive
    <2>2. c \in RxChains /\ Supply(RxRing, RxQueueSize, c) \in Rings(RxQueueSize, RxChains)
      BY <1>0, RingUpdates, Sizes DEF RxTypes
    <2>3. RxLastUsed' \in Indices
      BY <1>0, <2>1, Advanced DEF RxTypes
    <2>4. Len(wire) > 0
      <3>1. RingQueue(RxRing.UsedElem, RxLastUsed, RxRing.UsedIdx, RxQueueSize, RxChains)
        BY <1>0, Sizes DEF RxTypes, Rings, RingQueue
      <3>2. Len(RxDone) > 0
        BY <2>1, <3>1, QueuePop DEF RxDone
      <3>. QED
        BY <2>1, <3>2 DEF Inv, RxPackets, RxOperating, Operating
    <2>5. wire' \in Seq(Packets)
      BY <1>0, <2>1, <2>4, TailIs DEF RxTypes
    <2>6. RxRing' \in Rings(RxQueueSize, RxChains) /\ rxbuf' \in [RxChains -> Packets \cup {None}]
      BY <1>0, <2>1, <2>2 DEF RxTypes
    <2>. QED
      BY <1>0, <2>1, <2>3, <2>5, <2>6 DEF RxTypes
  <1>13. CASE ReceivePublish
    <2>1. UNCHANGED <<RxLastUsed, hostRx, rxbuf, wire>> /\ RxRing' = Publish(RxRing)
      BY <1>13 DEF ReceivePublish
    <2>2. RxRing' \in Rings(RxQueueSize, RxChains)
      BY <1>0, <2>1, RingUpdates, Sizes DEF RxTypes
    <2>3. rxbuf' \in [RxChains -> Packets \cup {None}] /\ wire' \in Seq(Packets)
      BY <1>0, <2>1 DEF RxTypes
    <2>. QED
      BY <1>0, <2>1, <2>2, <2>3 DEF RxTypes
  <1>14. CASE ReceiveNotify
    BY <1>0, <1>a, <1>14 DEF ReceiveNotify
  <1>15. CASE HostTakeTx
    BY <1>0, <1>a, <1>15 DEF HostTakeTx
  <1>16. CASE \E chain \in TxChains : HostSend(chain)
    BY <1>0, <1>a, <1>16 DEF HostSend, HostCompleteTx
  <1>17. CASE HostTakeRx
    <2>1. UNCHANGED <<RxRing, RxLastUsed, rxbuf, wire>>
      BY <1>17 DEF HostTakeRx
    <2>2. hostRx' \in [idx : Indices, chains : SUBSET RxChains]
      <3>. DEFINE chain == RxRing.AvailRing[hostRx.idx % RxQueueSize]
      <3>1. hostRx.idx \in Indices /\ hostRx.chains \subseteq RxChains
        BY <1>0 DEF RxTypes
      <3>2. (hostRx.idx + 1) % IdxMod \in Indices
        BY <3>1, Advanced
      <3>3. chain \in RxChains
        BY <1>0, <3>1, RingUpdates, Sizes DEF RxTypes
      <3>4. hostRx' = hostRx \/ hostRx' = [idx |-> (hostRx.idx + 1) % IdxMod,
                                           chains |-> hostRx.chains \cup {chain}]
        BY <1>17 DEF HostTakeRx
      <3>. HIDE DEF chain
      <3>. QED
        BY <1>0, <3>1, <3>2, <3>3, <3>4 DEF RxTypes
    <2>3. RxRing' \in Rings(RxQueueSize, RxChains) /\ rxbuf' \in [RxChains -> Packets \cup {None}]
      BY <1>0, <2>1 DEF RxTypes
    <2>4. wire' \in Seq(Packets)
      BY <1>0, <2>1 DEF RxTypes
    <2>. QED
      BY <1>0, <2>1, <2>2, <2>3, <2>4 DEF RxTypes
  <1>18. CASE \E c \in hostRx.chains, packet \in Packets : HostStoreRx(c, packet)
    <2>1. PICK c \in hostRx.chains, packet \in Packets : HostStoreRx(c, packet)
      BY <1>18
    <2>2. c \in RxChains /\ UNCHANGED RxLastUsed
      BY <1>0, <2>1 DEF RxTypes, HostStoreRx
    <2>3. RxRing' \in Rings(RxQueueSize, RxChains)
      BY <1>0, <2>1, <2>2, RingCompletes, Sizes DEF RxTypes, HostStoreRx
    <2>4. hostRx' \in [idx : Indices, chains : SUBSET RxChains]
      BY <1>0, <2>1 DEF RxTypes, HostStoreRx
    <2>5. rxbuf' \in [RxChains -> Packets \cup {None}]
      BY <1>0, <2>1, <2>2 DEF RxTypes, HostStoreRx
    <2>6. wire' \in Seq(Packets)
      BY <1>0, <2>1, AppendIs DEF RxTypes, HostStoreRx
    <2>. QED
      BY <1>0, <2>2, <2>3, <2>4, <2>5, <2>6 DEF RxTypes
  <1>. QED
    BY <1>1, <1>2, <1>3, <1>4, <1>5, <1>6, <1>7, <1>8, <1>9, <1>10, <1>11, <1>12, <1>13, <1>14,
       <1>15, <1>16, <1>17, <1>18 DEF Working

\* The locals of Transmit(), for the same steps.
LEMMA WorkingLocals == ASSUME Inv, Working PROVE Locals'
  <1>. USE DEF binding, tx, rx, host, Acquire
  <1>0. Locals /\ Types /\ Mappings
    BY DEF Inv
  <1>a. ASSUME UNCHANGED <<TxBufCollection, cur>>, pc' = "TxInsert" => pc = "TxInsert",
               pc' \in {"TxInsert", "TxPublish", "TxNotify"} =>
                  pc \in {"TxInsert", "TxPublish", "TxNotify"}
        PROVE  Locals'
    BY <1>0, <1>a DEF Locals
  <1>1. CASE InitTxLayout
    BY <1>0, <1>a, <1>1 DEF InitTxLayout
  <1>2. CASE AllocateRxBuf
    BY <1>0, <1>a, <1>2 DEF AllocateRxBuf
  <1>3. CASE InitRxLayout
    BY <1>0, <1>a, <1>3 DEF InitRxLayout
  <1>4. CASE InitRxPublish
    BY <1>0, <1>a, <1>4 DEF InitRxPublish
  <1>5. CASE InitRxNotify
    BY <1>0, <1>a, <1>5 DEF InitRxNotify, ResetDevice
  <1>6. CASE \E b \in Buffers : VirtioNetTransmit(b)
    <2>1. PICK b \in Buffers : VirtioNetTransmit(b)
      BY <1>6
    <2>2. PICK a \in Map(b) : mapped' = mapped \cup {a} /\ cur' = [buf |-> b, addr |-> a]
      BY <2>1 DEF VirtioNetTransmit
    <2>3. pc = "idle" /\ State = "Initialized" /\ pc' = "TxInsert" /\ UNCHANGED TxBufCollection
      BY <2>1 DEF VirtioNetTransmit
    <2>4. DOMAIN TxBufCollection \subseteq mapped
      BY <1>0, <2>3 DEF Mappings, Operating
    <2>5. a \in TxAddresses /\ (Identity => a = b) /\ (~Identity => a \notin DOMAIN TxBufCollection)
      BY <2>2, <2>4 DEF Map, TxAddresses
    <2>. QED
      BY <1>0, <2>2, <2>3, <2>5 DEF Locals
  <1>7. CASE TxInsertFails
    BY <1>0, <1>7 DEF TxInsertFails, Locals
  <1>8. CASE TransmitSupply
    <2>1. /\ pc = "TxInsert" /\ pc' = "TxPublish" /\ UNCHANGED cur
          /\ TxBufCollection' = [a \in DOMAIN TxBufCollection \cup {cur.addr} |->
                                    IF a = cur.addr THEN cur.buf ELSE TxBufCollection[a]]
      BY <1>8 DEF TransmitSupply
    <2>. QED
      BY <1>0, <2>1 DEF Locals
  <1>9. CASE TransmitPublish
    BY <1>0, <1>a, <1>9 DEF TransmitPublish
  <1>10. CASE TransmitNotify
    BY <1>0, <1>10 DEF TransmitNotify, Locals
  <1>11. CASE VirtioNetGetStatus
    <2>. DEFINE addr == TxRing.Desc[Used(TxRing, TxQueueSize, TxLastUsed)]
    <2>1. /\ pc = "idle" /\ UNCHANGED <<pc, cur>>
          /\ TxBufCollection' = [a \in DOMAIN TxBufCollection \ {addr} |-> TxBufCollection[a]]
      BY <1>11 DEF VirtioNetGetStatus
    <2>. HIDE DEF addr
    <2>. QED
      BY <1>0, <2>1 DEF Locals
  <1>12. CASE VirtioNetReceive
    BY <1>0, <1>a, <1>12 DEF VirtioNetReceive
  <1>13. CASE ReceivePublish
    BY <1>0, <1>a, <1>13 DEF ReceivePublish
  <1>14. CASE ReceiveNotify
    BY <1>0, <1>a, <1>14 DEF ReceiveNotify
  <1>15. CASE HostTakeTx
    BY <1>0, <1>a, <1>15 DEF HostTakeTx
  <1>16. CASE \E chain \in TxChains : HostSend(chain)
    BY <1>0, <1>a, <1>16 DEF HostSend, HostCompleteTx
  <1>17. CASE HostTakeRx
    BY <1>0, <1>a, <1>17 DEF HostTakeRx
  <1>18. CASE \E c \in hostRx.chains, packet \in Packets : HostStoreRx(c, packet)
    BY <1>0, <1>a, <1>18 DEF HostStoreRx
  <1>. QED
    BY <1>1, <1>2, <1>3, <1>4, <1>5, <1>6, <1>7, <1>8, <1>9, <1>10, <1>11, <1>12, <1>13, <1>14,
       <1>15, <1>16, <1>17, <1>18 DEF Working

\* A chain is written behind the newest one and the index moves behind it.
Grown(b, c, a, from, to, size, S) ==
    /\ RingQueue(a, from, to, size, S) /\ c \in S /\ b = [a EXCEPT ![to % size] = c]
    /\ Count(from, to) < size /\ Count(from, to) + 1 < IdxMod

\* A queue that grows at its end.
LEMMA QueueGrow ==
    ASSUME NEW b, NEW c, NEW a, NEW from, NEW to, NEW size, NEW S,
           Grown(b, c, a, from, to, size, S)
    PROVE  /\ Queue(b, from, (to + 1) % IdxMod, size) = Append(Queue(a, from, to, size), c)
           /\ (to + 1) % IdxMod # from
           /\ (to + 1) % IdxMod \in Indices
  <1>. DEFINE d == [a EXCEPT ![to % size] = c]
  <1>0. /\ RingQueue(a, from, to, size, S) /\ c \in S
        /\ Count(from, to) < size /\ Count(from, to) + 1 < IdxMod
    BY DEF Grown
  <1>1. Queue(d, from, to, size) = Queue(a, from, to, size) /\ d[to % size] = c
    BY <1>0, QueueWrite
  <1>2. RingQueue(d, from, to, size, S)
    BY <1>0, QueueWrite DEF RingQueue
  <1>b. b = d
    BY DEF Grown
  <1>. HIDE DEF d
  <1>3. Queue(d, from, (to + 1) % IdxMod, size) = Append(Queue(d, from, to, size), d[to % size])
    BY <1>0, <1>2, QueuePublish
  <1>4. (to + 1) % IdxMod \in Indices /\ from \in Indices /\ to \in Indices
    BY <1>0, Advanced DEF RingQueue
  <1>5. Count(from, to) \in Nat
    BY <1>0, QueueType
  <1>6. Count(from, (to + 1) % IdxMod) = Count(from, to) + 1
    BY <1>0, <1>4, CountSteps
  <1>7. Count(from, (to + 1) % IdxMod) # 0
    BY <1>5, <1>6
  <1>8. (to + 1) % IdxMod # from
    BY <1>4, <1>7, CountIs
  <1>. QED
    BY <1>1, <1>3, <1>4, <1>8, <1>b

\* A queue between equal indices is empty.
LEMMA QueueEmpty ==
    ASSUME NEW a, NEW x, NEW size, NEW S, RingQueue(a, x, x, size, S)
    PROVE  Queue(a, x, x, size) \in Seq(S) /\ Len(Queue(a, x, x, size)) = 0
  <1>1. Count(x, x) = 0
    BY CountIs DEF RingQueue
  <1>. QED
    BY <1>1, QueueType

\* The transmit queues while the interface operates.
LEMMA TxFacts ==
    ASSUME TxTypes, TxQueues, TxOperating
    PROVE  /\ RingQueue(TxRing.AvailRing, hostTx.idx, TxEnd, TxQueueSize, TxChains)
           /\ RingQueue(TxRing.UsedElem, TxLastUsed, TxRing.UsedIdx, TxQueueSize, TxChains)
           /\ Places(FreeTx, TxSupplied, TxTaken, TxDone, TxChains)
           /\ Len(TxSupplied) \in Nat /\ Len(TxDone) \in Nat /\ Cardinality(TxTaken) \in Nat
           /\ Len(TxSupplied) = Count(hostTx.idx, TxEnd)
           /\ Len(TxDone) = Count(TxLastUsed, TxRing.UsedIdx)
           /\ IsFiniteSet(TxTaken) /\ IsFiniteSet(FreeTx)
           /\ Len(TxSupplied) + Cardinality(TxTaken) + Len(TxDone) = TxCurPending
           /\ TxCurPending \in Nat /\ TxCurPending <= TxMaxPending
  <1>1. TxRing.AvailIdx \in Indices /\ hostTx.idx \in Indices
    BY DEF TxTypes, Rings
  <1>2. TxEnd \in Indices
    BY <1>1, Advanced DEF TxEnd
  <1>3. RingQueue(TxRing.AvailRing, hostTx.idx, TxEnd, TxQueueSize, TxChains)
    BY <1>1, <1>2, Sizes DEF TxTypes, Rings, RingQueue
  <1>4. RingQueue(TxRing.UsedElem, TxLastUsed, TxRing.UsedIdx, TxQueueSize, TxChains)
    BY Sizes DEF TxTypes, Rings, RingQueue
  <1>5. Len(TxSupplied) = Count(hostTx.idx, TxEnd) /\ Len(TxSupplied) \in Nat
    BY <1>3, QueueType DEF TxSupplied
  <1>6. Len(TxDone) = Count(TxLastUsed, TxRing.UsedIdx) /\ Len(TxDone) \in Nat
    BY <1>4, QueueType DEF TxDone
  <1>7. /\ Places(FreeTx, TxSupplied, TxTaken, TxDone, TxChains)
        /\ Len(TxSupplied) + Cardinality(TxTaken) + Len(TxDone) = TxCurPending
    BY DEF TxQueues
  <1>8. IsFiniteSet(TxTaken) /\ IsFiniteSet(FreeTx)
    BY <1>7, Chains, FS_Subset DEF Places
  <1>9. Cardinality(TxTaken) \in Nat
    BY <1>8, FS_CardinalityType
  <1>10. TxCurPending \in Nat /\ TxCurPending <= TxMaxPending
    BY Sizes DEF TxTypes
  <1>. QED
    BY <1>3, <1>4, <1>5, <1>6, <1>7, <1>8, <1>9, <1>10

\* VirtioNetInitTx() puts every transmit chain on the free stack.
LEMMA InitTxLayoutQueues == ASSUME Inv, InitTxLayout PROVE TxQueues' /\ TxBuffers'
  <1>1. CASE pc' = "RxBuf"
    <2>1. /\ pc = "TxSharedReqMap" /\ dev = "driver_ok" /\ Empty(TxRing) /\ hostTx = NothingTaken
          /\ TxCurPending = 0 /\ TxBufCollection = <<>> /\ TxTypes
      BY <1>1 DEF InitTxLayout, Acquire, Inv, Idle, Device, InitTxSteps, Operating, CallSteps,
                  Types
    <2>2. /\ TxFreeStack' = [i \in 1 .. TxMaxPending |-> 2 * (i - 1)] /\ TxLastUsed' = TxRing.UsedIdx
          /\ UNCHANGED <<TxRing, TxCurPending, TxBufCollection, hostTx>>
      BY <1>1 DEF InitTxLayout, host
    <2>3. hostTx.idx = 0 /\ hostTx.chains = {} /\ TxRing.AvailIdx = 0 /\ TxRing.UsedIdx = 0
      BY <2>1 DEF NothingTaken, Empty
    <2>4. TxEnd' = 0
      BY <1>1, <2>2, <2>3 DEF TxEnd
    <2>5. /\ RingQueue(TxRing.AvailRing, 0, 0, TxQueueSize, TxChains)
          /\ RingQueue(TxRing.UsedElem, 0, 0, TxQueueSize, TxChains)
      BY <2>1, EmptyRings, Sizes DEF TxTypes, Rings, RingQueue
    <2>6. TxSupplied' \in Seq(TxChains) /\ Len(TxSupplied') = 0
      <3>1. TxSupplied' = Queue(TxRing.AvailRing, 0, 0, TxQueueSize)
        BY <2>2, <2>3, <2>4 DEF TxSupplied
      <3>. QED
        BY <2>5, <3>1, QueueEmpty
    <2>7. TxDone' \in Seq(TxChains) /\ Len(TxDone') = 0
      <3>1. TxDone' = Queue(TxRing.UsedElem, 0, 0, TxQueueSize)
        BY <2>2, <2>3 DEF TxDone
      <3>. QED
        BY <2>5, <3>1, QueueEmpty
    <2>8. TxTaken' = {}
      BY <2>2, <2>3 DEF TxTaken
    <2>9. /\ \A i \in 1 .. TxMaxPending : 2 * (i - 1) \in TxChains
          /\ \A c \in TxChains : \E i \in 1 .. TxMaxPending : c = 2 * (i - 1)
      <3>1. \A i \in 1 .. TxMaxPending : i - 1 \in 0 .. TxMaxPending - 1
        BY Sizes
      <3>2. \A j \in 0 .. TxMaxPending - 1 : j + 1 \in 1 .. TxMaxPending /\ (j + 1) - 1 = j
        BY Sizes
      <3>. QED
        BY <3>1, <3>2 DEF TxChains
    <2>10. FreeTx' = TxChains
      <3>1. FreeTx' = {TxFreeStack'[i] : i \in 1 .. TxMaxPending}
        BY <2>1, <2>2 DEF FreeTx
      <3>. QED
        BY <2>2, <2>9, <3>1
    <2>11. TxFreeStack' \in [1 .. TxMaxPending -> TxChains]
      BY <2>2, <2>9
    <2>12. \A i, j \in 1 .. TxMaxPending : TxFreeStack'[i] = TxFreeStack'[j] => i = j
      BY <2>2, Sizes
    <2>13. Places(TxChains, TxSupplied', {}, TxDone', TxChains)
      BY <2>6, <2>7 DEF Places, Injective, Apart
    <2>14. Cardinality({}) = 0
      BY FS_EmptySet
    <2>15. TxQueues'
      <3>1. TxCurPending' = 0 /\ TxCurPending' + 1 .. TxMaxPending = 1 .. TxMaxPending
        BY <2>1, <2>2
      <3>2. Len(TxSupplied') + Cardinality(TxTaken') + Len(TxDone') = TxCurPending'
        BY <2>6, <2>7, <2>8, <2>14, <3>1
      <3>3. Places(FreeTx', TxSupplied', TxTaken', TxDone', TxChains)
        BY <2>8, <2>10, <2>13
      <3>. QED
        BY <1>1, <2>11, <2>12, <3>1, <3>2, <3>3 DEF TxQueues
    <2>16. TxBuffers'
      <3>1. DOMAIN TxBufCollection' = {} /\ hostTx'.chains = {}
        BY <2>1, <2>2, <2>3
      <3>2. TxChains \ FreeTx' = {}
        BY <2>10
      <3>. QED
        BY <3>1, <3>2 DEF TxBuffers
    <2>. QED
      BY <2>15, <2>16
  <1>2. CASE pc' # "RxBuf"
    <2>1. ~TxOperating'
      BY <1>2 DEF InitTxLayout, Acquire, TxOperating, Operating, InitRxSteps, CallSteps
    <2>. QED
      BY <2>1, NotOperating
  <1>. QED
    BY <1>1, <1>2

\* Transmit() pops a chain and stores it behind the offered ones.
LEMMA TransmitSupplyQueues == ASSUME Inv, TransmitSupply PROVE TxQueues' /\ TxBuffers'
  <1>. DEFINE chain == TxFreeStack[TxCurPending + 1]
  <1>1. /\ pc = "TxInsert" /\ pc' = "TxPublish" /\ cur.addr \notin DOMAIN TxBufCollection
        /\ TxCurPending' = TxCurPending + 1
        /\ TxRing' = Supply([TxRing EXCEPT !.Desc[chain] = cur.addr], TxQueueSize, chain)
        /\ DOMAIN TxBufCollection' = DOMAIN TxBufCollection \cup {cur.addr}
        /\ UNCHANGED <<TxFreeStack, TxLastUsed, hostTx>>
    BY DEF TransmitSupply, Duplicate, host
  <1>2. TxOperating /\ TxTypes /\ TxQueues /\ TxBuffers
    BY <1>1 DEF Inv, TxOperating, Operating, CallSteps, Types
  <1>3. /\ chain \in FreeTx /\ chain \in TxChains
        /\ TxCurPending + 1 \in TxCurPending + 1 .. TxMaxPending
    BY <1>1, PoppedFree
  <1>4. TxFreeStack \in [1 .. TxMaxPending -> TxChains]
    BY <1>2 DEF TxQueues
  <1>5. /\ TxRing'.AvailRing = [TxRing.AvailRing EXCEPT ![TxRing.AvailIdx % TxQueueSize] = chain]
        /\ TxRing'.AvailIdx = TxRing.AvailIdx
        /\ TxRing'.UsedElem = TxRing.UsedElem /\ TxRing'.UsedIdx = TxRing.UsedIdx
        /\ TxRing'.Desc = [TxRing.Desc EXCEPT ![chain] = cur.addr]
    BY <1>1, <1>2 DEF Supply, TxTypes, Rings
  <1>6. TxRing.Desc \in [TxChains -> TxAddresses \cup {None}]
    BY <1>2 DEF TxTypes, Rings
  <1>7. TxCurPending \in Nat /\ TxMaxPending \in Nat /\ TxCurPending < TxMaxPending
    BY <1>1, <1>2, Sizes DEF TxQueues, TxTypes
  <1>8. TxEnd = TxRing.AvailIdx /\ TxEnd' = (TxRing.AvailIdx + 1) % IdxMod
    BY <1>1, <1>5 DEF TxEnd
  <1>. HIDE DEF chain
  <1>9. FreeTx' = FreeTx \ {chain}
    <2>1. TxCurPending' + 1 .. TxMaxPending = (TxCurPending + 1 .. TxMaxPending) \ {TxCurPending + 1}
      BY <1>1, <1>7
    <2>2. \A i, j \in TxCurPending + 1 .. TxMaxPending : TxFreeStack[i] = TxFreeStack[j] => i = j
      BY <1>2 DEF TxQueues
    <2>. QED
      BY <1>1, <1>3, <2>1, <2>2 DEF FreeTx, chain
  <1>10. Count(hostTx.idx, TxRing.AvailIdx) < TxQueueSize /\ Count(hostTx.idx, TxRing.AvailIdx) + 1 < IdxMod
    <2>1. Len(TxSupplied) < TxMaxPending /\ Len(TxSupplied) \in Nat
      BY <1>2, <1>7, TxFacts
    <2>2. Len(TxSupplied) = Count(hostTx.idx, TxRing.AvailIdx)
      BY <1>2, <1>8, TxFacts
    <2>. QED
      BY <2>1, <2>2, Sizes
  <1>11. TxSupplied' = Append(TxSupplied, chain) /\ TxEnd' # hostTx'.idx
    <2>1. RingQueue(TxRing.AvailRing, hostTx.idx, TxRing.AvailIdx, TxQueueSize, TxChains)
      BY <1>2, <1>8, TxFacts
    <2>2. Grown(TxRing'.AvailRing, chain, TxRing.AvailRing, hostTx.idx, TxRing.AvailIdx,
                TxQueueSize, TxChains)
      BY <1>3, <1>5, <1>10, <2>1 DEF Grown
    <2>3. /\ TxSupplied' = Queue(TxRing'.AvailRing, hostTx.idx, TxEnd', TxQueueSize)
          /\ TxSupplied = Queue(TxRing.AvailRing, hostTx.idx, TxRing.AvailIdx, TxQueueSize)
      BY <1>1, <1>8 DEF TxSupplied
    <2>4. hostTx'.idx = hostTx.idx
      BY <1>1
    <2>5. /\ Queue(TxRing'.AvailRing, hostTx.idx, (TxRing.AvailIdx + 1) % IdxMod, TxQueueSize)
                = Append(Queue(TxRing.AvailRing, hostTx.idx, TxRing.AvailIdx, TxQueueSize), chain)
          /\ (TxRing.AvailIdx + 1) % IdxMod # hostTx.idx
      BY <2>2, QueueGrow
    <2>. QED
      BY <1>8, <2>3, <2>4, <2>5
  <1>12. TxTaken' = TxTaken /\ TxDone' = TxDone
    BY <1>1, <1>5 DEF TxTaken, TxDone
  <1>13. Places(FreeTx', TxSupplied', TxTaken', TxDone', TxChains)
    BY <1>2, <1>3, <1>9, <1>11, <1>12, TxFacts, PlacesSupply
  <1>14. Len(TxSupplied') = Len(TxSupplied) + 1
    BY <1>2, <1>3, <1>11, TxFacts, AppendIs DEF Places
  <1>15. TxQueues'
    <2>1. Len(TxSupplied') + Cardinality(TxTaken') + Len(TxDone') = TxCurPending'
      BY <1>1, <1>2, <1>12, <1>14, TxFacts
    <2>2. \A i, j \in TxCurPending' + 1 .. TxMaxPending : TxFreeStack'[i] = TxFreeStack'[j] => i = j
      BY <1>1, <1>2, <1>7 DEF TxQueues
    <2>. QED
      BY <1>1, <1>4, <1>7, <1>11, <1>13, <2>1, <2>2 DEF TxQueues, InitRxSteps
  <1>16. TxBuffers'
    <2>1. TxChains \ FreeTx' = (TxChains \ FreeTx) \cup {chain} /\ chain \notin TxChains \ FreeTx
      BY <1>3, <1>9
    <2>2. /\ \A c \in TxChains \ FreeTx : TxRing'.Desc[c] = TxRing.Desc[c]
          /\ TxRing'.Desc[chain] = cur.addr
      BY <1>3, <1>5, <1>6, <2>1
    <2>3. DOMAIN TxBufCollection = {TxRing.Desc[c] : c \in TxChains \ FreeTx}
      BY <1>2 DEF TxBuffers
    <2>4. DOMAIN TxBufCollection' = {TxRing'.Desc[c] : c \in TxChains \ FreeTx'}
      BY <1>1, <2>1, <2>2, <2>3
    <2>5. \A c, d \in TxChains \ FreeTx' : TxRing'.Desc[c] = TxRing'.Desc[d] => c = d
      BY <1>1, <1>2, <2>1, <2>2, <2>3 DEF TxBuffers
    <2>6. \A c \in hostTx'.chains : c.addr = TxRing'.Desc[c.chain]
      <3>1. \A c \in hostTx.chains : c.chain \in TxChains \ FreeTx
        BY <1>2, TxFacts DEF Places, TxTaken
      <3>. QED
        BY <1>1, <1>2, <2>2, <3>1 DEF TxBuffers
    <2>. QED
      BY <2>4, <2>5, <2>6 DEF TxBuffers
  <1>. QED
    BY <1>15, <1>16

\* The store of Avail.Idx offers that chain to the host.
LEMMA TransmitPublishQueues == ASSUME Inv, TransmitPublish PROVE TxQueues' /\ TxBuffers'
  <1>1. /\ pc = "TxPublish" /\ pc' = "TxNotify" /\ TxRing' = Publish(TxRing)
        /\ UNCHANGED <<TxFreeStack, TxCurPending, TxLastUsed, TxBufCollection, hostTx>>
    BY DEF TransmitPublish, host
  <1>2. TxOperating /\ TxTypes /\ TxQueues /\ TxBuffers
    BY <1>1 DEF Inv, TxOperating, Operating, CallSteps, Types
  <1>3. /\ TxRing'.AvailRing = TxRing.AvailRing /\ TxRing'.AvailIdx = (TxRing.AvailIdx + 1) % IdxMod
        /\ TxRing'.UsedElem = TxRing.UsedElem /\ TxRing'.UsedIdx = TxRing.UsedIdx
        /\ TxRing'.Desc = TxRing.Desc
    BY <1>1, <1>2 DEF Publish, TxTypes, Rings
  <1>4. TxEnd' = TxEnd
    BY <1>1, <1>3 DEF TxEnd
  <1>5. TxSupplied' = TxSupplied /\ TxDone' = TxDone /\ TxTaken' = TxTaken /\ FreeTx' = FreeTx
    BY <1>1, <1>3, <1>4 DEF TxSupplied, TxDone, TxTaken, FreeTx
  <1>6. TxQueues'
    BY <1>1, <1>2, <1>5 DEF TxQueues, InitRxSteps
  <1>7. TxBuffers'
    BY <1>1, <1>2, <1>3, <1>5 DEF TxBuffers
  <1>. QED
    BY <1>6, <1>7

\* GetStatus() moves a chain from the used ring to the free stack.
LEMMA GetStatusQueues == ASSUME Inv, VirtioNetGetStatus PROVE TxQueues' /\ TxBuffers'
  <1>. DEFINE chain == Used(TxRing, TxQueueSize, TxLastUsed)
              addr  == TxRing.Desc[chain]
  <1>1. /\ pc = "idle" /\ State = "Initialized" /\ TxLastUsed # TxRing.UsedIdx
        /\ TxFreeStack' = [TxFreeStack EXCEPT ![TxCurPending] = chain]
        /\ DOMAIN TxBufCollection' = DOMAIN TxBufCollection \ {addr}
        /\ TxLastUsed' = (TxLastUsed + 1) % IdxMod /\ TxCurPending' = TxCurPending - 1
        /\ UNCHANGED <<pc, TxRing, hostTx>>
    BY DEF VirtioNetGetStatus, host
  <1>2. TxOperating /\ TxTypes /\ TxQueues /\ TxBuffers
    BY <1>1 DEF Inv, TxOperating, Operating, Types
  <1>3. /\ chain \in TxChains \ FreeTx /\ TxCurPending \in 1 .. TxMaxPending
        /\ TxFreeStack \in [1 .. TxMaxPending -> TxChains]
        /\ TxDone[1] = chain /\ Len(TxDone) > 0
    BY <1>1, ReapedFound
  <1>. HIDE DEF chain
  <1>4. TxDone' = Tail(TxDone)
    <2>1. RingQueue(TxRing.UsedElem, TxLastUsed, TxRing.UsedIdx, TxQueueSize, TxChains)
      BY <1>2, TxFacts
    <2>. QED
      BY <1>1, <2>1, QueuePop DEF TxDone
  <1>5. TxSupplied' = TxSupplied /\ TxTaken' = TxTaken
    BY <1>1 DEF TxSupplied, TxTaken, TxEnd
  <1>6. TxMaxPending \in Nat /\ TxCurPending' + 1 = TxCurPending
    BY <1>1, <1>3, Sizes
  <1>7. /\ TxCurPending .. TxMaxPending = (TxCurPending + 1 .. TxMaxPending) \cup {TxCurPending}
        /\ \A i \in TxCurPending + 1 .. TxMaxPending : i \in 1 .. TxMaxPending /\ i # TxCurPending
    BY <1>3, <1>6
  <1>8. /\ \A i \in TxCurPending + 1 .. TxMaxPending : TxFreeStack'[i] = TxFreeStack[i]
        /\ TxFreeStack'[TxCurPending] = chain
        /\ TxFreeStack' \in [1 .. TxMaxPending -> TxChains]
    BY <1>1, <1>3, <1>7
  <1>9. FreeTx' = FreeTx \cup {chain}
    BY <1>6, <1>7, <1>8 DEF FreeTx
  <1>10. Places(FreeTx', TxSupplied', TxTaken', TxDone', TxChains)
    <2>1. Places(FreeTx \cup {TxDone[1]}, TxSupplied, TxTaken, Tail(TxDone), TxChains)
      BY <1>2, <1>3, TxFacts, PlacesReap
    <2>. QED
      BY <1>3, <1>4, <1>5, <1>9, <2>1
  <1>11. Len(TxDone') = Len(TxDone) - 1
    BY <1>2, <1>3, <1>4, TxFacts, TailIs DEF Places
  <1>12. TxQueues'
    <2>1. Len(TxSupplied') + Cardinality(TxTaken') + Len(TxDone') = TxCurPending'
      BY <1>1, <1>2, <1>5, <1>11, TxFacts
    <2>2. \A i, j \in TxCurPending' + 1 .. TxMaxPending : TxFreeStack'[i] = TxFreeStack'[j] => i = j
      <3>1. \A i, j \in TxCurPending + 1 .. TxMaxPending : TxFreeStack[i] = TxFreeStack[j] => i = j
        BY <1>2 DEF TxQueues
      <3>2. \A i \in TxCurPending + 1 .. TxMaxPending : TxFreeStack[i] # chain
        BY <1>3 DEF FreeTx
      <3>. QED
        BY <1>6, <1>7, <1>8, <3>1, <3>2
    <2>. QED
      BY <1>1, <1>8, <1>10, <2>1, <2>2 DEF TxQueues, InitRxSteps
  <1>13. TxBuffers'
    <2>1. TxChains \ FreeTx' = (TxChains \ FreeTx) \ {chain}
      BY <1>9
    <2>2. /\ DOMAIN TxBufCollection = {TxRing.Desc[c] : c \in TxChains \ FreeTx}
          /\ \A c, d \in TxChains \ FreeTx : TxRing.Desc[c] = TxRing.Desc[d] => c = d
      BY <1>2 DEF TxBuffers
    <2>3. DOMAIN TxBufCollection' = {TxRing.Desc[c] : c \in TxChains \ FreeTx'}
      BY <1>1, <1>3, <2>1, <2>2
    <2>. QED
      BY <1>1, <1>2, <2>1, <2>2, <2>3 DEF TxBuffers
  <1>. QED
    BY <1>12, <1>13

\* Steps of the host leave the driver where it is.
LEMMA HostTakeTxQueues == ASSUME Inv, HostTakeTx PROVE TxQueues' /\ TxBuffers'
  <1>. USE DEF binding, tx
  <1>1. CASE hostTx.idx = TxRing.AvailIdx
    <2>1. UNCHANGED <<pc, State, TxRing, TxFreeStack, TxCurPending, TxLastUsed, TxBufCollection>>
      BY DEF HostTakeTx
    <2>2. UNCHANGED hostTx
      BY <1>1 DEF HostTakeTx
    <2>3. TxOperating' => TxOperating
      BY <2>1 DEF TxOperating, Operating
    <2>4. TxQueues /\ TxBuffers
      BY DEF Inv
    <2>5. pc' = "TxInsert" => TxCurPending < TxMaxPending
      BY <2>1, <2>4 DEF TxQueues, TxOperating, Operating, CallSteps
    <2>. QED
      BY <2>1, <2>2, <2>3, <2>4, <2>5, TxFrame
  <1>2. CASE hostTx.idx # TxRing.AvailIdx
    <2>. DEFINE chain == TxRing.AvailRing[hostTx.idx % TxQueueSize]
                elem  == [chain |-> chain, addr |-> TxRing.Desc[chain]]
    <2>1. /\ dev = "driver_ok"
          /\ hostTx' = [idx |-> (hostTx.idx + 1) % IdxMod, chains |-> hostTx.chains \cup {elem}]
          /\ UNCHANGED <<pc, State, TxRing, TxFreeStack, TxCurPending, TxLastUsed, TxBufCollection>>
      BY <1>2 DEF HostTakeTx
    <2>2. Operating /\ TxOperating /\ TxTypes /\ TxQueues /\ TxBuffers
      BY <1>2, <2>1, HostWorks DEF Inv, TxOperating, Types
    <2>3. hostTx'.idx = (hostTx.idx + 1) % IdxMod /\ hostTx'.chains = hostTx.chains \cup {elem}
      BY <2>1
    <2>4. elem.chain = chain /\ elem.addr = TxRing.Desc[chain]
      OBVIOUS
    <2>. HIDE DEF chain, elem
    <2>5. TxEnd' = TxEnd /\ FreeTx' = FreeTx /\ TxDone' = TxDone
      BY <2>1 DEF TxEnd, FreeTx, TxDone
    <2>6. TxEnd # hostTx.idx
      BY <1>2, <2>2 DEF TxQueues, TxEnd
    <2>7. TxSupplied' = Tail(TxSupplied) /\ TxSupplied[1] = chain /\ Len(TxSupplied) > 0
      BY <2>1, <2>2, <2>3, <2>5, <2>6, TxFacts, QueuePop DEF TxSupplied, chain
    <2>8. TxTaken' = TxTaken \cup {chain}
      BY <2>3, <2>4 DEF TxTaken
    <2>9. Places(FreeTx', TxSupplied', TxTaken', TxDone', TxChains) /\ chain \notin TxTaken
      <3>1. /\ Places(FreeTx, Tail(TxSupplied), TxTaken \cup {TxSupplied[1]}, TxDone, TxChains)
            /\ TxSupplied[1] \notin TxTaken
        BY <2>2, <2>7, TxFacts, PlacesTake
      <3>. QED
        BY <2>5, <2>7, <2>8, <3>1
    <2>10. Cardinality(TxTaken') = Cardinality(TxTaken) + 1
      BY <2>2, <2>8, <2>9, TxFacts, FS_AddElement
    <2>11. Len(TxSupplied') = Len(TxSupplied) - 1
      BY <2>2, <2>7, TxFacts, TailIs DEF Places
    <2>12. pc' = "TxPublish" => TxEnd' # hostTx'.idx
      <3>1. TxRing.AvailIdx \in Indices /\ hostTx.idx \in Indices
        BY <2>2 DEF TxTypes, Rings
      <3>2. (TxRing.AvailIdx + 1) % IdxMod # (hostTx.idx + 1) % IdxMod
        <4>1. PICK x \in Indices : x = (TxRing.AvailIdx + 1) % IdxMod
          BY <3>1, Advanced
        <4>2. PICK y \in Indices : y = (hostTx.idx + 1) % IdxMod
          BY <3>1, Advanced
        <4>3. /\ x = (IF TxRing.AvailIdx = IdxMod - 1 THEN 0 ELSE TxRing.AvailIdx + 1)
              /\ y = (IF hostTx.idx = IdxMod - 1 THEN 0 ELSE hostTx.idx + 1)
          BY <3>1, <4>1, <4>2, Advanced
        <4>4. x # y
          BY <1>2, <3>1, <4>3, Sizes DEF Indices
        <4>. QED
          BY <4>1, <4>2, <4>4
      <3>. QED
        BY <2>1, <2>3, <3>2 DEF TxEnd
    <2>13. TxQueues'
      <3>1. Len(TxSupplied') + Cardinality(TxTaken') + Len(TxDone') = TxCurPending'
        BY <2>1, <2>2, <2>5, <2>10, <2>11, TxFacts
      <3>. QED
        BY <2>1, <2>2, <2>9, <2>12, <3>1 DEF TxQueues
    <2>14. TxBuffers'
      BY <2>1, <2>2, <2>3, <2>4, <2>5 DEF TxBuffers
    <2>. QED
      BY <2>13, <2>14
  <1>. QED
    BY <1>1, <1>2

\* The host moves a chain it holds to the end of the used ring.
LEMMA HostCompleteTxQueues ==
    ASSUME Inv, NEW c \in hostTx.chains, HostCompleteTx(c) PROVE TxQueues' /\ TxBuffers'
  <1>1. /\ hostTx' = [hostTx EXCEPT !.chains = @ \ {c}]
        /\ TxRing' = [TxRing EXCEPT !.UsedElem[TxRing.UsedIdx % TxQueueSize] = c.chain,
                                    !.UsedIdx = (@ + 1) % IdxMod]
        /\ UNCHANGED <<pc, State, TxFreeStack, TxCurPending, TxLastUsed, TxBufCollection>>
    BY DEF HostCompleteTx, binding
  <1>2. Operating /\ TxOperating /\ TxTypes /\ TxQueues /\ TxBuffers
    BY HostWorks DEF Inv, TxOperating, Types
  <1>3. /\ TxRing'.AvailRing = TxRing.AvailRing /\ TxRing'.AvailIdx = TxRing.AvailIdx
        /\ TxRing'.UsedElem = [TxRing.UsedElem EXCEPT ![TxRing.UsedIdx % TxQueueSize] = c.chain]
        /\ TxRing'.UsedIdx = (TxRing.UsedIdx + 1) % IdxMod
        /\ TxRing'.Desc = TxRing.Desc
    BY <1>1, <1>2 DEF TxTypes, Rings
  <1>4. hostTx'.idx = hostTx.idx /\ hostTx'.chains = hostTx.chains \ {c}
    BY <1>1, <1>2 DEF TxTypes
  <1>5. c.chain \in TxTaken /\ c.chain \in TxChains
    BY <1>2 DEF TxTaken, TxTypes, TxElements
  <1>6. \A d \in hostTx.chains : d.chain = c.chain => d = c
    <2>1. \A d \in hostTx.chains : d \in TxElements /\ d.addr = TxRing.Desc[d.chain]
      BY <1>2 DEF TxTypes, TxBuffers
    <2>. QED
      BY <2>1 DEF TxElements
  <1>7. TxTaken' = TxTaken \ {c.chain}
    BY <1>4, <1>6 DEF TxTaken
  <1>8. TxSupplied' = TxSupplied /\ FreeTx' = FreeTx /\ TxEnd' = TxEnd
    BY <1>1, <1>3, <1>4 DEF TxSupplied, FreeTx, TxEnd
  <1>9. Cardinality(TxTaken') = Cardinality(TxTaken) - 1 /\ Cardinality(TxTaken) > 0
    <2>1. Cardinality(TxTaken') = Cardinality(TxTaken) - 1
      BY <1>2, <1>5, <1>7, TxFacts, FS_RemoveElement
    <2>2. TxTaken # {} /\ IsFiniteSet(TxTaken) /\ Cardinality(TxTaken) \in Nat
      BY <1>2, <1>5, TxFacts
    <2>3. Cardinality(TxTaken) # 0
      BY <2>2, FS_EmptySet
    <2>. QED
      BY <2>1, <2>2, <2>3
  <1>10. /\ Count(TxLastUsed, TxRing.UsedIdx) < TxQueueSize
         /\ Count(TxLastUsed, TxRing.UsedIdx) + 1 < IdxMod
    <2>1. /\ Len(TxDone) < TxMaxPending /\ Len(TxDone) \in Nat
          /\ Len(TxDone) = Count(TxLastUsed, TxRing.UsedIdx)
      BY <1>2, <1>9, TxFacts, Sizes
    <2>. QED
      BY <2>1, Sizes
  <1>11. TxDone' = Append(TxDone, c.chain)
    <2>1. RingQueue(TxRing.UsedElem, TxLastUsed, TxRing.UsedIdx, TxQueueSize, TxChains)
      BY <1>2, TxFacts
    <2>2. Grown(TxRing'.UsedElem, c.chain, TxRing.UsedElem, TxLastUsed, TxRing.UsedIdx,
                TxQueueSize, TxChains)
      BY <1>3, <1>5, <1>10, <2>1 DEF Grown
    <2>. QED
      BY <1>1, <1>3, <2>2, QueueGrow DEF TxDone
  <1>12. Places(FreeTx', TxSupplied', TxTaken', TxDone', TxChains)
    BY <1>2, <1>5, <1>7, <1>8, <1>11, TxFacts, PlacesComplete
  <1>13. Len(TxDone') = Len(TxDone) + 1
    BY <1>2, <1>5, <1>11, TxFacts, AppendIs DEF Places
  <1>14. TxQueues'
    <2>1. Len(TxSupplied') + Cardinality(TxTaken') + Len(TxDone') = TxCurPending'
      BY <1>1, <1>2, <1>8, <1>9, <1>13, TxFacts
    <2>. QED
      BY <1>1, <1>2, <1>4, <1>8, <1>12, <2>1 DEF TxQueues
  <1>15. TxBuffers'
    BY <1>1, <1>2, <1>3, <1>4, <1>8 DEF TxBuffers
  <1>. QED
    BY <1>14, <1>15

\* The transmit queues, for every step that works on the rings.
LEMMA WorkingTxQueues == ASSUME Inv, Working PROVE TxQueues' /\ TxBuffers'
  <1>0. TxQueues /\ TxBuffers
    BY DEF Inv
  <1>. USE DEF TxOperating, Operating, InitRxSteps, CallSteps, Acquire, binding, tx, rx, host
  <1>a. ASSUME UNCHANGED <<TxRing, TxFreeStack, TxCurPending, TxLastUsed, TxBufCollection, hostTx>>,
               TxOperating' => TxOperating,
               pc' = "TxPublish" <=> pc = "TxPublish",
               pc' \in InitRxSteps => pc \in InitRxSteps,
               pc' \in {"TxPublish", "TxNotify"} => pc \in {"TxPublish", "TxNotify"},
               pc' = "TxInsert" => TxCurPending < TxMaxPending
        PROVE  TxQueues' /\ TxBuffers'
    BY <1>0, <1>a, TxFrame
  <1>1. CASE InitTxLayout
    BY <1>1, InitTxLayoutQueues
  <1>2. CASE AllocateRxBuf
    <2>1. CASE TxOperating'
      BY <1>2, <1>a, <2>1 DEF AllocateRxBuf
    <2>2. CASE ~TxOperating'
      BY <2>2, NotOperating
    <2>. QED
      BY <2>1, <2>2
  <1>3. CASE InitRxLayout
    <2>1. CASE TxOperating'
      BY <1>3, <1>a, <2>1 DEF InitRxLayout
    <2>2. CASE ~TxOperating'
      BY <2>2, NotOperating
    <2>. QED
      BY <2>1, <2>2
  <1>4. CASE InitRxPublish
    BY <1>0, <1>4, <1>a DEF InitRxPublish
  <1>5. CASE InitRxNotify
    <2>1. CASE pc' = "idle"
      BY <1>5, <1>a, <2>1 DEF InitRxNotify
    <2>2. CASE pc' # "idle"
      BY <1>5, <2>2, NotOperating DEF InitRxNotify
    <2>. QED
      BY <2>1, <2>2
  <1>6. CASE \E b \in Buffers : VirtioNetTransmit(b)
    BY <1>0, <1>6, <1>a DEF VirtioNetTransmit
  <1>7. CASE TxInsertFails
    BY <1>0, <1>7, <1>a DEF TxInsertFails, Unmap, Duplicate
  <1>8. CASE TransmitSupply
    BY <1>8, TransmitSupplyQueues
  <1>9. CASE TransmitPublish
    BY <1>9, TransmitPublishQueues
  <1>10. CASE TransmitNotify
    BY <1>0, <1>10, <1>a DEF TransmitNotify
  <1>11. CASE VirtioNetGetStatus
    BY <1>11, GetStatusQueues
  <1>12. CASE VirtioNetReceive
    BY <1>0, <1>12, <1>a DEF VirtioNetReceive
  <1>13. CASE ReceivePublish
    BY <1>0, <1>13, <1>a DEF ReceivePublish
  <1>14. CASE ReceiveNotify
    BY <1>0, <1>14, <1>a DEF ReceiveNotify
  <1>15. CASE HostTakeTx
    BY <1>15, HostTakeTxQueues
  <1>16. CASE \E chain \in TxChains : HostSend(chain)
    BY <1>16, HostCompleteTxQueues DEF HostSend
  <1>17. CASE HostTakeRx
    BY <1>0, <1>17, <1>a DEF HostTakeRx, TxQueues
  <1>18. CASE \E c \in hostRx.chains, packet \in Packets : HostStoreRx(c, packet)
    BY <1>0, <1>18, <1>a DEF HostStoreRx, TxQueues
  <1>. QED
    BY <1>1, <1>2, <1>3, <1>4, <1>5, <1>6, <1>7, <1>8, <1>9, <1>10, <1>11, <1>12, <1>13, <1>14,
       <1>15, <1>16, <1>17, <1>18 DEF Working

\* The receive queues while the interface operates.
LEMMA RxFacts ==
    ASSUME RxTypes, RxQueues, RxOperating
    PROVE  /\ RingQueue(RxRing.AvailRing, hostRx.idx, RxEnd, RxQueueSize, RxChains)
           /\ RingQueue(RxRing.UsedElem, RxLastUsed, RxRing.UsedIdx, RxQueueSize, RxChains)
           /\ Places({}, RxSupplied, hostRx.chains, RxDone, RxChains)
           /\ Len(RxSupplied) \in Nat /\ Len(RxDone) \in Nat /\ Cardinality(hostRx.chains) \in Nat
           /\ Len(RxSupplied) = Count(hostRx.idx, RxEnd)
           /\ Len(RxDone) = Count(RxLastUsed, RxRing.UsedIdx)
           /\ IsFiniteSet(hostRx.chains)
           /\ Len(RxSupplied) + Cardinality(hostRx.chains) + Len(RxDone) = RxAlwaysPending
  <1>1. RxRing.AvailIdx \in Indices /\ hostRx.idx \in Indices
    BY DEF RxTypes, Rings
  <1>2. RxEnd \in Indices
    <2>1. RxAlwaysPending \in Indices /\ (RxRing.AvailIdx + 1) % IdxMod \in Indices
      BY <1>1, Advanced, Sizes DEF Indices
    <2>. QED
      BY <1>1, <2>1 DEF RxEnd
  <1>3. RingQueue(RxRing.AvailRing, hostRx.idx, RxEnd, RxQueueSize, RxChains)
    BY <1>1, <1>2, Sizes DEF RxTypes, Rings, RingQueue
  <1>4. RingQueue(RxRing.UsedElem, RxLastUsed, RxRing.UsedIdx, RxQueueSize, RxChains)
    BY Sizes DEF RxTypes, Rings, RingQueue
  <1>5. Len(RxSupplied) = Count(hostRx.idx, RxEnd) /\ Len(RxSupplied) \in Nat
    BY <1>3, QueueType DEF RxSupplied
  <1>6. Len(RxDone) = Count(RxLastUsed, RxRing.UsedIdx) /\ Len(RxDone) \in Nat
    BY <1>4, QueueType DEF RxDone
  <1>7. /\ Places({}, RxSupplied, hostRx.chains, RxDone, RxChains)
        /\ Len(RxSupplied) + Cardinality(hostRx.chains) + Len(RxDone) = RxAlwaysPending
    BY DEF RxQueues
  <1>8. IsFiniteSet(hostRx.chains)
    BY <1>7, Chains, FS_Subset DEF Places
  <1>9. Cardinality(hostRx.chains) \in Nat
    BY <1>8, FS_CardinalityType
  <1>. QED
    BY <1>3, <1>4, <1>5, <1>6, <1>7, <1>8, <1>9

\* VirtioNetInitRx() offers every receive chain to the host.
LEMMA InitRxLayoutQueues == ASSUME Inv, InitRxLayout PROVE RxQueues' /\ RxPackets'
  <1>1. CASE pc' = "RxPublish"
    <2>1. /\ pc = "RxBufMap" /\ dev = "driver_ok" /\ Empty(RxRing) /\ hostRx = NothingTaken
          /\ wire = <<>> /\ RxTypes
      BY <1>1 DEF InitRxLayout, Acquire, Inv, Idle, Device, InitRxSteps, RxOperating, Operating,
                  CallSteps, Types
    <2>. DEFINE a == [i \in DOMAIN RxRing.AvailRing |->
                        IF i < RxAlwaysPending THEN 2 * i ELSE RxRing.AvailRing[i]]
    <2>2. /\ RxRing' = [RxRing EXCEPT !.AvailRing = a]
          /\ RxLastUsed' = RxRing.UsedIdx /\ UNCHANGED <<hostRx, wire>>
      BY <1>1 DEF InitRxLayout
    <2>3. hostRx.idx = 0 /\ hostRx.chains = {} /\ RxRing.AvailIdx = 0 /\ RxRing.UsedIdx = 0
      BY <2>1 DEF NothingTaken, Empty
    <2>4. RxRing.AvailRing \in [0 .. RxQueueSize - 1 -> RxChains]
      BY <2>1 DEF RxTypes, Rings
    <2>5. /\ a \in [0 .. RxQueueSize - 1 -> RxChains]
          /\ \A i \in 0 .. RxAlwaysPending - 1 : a[i] = 2 * i
      <3>1. \A i \in 0 .. RxQueueSize - 1 : i < RxAlwaysPending => 2 * i \in RxChains
        BY Sizes DEF RxChains
      <3>2. 0 .. RxAlwaysPending - 1 \subseteq 0 .. RxQueueSize - 1
        BY Sizes
      <3>3. a \in [0 .. RxQueueSize - 1 -> RxChains]
        BY <2>4, <3>1
      <3>4. \A i \in 0 .. RxAlwaysPending - 1 : i < RxAlwaysPending
        BY Sizes
      <3>5. \A i \in 0 .. RxAlwaysPending - 1 : a[i] = 2 * i
        BY <2>4, <3>2, <3>4
      <3>. QED
        BY <3>3, <3>5
    <2>6. /\ RxRing'.AvailRing = a /\ RxRing'.AvailIdx = 0
          /\ RxRing'.UsedElem = RxRing.UsedElem /\ RxRing'.UsedIdx = 0
      BY <2>1, <2>2, <2>3 DEF RxTypes, Rings
    <2>. HIDE DEF a
    <2>7. RxAlwaysPending \in Indices /\ 0 \in Indices
      BY Sizes DEF Indices
    <2>8. RxEnd' = RxAlwaysPending
      BY <1>1 DEF RxEnd
    <2>9. Count(0, RxAlwaysPending) = RxAlwaysPending
      BY <2>7, CountIs, Sizes
    <2>10. RingQueue(a, 0, RxAlwaysPending, RxQueueSize, RxChains)
      BY <2>5, <2>7, Sizes DEF RingQueue
    <2>11. RxSupplied' = Queue(a, 0, RxAlwaysPending, RxQueueSize)
      BY <2>2, <2>3, <2>6, <2>8 DEF RxSupplied
    <2>12. RxSupplied' \in Seq(RxChains) /\ Len(RxSupplied') = RxAlwaysPending
      BY <2>9, <2>10, <2>11, QueueType
    <2>13. \A k \in 1 .. RxAlwaysPending : RxSupplied'[k] = 2 * (k - 1)
      <3>. TAKE k \in 1 .. RxAlwaysPending
      <3>1. k - 1 \in 0 .. RxQueueSize - 1 /\ k - 1 \in 0 .. RxAlwaysPending - 1
        BY Sizes
      <3>2. (k - 1) % RxQueueSize = k - 1
        BY <3>1, ModSmall, Sizes
      <3>3. 0 + (k - 1) = k - 1
        BY <3>1
      <3>4. RxSupplied'[k] = a[(0 + (k - 1)) % RxQueueSize]
        BY <2>9, <2>11, QueueAt
      <3>. QED
        BY <2>5, <3>1, <3>2, <3>3, <3>4
    <2>14. RxDone' \in Seq(RxChains) /\ Len(RxDone') = 0
      <3>1. RxDone' = Queue(RxRing.UsedElem, 0, 0, RxQueueSize)
        BY <2>2, <2>3, <2>6 DEF RxDone
      <3>2. RingQueue(RxRing.UsedElem, 0, 0, RxQueueSize, RxChains)
        BY <2>1, <2>7, Sizes DEF RxTypes, Rings, RingQueue
      <3>. QED
        BY <3>1, <3>2, QueueEmpty
    <2>15. Places({}, RxSupplied', {}, RxDone', RxChains)
      <3>1. Injective(RxSupplied')
        BY <2>12, <2>13, Sizes DEF Injective
      <3>2. \A c \in RxChains : In(RxSupplied', c)
        <4>. TAKE c \in RxChains
        <4>1. PICK i \in 0 .. RxAlwaysPending - 1 : c = 2 * i
          BY DEF RxChains
        <4>2. i + 1 \in 1 .. RxAlwaysPending /\ (i + 1) - 1 = i
          BY Sizes
        <4>3. RxSupplied'[i + 1] = c
          BY <2>13, <4>1, <4>2
        <4>. QED
          BY <2>12, <4>2, <4>3 DEF In
      <3>. QED
        BY <2>12, <2>14, <3>1, <3>2 DEF Places, Injective, Apart
    <2>16. RxQueues'
      <3>1. hostRx'.chains = {} /\ Cardinality({}) = 0
        BY <2>2, <2>3, FS_EmptySet
      <3>2. Len(RxSupplied') + Cardinality(hostRx'.chains) + Len(RxDone') = RxAlwaysPending
        BY <2>12, <2>14, <3>1, Sizes
      <3>3. Places({}, RxSupplied', hostRx'.chains, RxDone', RxChains)
        BY <2>15, <3>1
      <3>4. Empty(RxRing') /\ hostRx' = NothingTaken /\ RxLastUsed' = 0
        BY <2>1, <2>2, <2>3, <2>6 DEF Empty
      <3>. QED
        BY <1>1, <3>2, <3>3, <3>4 DEF RxQueues, Empty
    <2>17. RxPackets'
      <3>1. Len(wire') = 0
        BY <2>1, <2>2
      <3>. QED
        BY <2>14, <3>1 DEF RxPackets
    <2>. QED
      BY <2>16, <2>17
  <1>2. CASE pc' # "RxPublish"
    <2>1. ~RxOperating'
      BY <1>2 DEF InitRxLayout, Acquire, RxOperating, Operating, CallSteps
    <2>. QED
      BY <2>1 DEF RxQueues, RxPackets
  <1>. QED
    BY <1>1, <1>2

\* Both steps that publish leave the queue as it is.
LEMMA PublishRxQueues == ASSUME Inv, InitRxPublish \/ ReceivePublish PROVE RxQueues' /\ RxPackets'
  <1>1. /\ pc \in {"RxPublish", "RxRecycle"} /\ pc' \in {"RxNotify", "RxRecycleNotify"}
        /\ UNCHANGED <<RxLastUsed, hostRx, rxbuf, wire>>
    BY DEF InitRxPublish, ReceivePublish, host
  <1>2. RxOperating /\ RxTypes /\ RxQueues /\ RxPackets
    BY <1>1 DEF Inv, RxOperating, Operating, CallSteps, Types
  <1>3. /\ RxRing'.AvailRing = RxRing.AvailRing /\ RxRing'.AvailIdx = RxEnd
        /\ RxRing'.UsedElem = RxRing.UsedElem /\ RxRing'.UsedIdx = RxRing.UsedIdx
    BY <1>2 DEF InitRxPublish, ReceivePublish, Publish, RxEnd, RxTypes, Rings
  <1>4. RxEnd' = RxEnd
    BY <1>1, <1>3 DEF RxEnd
  <1>5. RxSupplied' = RxSupplied /\ RxDone' = RxDone
    BY <1>1, <1>3, <1>4 DEF RxSupplied, RxDone
  <1>6. RxQueues'
    BY <1>1, <1>2, <1>5 DEF RxQueues
  <1>7. RxPackets'
    BY <1>1, <1>2, <1>5 DEF RxPackets
  <1>. QED
    BY <1>6, <1>7

\* Receive() moves a chain from the used ring behind the offered ones.
LEMMA ReceiveQueues == ASSUME Inv, VirtioNetReceive PROVE RxQueues' /\ RxPackets'
  <1>. DEFINE c == Used(RxRing, RxQueueSize, RxLastUsed)
  <1>1. /\ pc = "idle" /\ State = "Initialized" /\ pc' = "RxRecycle" /\ RxLastUsed # RxRing.UsedIdx
        /\ RxRing' = Supply(RxRing, RxQueueSize, c) /\ wire' = Tail(wire)
        /\ RxLastUsed' = (RxLastUsed + 1) % IdxMod /\ UNCHANGED <<hostRx, rxbuf>>
    BY DEF VirtioNetReceive
  <1>2. RxOperating /\ RxTypes /\ RxQueues /\ RxPackets
    BY <1>1 DEF Inv, RxOperating, Operating, Types
  <1>3. /\ RxRing'.AvailRing = [RxRing.AvailRing EXCEPT ![RxRing.AvailIdx % RxQueueSize] = c]
        /\ RxRing'.AvailIdx = RxRing.AvailIdx
        /\ RxRing'.UsedElem = RxRing.UsedElem /\ RxRing'.UsedIdx = RxRing.UsedIdx
    BY <1>1, <1>2 DEF Supply, RxTypes, Rings
  <1>4. RxDone' = Tail(RxDone) /\ RxDone[1] = c /\ Len(RxDone) > 0
    <2>1. RingQueue(RxRing.UsedElem, RxLastUsed, RxRing.UsedIdx, RxQueueSize, RxChains)
      BY <1>2, RxFacts
    <2>. QED
      BY <1>1, <1>3, <2>1, QueuePop DEF RxDone, Used
  <1>. HIDE DEF c
  <1>5. RxEnd = RxRing.AvailIdx /\ RxEnd' = (RxRing.AvailIdx + 1) % IdxMod
    BY <1>1, <1>3 DEF RxEnd
  <1>6. /\ Places({c}, RxSupplied, hostRx.chains, Tail(RxDone), RxChains) /\ c \in RxChains
    <2>1. /\ Places({} \cup {RxDone[1]}, RxSupplied, hostRx.chains, Tail(RxDone), RxChains)
          /\ RxDone[1] \in RxChains
      BY <1>2, <1>4, RxFacts, PlacesReap
    <2>2. {} \cup {RxDone[1]} = {c}
      BY <1>4
    <2>. QED
      BY <1>4, <2>1, <2>2
  <1>7. /\ Count(hostRx.idx, RxRing.AvailIdx) < RxQueueSize
        /\ Count(hostRx.idx, RxRing.AvailIdx) + 1 < IdxMod
    <2>1. Len(RxSupplied) < RxAlwaysPending /\ Len(RxSupplied) \in Nat
      BY <1>2, <1>4, RxFacts
    <2>2. Len(RxSupplied) = Count(hostRx.idx, RxRing.AvailIdx)
      BY <1>2, <1>5, RxFacts
    <2>. QED
      BY <2>1, <2>2, Sizes
  <1>8. RxSupplied' = Append(RxSupplied, c) /\ RxEnd' # hostRx'.idx
    <2>1. RingQueue(RxRing.AvailRing, hostRx.idx, RxRing.AvailIdx, RxQueueSize, RxChains)
      BY <1>2, <1>5, RxFacts
    <2>2. c \in RxChains
      BY <1>6
    <2>3. Grown(RxRing'.AvailRing, c, RxRing.AvailRing, hostRx.idx, RxRing.AvailIdx,
                RxQueueSize, RxChains)
      BY <1>3, <1>7, <2>1, <2>2 DEF Grown
    <2>. QED
      BY <1>1, <1>3, <1>5, <2>3, QueueGrow DEF RxSupplied
  <1>9. Places({}, RxSupplied', hostRx'.chains, RxDone', RxChains)
    <2>1. Places({c} \ {c}, Append(RxSupplied, c), hostRx.chains, Tail(RxDone), RxChains)
      BY <1>6, PlacesSupply
    <2>2. {c} \ {c} = {}
      OBVIOUS
    <2>. QED
      BY <1>1, <1>4, <1>8, <2>1, <2>2
  <1>10. Len(RxSupplied') = Len(RxSupplied) + 1
    BY <1>2, <1>6, <1>8, RxFacts, AppendIs DEF Places
  <1>11. /\ Len(RxDone') = Len(RxDone) - 1 /\ Len(RxDone) \in Nat
         /\ \A i \in 1 .. Len(RxDone) - 1 : RxDone'[i] = RxDone[i + 1]
    BY <1>2, <1>4, RxFacts, TailIs DEF Places
  <1>12. RxQueues'
    <2>1. Len(RxSupplied') + Cardinality(hostRx'.chains) + Len(RxDone') = RxAlwaysPending
      BY <1>1, <1>2, <1>10, <1>11, RxFacts
    <2>. QED
      BY <1>1, <1>8, <1>9, <2>1 DEF RxQueues
  <1>13. RxPackets'
    <2>1. wire \in Seq(Packets) /\ Len(wire) = Len(RxDone)
      BY <1>2 DEF RxTypes, RxPackets
    <2>2. /\ Len(wire') = Len(RxDone) - 1
          /\ \A i \in 1 .. Len(RxDone) - 1 : wire'[i] = wire[i + 1]
      BY <1>1, <1>4, <2>1, TailIs
    <2>3. \A i \in 1 .. Len(RxDone) - 1 : rxbuf[RxDone[i + 1]] = wire[i + 1]
      <3>. TAKE i \in 1 .. Len(RxDone) - 1
      <3>1. i + 1 \in 1 .. Len(wire)
        BY <1>11, <2>1
      <3>. QED
        BY <1>2, <3>1 DEF RxPackets
    <2>. QED
      BY <1>1, <1>11, <2>2, <2>3, SMTT(30) DEF RxPackets
  <1>. QED
    BY <1>12, <1>13

\* The host takes the oldest offered chain.
LEMMA HostTakeRxQueues == ASSUME Inv, HostTakeRx PROVE RxQueues' /\ RxPackets'
  <1>1. UNCHANGED <<pc, State, RxRing, RxLastUsed, rxbuf, wire>>
    BY DEF HostTakeRx, binding, rx
  <1>2. CASE hostRx.idx = RxRing.AvailIdx
    <2>1. UNCHANGED hostRx
      BY <1>2 DEF HostTakeRx
    <2>2. RxOperating' => RxOperating
      BY <1>1 DEF RxOperating, Operating
    <2>. QED
      BY <1>1, <2>1, <2>2, RxFrame DEF Inv
  <1>3. CASE hostRx.idx # RxRing.AvailIdx
    <2>. DEFINE chain == RxRing.AvailRing[hostRx.idx % RxQueueSize]
    <2>1. /\ dev = "driver_ok"
          /\ hostRx' = [idx |-> (hostRx.idx + 1) % IdxMod, chains |-> hostRx.chains \cup {chain}]
      BY <1>3 DEF HostTakeRx
    <2>2. RxOperating /\ pc # "RxPublish" /\ RxTypes /\ RxQueues /\ RxPackets
      BY <1>3, <2>1, HostWorks DEF Inv, Types
    <2>3. hostRx'.idx = (hostRx.idx + 1) % IdxMod /\ hostRx'.chains = hostRx.chains \cup {chain}
      BY <2>1
    <2>4. RxEnd' = RxEnd /\ RxDone' = RxDone
      BY <1>1 DEF RxEnd, RxDone
    <2>5. RxEnd # hostRx.idx
      BY <1>3, <2>2 DEF RxQueues, RxEnd
    <2>6. RxSupplied' = Tail(RxSupplied) /\ RxSupplied[1] = chain /\ Len(RxSupplied) > 0
      <3>1. RingQueue(RxRing.AvailRing, hostRx.idx, RxEnd, RxQueueSize, RxChains)
        BY <2>2, RxFacts
      <3>. QED
        BY <1>1, <2>3, <2>4, <2>5, <3>1, QueuePop DEF RxSupplied
    <2>. HIDE DEF chain
    <2>7. /\ Places({}, RxSupplied', hostRx'.chains, RxDone', RxChains)
          /\ chain \notin hostRx.chains
      <3>1. /\ Places({}, Tail(RxSupplied), hostRx.chains \cup {RxSupplied[1]}, RxDone, RxChains)
            /\ RxSupplied[1] \notin hostRx.chains
        BY <2>2, <2>6, RxFacts, PlacesTake
      <3>. QED
        BY <2>3, <2>4, <2>6, <3>1
    <2>8. Cardinality(hostRx'.chains) = Cardinality(hostRx.chains) + 1
      BY <2>2, <2>3, <2>7, RxFacts, FS_AddElement
    <2>9. Len(RxSupplied') = Len(RxSupplied) - 1
      BY <2>2, <2>6, RxFacts, TailIs DEF Places
    <2>10. pc' = "RxRecycle" => RxEnd' # hostRx'.idx
      <3>1. RxRing.AvailIdx \in Indices /\ hostRx.idx \in Indices
        BY <2>2 DEF RxTypes, Rings
      <3>2. (RxRing.AvailIdx + 1) % IdxMod # (hostRx.idx + 1) % IdxMod
        <4>1. PICK x \in Indices : x = (RxRing.AvailIdx + 1) % IdxMod
          BY <3>1, Advanced
        <4>2. PICK y \in Indices : y = (hostRx.idx + 1) % IdxMod
          BY <3>1, Advanced
        <4>3. /\ x = (IF RxRing.AvailIdx = IdxMod - 1 THEN 0 ELSE RxRing.AvailIdx + 1)
              /\ y = (IF hostRx.idx = IdxMod - 1 THEN 0 ELSE hostRx.idx + 1)
          BY <3>1, <4>1, <4>2, Advanced
        <4>4. x # y
          BY <1>3, <3>1, <4>3, Sizes DEF Indices
        <4>. QED
          BY <4>1, <4>2, <4>4
      <3>. QED
        BY <1>1, <2>3, <3>2 DEF RxEnd
    <2>11. RxQueues'
      <3>1. Len(RxSupplied') + Cardinality(hostRx'.chains) + Len(RxDone') = RxAlwaysPending
        BY <2>2, <2>4, <2>8, <2>9, RxFacts
      <3>. QED
        BY <1>1, <2>2, <2>7, <2>10, <3>1 DEF RxQueues
    <2>12. RxPackets'
      BY <1>1, <2>2, <2>4 DEF RxPackets
    <2>. QED
      BY <2>11, <2>12
  <1>. QED
    BY <1>2, <1>3

\* The host stores a packet and moves its chain to the used ring.
LEMMA HostStoreRxQueues ==
    ASSUME Inv, NEW chain \in hostRx.chains, NEW packet \in Packets, HostStoreRx(chain, packet)
    PROVE  RxQueues' /\ RxPackets'
  <1>1. /\ hostRx' = [hostRx EXCEPT !.chains = @ \ {chain}]
        /\ rxbuf' = [rxbuf EXCEPT ![chain] = packet] /\ wire' = Append(wire, packet)
        /\ RxRing' = [RxRing EXCEPT !.UsedElem[RxRing.UsedIdx % RxQueueSize] = chain,
                                    !.UsedIdx = (@ + 1) % IdxMod]
        /\ UNCHANGED <<pc, State, RxLastUsed>>
    BY DEF HostStoreRx, binding
  <1>2. RxOperating /\ pc # "RxPublish" /\ RxTypes /\ RxQueues /\ RxPackets
    BY HostWorks DEF Inv, Types
  <1>3. /\ RxRing'.AvailRing = RxRing.AvailRing /\ RxRing'.AvailIdx = RxRing.AvailIdx
        /\ RxRing'.UsedElem = [RxRing.UsedElem EXCEPT ![RxRing.UsedIdx % RxQueueSize] = chain]
        /\ RxRing'.UsedIdx = (RxRing.UsedIdx + 1) % IdxMod
    BY <1>1, <1>2 DEF RxTypes, Rings
  <1>4. hostRx'.idx = hostRx.idx /\ hostRx'.chains = hostRx.chains \ {chain} /\ chain \in RxChains
    BY <1>1, <1>2 DEF RxTypes
  <1>5. RxEnd' = RxEnd
    BY <1>1, <1>3 DEF RxEnd
  <1>6. RxSupplied' = RxSupplied
    BY <1>3, <1>4, <1>5 DEF RxSupplied
  <1>7. Cardinality(hostRx'.chains) = Cardinality(hostRx.chains) - 1 /\ Cardinality(hostRx.chains) > 0
    <2>1. Cardinality(hostRx'.chains) = Cardinality(hostRx.chains) - 1
      BY <1>2, <1>4, RxFacts, FS_RemoveElement
    <2>2. hostRx.chains # {} /\ IsFiniteSet(hostRx.chains) /\ Cardinality(hostRx.chains) \in Nat
      BY <1>2, RxFacts
    <2>3. Cardinality(hostRx.chains) # 0
      BY <2>2, FS_EmptySet
    <2>. QED
      BY <2>1, <2>2, <2>3
  <1>8. /\ Count(RxLastUsed, RxRing.UsedIdx) < RxQueueSize
        /\ Count(RxLastUsed, RxRing.UsedIdx) + 1 < IdxMod
    <2>1. /\ Len(RxDone) < RxAlwaysPending /\ Len(RxDone) \in Nat
          /\ Len(RxDone) = Count(RxLastUsed, RxRing.UsedIdx)
      BY <1>2, <1>7, RxFacts
    <2>. QED
      BY <2>1, Sizes
  <1>9. RxDone' = Append(RxDone, chain)
    <2>1. RingQueue(RxRing.UsedElem, RxLastUsed, RxRing.UsedIdx, RxQueueSize, RxChains)
      BY <1>2, RxFacts
    <2>2. Grown(RxRing'.UsedElem, chain, RxRing.UsedElem, RxLastUsed, RxRing.UsedIdx,
                RxQueueSize, RxChains)
      BY <1>3, <1>4, <1>8, <2>1 DEF Grown
    <2>. QED
      BY <1>1, <1>3, <2>2, QueueGrow, SMTT(30) DEF RxDone
  <1>10. Places({}, RxSupplied', hostRx'.chains, RxDone', RxChains)
    BY <1>2, <1>4, <1>6, <1>9, RxFacts, PlacesComplete
  <1>11. /\ Len(RxDone') = Len(RxDone) + 1 /\ RxDone'[Len(RxDone) + 1] = chain
         /\ \A i \in 1 .. Len(RxDone) : RxDone'[i] = RxDone[i]
    BY <1>2, <1>4, <1>9, RxFacts, AppendIs DEF Places
  <1>12. RxQueues'
    <2>1. Len(RxSupplied') + Cardinality(hostRx'.chains) + Len(RxDone') = RxAlwaysPending
      <3>1. /\ Len(RxSupplied) \in Nat /\ Len(RxDone) \in Nat /\ Cardinality(hostRx.chains) \in Nat
            /\ Len(RxSupplied) + Cardinality(hostRx.chains) + Len(RxDone) = RxAlwaysPending
        BY <1>2, RxFacts
      <3>2. Len(RxSupplied') = Len(RxSupplied) /\ Len(RxDone') = Len(RxDone) + 1
        BY <1>6, <1>11
      <3>. QED
        BY <1>7, <3>1, <3>2
    <2>. QED
      BY <1>1, <1>2, <1>4, <1>5, <1>10, <2>1 DEF RxQueues
  <1>13. RxPackets'
    <2>. DEFINE n == Len(RxDone)
    <2>1. wire \in Seq(Packets) /\ Len(wire) = n /\ n \in Nat
      BY <1>2, RxFacts DEF RxTypes, RxPackets
    <2>2. Len(wire') = n + 1 /\ wire'[n + 1] = packet /\ \A i \in 1 .. n : wire'[i] = wire[i]
      BY <1>1, <2>1, AppendIs
    <2>3. \A i \in 1 .. n : RxDone[i] \in RxChains /\ RxDone[i] # chain
      BY <1>2, RxFacts DEF Places, Apart
    <2>4. rxbuf'[chain] = packet /\ \A i \in 1 .. n : rxbuf'[RxDone[i]] = rxbuf[RxDone[i]]
      BY <1>1, <1>2, <1>4, <2>3 DEF RxTypes
    <2>5. \A i \in 1 .. n : rxbuf[RxDone[i]] = wire[i]
      BY <1>2, <2>1 DEF RxPackets
    <2>6. \A k \in 1 .. n + 1 : k = n + 1 \/ k \in 1 .. n
      BY <2>1
    <2>7. Len(RxDone') = n + 1
      BY <1>11
    <2>8. \A k \in 1 .. n + 1 : rxbuf'[RxDone'[k]] = wire'[k]
      BY <1>11, <2>2, <2>4, <2>5, <2>6
    <2>. QED
      BY <2>2, <2>7, <2>8 DEF RxPackets
  <1>. QED
    BY <1>12, <1>13

\* The receive queues, for every step that works on the rings.
LEMMA WorkingRxQueues == ASSUME Inv, Working PROVE RxQueues' /\ RxPackets'
  <1>0. RxQueues /\ RxPackets
    BY DEF Inv
  <1>. USE DEF RxOperating, Operating, CallSteps, Acquire, binding, tx, rx, host
  <1>a. ASSUME UNCHANGED <<RxRing, RxLastUsed, hostRx, rxbuf, wire>>,
               RxOperating' => RxOperating,
               pc' = "RxPublish" <=> pc = "RxPublish",
               pc' = "RxRecycle" <=> pc = "RxRecycle"
        PROVE  RxQueues' /\ RxPackets'
    BY <1>0, <1>a, RxFrame
  <1>1. CASE InitTxLayout
    BY <1>1, <1>a DEF InitTxLayout
  <1>2. CASE AllocateRxBuf
    BY <1>2, <1>a DEF AllocateRxBuf
  <1>3. CASE InitRxLayout
    BY <1>3, InitRxLayoutQueues
  <1>4. CASE InitRxPublish
    BY <1>4, PublishRxQueues
  <1>5. CASE InitRxNotify
    <2>1. CASE pc' = "idle"
      BY <1>5, <1>a, <2>1 DEF InitRxNotify
    <2>2. CASE pc' # "idle"
      BY <1>5, <2>2 DEF InitRxNotify, RxQueues, RxPackets
    <2>. QED
      BY <2>1, <2>2
  <1>6. CASE \E b \in Buffers : VirtioNetTransmit(b)
    BY <1>6, <1>a DEF VirtioNetTransmit
  <1>7. CASE TxInsertFails
    BY <1>7, <1>a DEF TxInsertFails, Unmap, Duplicate
  <1>8. CASE TransmitSupply
    BY <1>8, <1>a DEF TransmitSupply, Duplicate
  <1>9. CASE TransmitPublish
    BY <1>9, <1>a DEF TransmitPublish
  <1>10. CASE TransmitNotify
    BY <1>10, <1>a DEF TransmitNotify
  <1>11. CASE VirtioNetGetStatus
    BY <1>11, <1>a DEF VirtioNetGetStatus
  <1>12. CASE VirtioNetReceive
    BY <1>12, ReceiveQueues
  <1>13. CASE ReceivePublish
    BY <1>13, PublishRxQueues
  <1>14. CASE ReceiveNotify
    BY <1>14, <1>a DEF ReceiveNotify
  <1>15. CASE HostTakeTx
    BY <1>15, <1>a DEF HostTakeTx
  <1>16. CASE \E chain \in TxChains : HostSend(chain)
    BY <1>16, <1>a DEF HostSend, HostCompleteTx
  <1>17. CASE HostTakeRx
    BY <1>17, HostTakeRxQueues
  <1>18. CASE \E c \in hostRx.chains, packet \in Packets : HostStoreRx(c, packet)
    BY <1>18, HostStoreRxQueues
  <1>. QED
    BY <1>1, <1>2, <1>3, <1>4, <1>5, <1>6, <1>7, <1>8, <1>9, <1>10, <1>11, <1>12, <1>13, <1>14,
       <1>15, <1>16, <1>17, <1>18 DEF Working

\* The steps that work on the rings keep the invariant.
LEMMA WorkingInv == ASSUME Inv, Working PROVE Inv'
  <1>1. Types'
    BY WorkingStatus, WorkingTxTypes, WorkingRxTypes DEF Types
  <1>2. Control' /\ Device' /\ Holdings' /\ Mappings' /\ Idle' /\ Locals'
    BY WorkingControl, WorkingDevice, WorkingHoldings, WorkingMappings, WorkingIdle, WorkingLocals
  <1>3. TxQueues' /\ TxBuffers' /\ RxQueues' /\ RxPackets'
    BY WorkingTxQueues, WorkingRxQueues
  <1>. QED
    BY <1>1, <1>2, <1>3 DEF Inv

\* Nothing changes in a stuttering step.
LEMMA StutterInv == ASSUME Inv, UNCHANGED vars PROVE Inv'
  <1>1. /\ UNCHANGED <<pc, held, mapped, State, asserted, dev, kicked, cur, owned>>
        /\ UNCHANGED <<TxRing, TxFreeStack, TxCurPending, TxLastUsed, TxBufCollection, hostTx>>
        /\ UNCHANGED <<RxRing, RxLastUsed, hostRx, rxbuf, wire>>
    BY DEF vars, binding, tx, rx, host
  <1>2. Operating' = Operating /\ TxOperating' = TxOperating /\ RxOperating' = RxOperating
    BY <1>1 DEF Operating, TxOperating, RxOperating
  <1>3. StatusTypes' /\ TxTypes' /\ RxTypes'
    BY <1>1, TxTypesFrame, RxTypesFrame DEF Inv, Types, StatusTypes
  <1>4. Control' /\ Holdings' /\ Mappings' /\ Locals'
    BY <1>1, <1>2 DEF Inv, Control, Holdings, Mappings, Locals
  <1>5. Device' /\ Idle'
    BY <1>1, <1>2 DEF Inv, Device, Idle, Empty
  <1>6. TxQueues' /\ TxBuffers'
    <2>1. pc' = "TxInsert" => TxCurPending < TxMaxPending
      BY <1>1 DEF Inv, TxQueues, TxOperating, Operating, CallSteps
    <2>. QED
      BY <1>1, <1>2, <2>1, TxFrame DEF Inv
  <1>7. RxQueues' /\ RxPackets'
    BY <1>1, <1>2, RxFrame DEF Inv
  <1>. QED
    BY <1>3, <1>4, <1>5, <1>6, <1>7 DEF Inv, Types

\* The invariant is inductive.
LEMMA InvStep == ASSUME Inv, [Next]_vars PROVE Inv'
  <1>1. CASE Next
    <2>1. Plain \/ TearDown \/ Working
      BY <1>1 DEF Next, Binding, Initialize, Shutdown, Calls, TransmitSteps, ReceiveSteps, Host,
                  Plain, TearDown, Working
    <2>. QED
      BY <2>1, PlainInv, TearDownInv, WorkingInv
  <1>2. CASE UNCHANGED vars
    BY <1>2, StutterInv
  <1>. QED
    BY <1>1, <1>2

\* The inductive invariant holds in every reachable state.
THEOREM Invariant == Spec => []Inv
  <1>1. Init => Inv
    BY InvInit
  <1>2. Inv /\ [Next]_vars => Inv'
    BY InvStep
  <1>. QED
    BY <1>1, <1>2, PTL DEF Spec

-----------------------------------------------------------------------------
(* What follows whatever services and notifications fail.                  *)

\* The invariant implies TypeOK.
LEMMA InvTypeOK == ASSUME Inv PROVE TypeOK
  <1>. USE DEF Inv
  <1>1. held \subseteq Resources
    BY DEF Control, Holdings, Operating, Resources, Bound, BindingSteps, RingSteps, InitTxSteps,
           InitRxSteps, UnwindSteps, CallSteps, ShutdownSteps
  <1>2. mapped \subseteq {"RxRing", "TxRing", "TxSharedReq", "RxBuf"} \cup TxAddresses
    <2>1. DOMAIN TxBufCollection \subseteq TxAddresses
      BY DEF Types, TxTypes
    <2>2. pc = "TxInsert" => cur.addr \in TxAddresses
      BY DEF Locals
    <2>. QED
      BY <2>1, <2>2 DEF Control, Mappings, Operating, BindingSteps, RingSteps, InitTxSteps,
           InitRxSteps, UnwindSteps, CallSteps, ShutdownSteps
  <1>3. RingOK(TxRing, TxQueueSize, TxChains) /\ RingOK(RxRing, RxQueueSize, RxChains)
    BY DEF Types, TxTypes, RxTypes, RingOK, Rings
  <1>4. /\ TxFreeStack = <<>> \/ TxFreeStack \in [1 .. TxMaxPending -> TxChains]
        /\ TxCurPending \in 0 .. TxMaxPending /\ {TxLastUsed, RxLastUsed} \subseteq Indices
        /\ DOMAIN TxBufCollection \subseteq TxAddresses
        /\ \A a \in DOMAIN TxBufCollection : TxBufCollection[a] \in Buffers
        /\ owned \subseteq Buffers
    BY DEF Types, TxTypes, RxTypes
  <1>5. /\ hostRx.chains \subseteq RxChains /\ {hostTx.idx, hostRx.idx} \subseteq Indices
        /\ wire \in Seq(Packets)
    BY DEF Types, TxTypes, RxTypes
  <1>6. /\ State \in {"Stopped", "Started", "Initialized"} /\ asserted \in BOOLEAN
        /\ dev \in {"reset", "driver", "driver_ok", "failed"} /\ kicked \subseteq {"Tx", "Rx"}
    BY DEF Types, StatusTypes
  <1>. QED
    BY <1>1, <1>2, <1>3, <1>4, <1>5, <1>6 DEF TypeOK

\* The variables of the driver and of the host keep their types.
THEOREM TypeCorrect == Spec => []TypeOK
  BY InvTypeOK, Invariant, PTL

\* Whenever the interface is idle and not initialized, the device has been reset: after
\* every unwinding of Initialize(), after Shutdown(), and from Start() on.
THEOREM StartedIsResetTheorem == Spec => []StartedIsReset
  <1>1. Inv => StartedIsReset
    BY DEF Inv, Device, StartedIsReset
  <1>. QED
    BY <1>1, Invariant, PTL

\* The chains that the host has taken hold addresses of collected buffers.
LEMMA TakenCollected ==
    ASSUME Inv, NEW c \in hostTx.chains
    PROVE  Operating /\ c.addr \in DOMAIN TxBufCollection
  <1>1. Operating /\ TxOperating /\ TxTypes /\ TxQueues /\ TxBuffers
    BY HostWorks DEF Inv, TxOperating, Types
  <1>2. c.chain \in TxChains \ FreeTx
    BY <1>1, TxFacts DEF Places, TxTaken
  <1>. QED
    BY <1>1, <1>2 DEF TxBuffers

\* A live device has its rings mapped, and what the host has taken of them: no failure of
\* Initialize(), no Shutdown(), no GetStatus() and no ExitBootServices() unmaps memory that
\* the host may still access.
THEOREM HostInMappedMemoryTheorem == Spec => []HostInMappedMemory
  <1>1. ASSUME Inv PROVE HostInMappedMemory
    <2>1. dev = "driver_ok" => {"TxRing", "RxRing"} \subseteq mapped
      BY <1>1 DEF Inv, Control, Device, Mappings, Operating, BindingSteps, RingSteps, InitTxSteps,
             InitRxSteps, UnwindSteps, CallSteps, ShutdownSteps
    <2>2. hostRx.chains # {} => "RxBuf" \in mapped
      BY <1>1, HostWorks DEF Inv, Mappings, RxOperating, Operating
    <2>3. \A c \in hostTx.chains : {"TxSharedReq", c.addr} \subseteq mapped
      <3>1. \A c \in hostTx.chains : Operating /\ c.addr \in DOMAIN TxBufCollection
        BY <1>1, TakenCollected
      <3>2. Operating => {"TxSharedReq"} \cup DOMAIN TxBufCollection \subseteq mapped
        BY <1>1 DEF Inv, Mappings
      <3>. QED
        BY <3>1, <3>2
    <2>. QED
      BY <2>1, <2>2, <2>3 DEF HostInMappedMemory
  <1>. QED
    BY <1>1, Invariant, PTL

\* Every error path of the binding and of Initialize() releases exactly what was acquired
\* before it, and Shutdown() what Initialize() acquired.
THEOREM NothingLeakedTheorem == Spec => []NothingLeaked
  <1>1. Inv => NothingLeaked
    BY DEF Inv, Holdings, Mappings, Operating, BindingSteps, Bound, NothingLeaked
  <1>. QED
    BY <1>1, Invariant, PTL

\* The chains between two indices are the elements of the queue.
LEMMA BetweenIs ==
    ASSUME NEW a, NEW from, NEW to, NEW size, NEW S, RingQueue(a, from, to, size, S)
    PROVE  \A x : x \in Between(a, from, to, size) <=> In(Queue(a, from, to, size), x)
  <1>. DEFINE n == Count(from, to)
              q == Queue(a, from, to, size)
  <1>1. n \in Nat /\ Len(q) = n
    BY QueueType
  <1>2. \A k \in 1 .. n : q[k] = a[(from + (k - 1)) % size]
    BY QueueAt
  <1>3. Between(a, from, to, size) = {a[(from + k) % size] : k \in 0 .. n - 1}
    BY DEF Between, Count
  <1>. HIDE DEF n, q
  <1>4. \A k \in 0 .. n - 1 : k + 1 \in 1 .. n /\ q[k + 1] = a[(from + k) % size]
    <2>. TAKE k \in 0 .. n - 1
    <2>1. k + 1 \in 1 .. n /\ (k + 1) - 1 = k
      BY <1>1
    <2>. QED
      BY <1>2, <2>1
  <1>5. \A k \in 1 .. n : k - 1 \in 0 .. n - 1
    BY <1>1
  <1>6. ASSUME NEW x PROVE x \in Between(a, from, to, size) <=> In(q, x)
    <2>1. ASSUME x \in Between(a, from, to, size) PROVE In(q, x)
      <3>1. PICK k \in 0 .. n - 1 : x = a[(from + k) % size]
        BY <1>3, <2>1
      <3>. QED
        BY <1>1, <1>4, <3>1 DEF In
    <2>2. ASSUME In(q, x) PROVE x \in Between(a, from, to, size)
      <3>1. PICK k \in 1 .. n : x = q[k]
        BY <1>1, <2>2 DEF In
      <3>2. k - 1 \in 0 .. n - 1 /\ x = a[(from + (k - 1)) % size]
        BY <1>2, <1>5, <3>1
      <3>. QED
        BY <1>3, <3>2
    <2>. QED
      BY <2>1, <2>2
  <1>. QED
    BY <1>6 DEF q

\* Four disjoint sets that make up a set account for it.
LEMMA AccountsFour ==
    ASSUME NEW A, NEW B, NEW C, NEW D, NEW all, A \cup B \cup C \cup D = all,
           A \cap B = {}, A \cap C = {}, A \cap D = {}, B \cap C = {}, B \cap D = {}, C \cap D = {}
    PROVE  Accounts(<<A, B, C, D>>, all)
  <1>. DEFINE s == <<A, B, C, D>>
  <1>1. DOMAIN s = {1, 2, 3, 4} /\ s[1] = A /\ s[2] = B /\ s[3] = C /\ s[4] = D
    OBVIOUS
  <1>. HIDE DEF s
  <1>2. {s[i] : i \in DOMAIN s} = {A, B, C, D}
    BY <1>1
  <1>3. UNION {s[i] : i \in DOMAIN s} = all
    BY <1>2
  <1>4. Disjoint(s)
    BY <1>1 DEF Disjoint
  <1>. QED
    BY <1>3, <1>4 DEF Accounts, s

\* The same of three sets.
LEMMA AccountsThree ==
    ASSUME NEW A, NEW B, NEW C, NEW all, A \cup B \cup C = all,
           A \cap B = {}, A \cap C = {}, B \cap C = {}
    PROVE  Accounts(<<A, B, C>>, all)
  <1>. DEFINE s == <<A, B, C>>
  <1>1. DOMAIN s = {1, 2, 3} /\ s[1] = A /\ s[2] = B /\ s[3] = C
    OBVIOUS
  <1>. HIDE DEF s
  <1>2. {s[i] : i \in DOMAIN s} = {A, B, C}
    BY <1>1
  <1>3. UNION {s[i] : i \in DOMAIN s} = all
    BY <1>2
  <1>4. Disjoint(s)
    BY <1>1 DEF Disjoint
  <1>. QED
    BY <1>3, <1>4 DEF Accounts, s

\* The elements of the queues are chains.
LEMMA InSeq ==
    ASSUME NEW all, NEW q \in Seq(all), NEW x, In(q, x) PROVE x \in all
  BY DEF In

\* The stack holds each free chain once.
LEMMA FreeCount ==
    ASSUME TxTypes, TxQueues, TxOperating
    PROVE  Cardinality(FreeTx) = TxMaxPending - TxCurPending
  <1>. DEFINE S == TxCurPending + 1 .. TxMaxPending
              f == [i \in S |-> TxFreeStack[i]]
  <1>1. TxCurPending \in Nat /\ TxMaxPending \in Nat /\ TxCurPending <= TxMaxPending
    BY Sizes DEF TxTypes
  <1>2. IsFiniteSet(S) /\ Cardinality(S) = TxMaxPending - TxCurPending
    <2>1. CASE TxCurPending = TxMaxPending
      <3>1. S = {}
        BY <1>1, <2>1
      <3>. QED
        BY <1>1, <2>1, <3>1, FS_EmptySet
    <2>2. CASE TxCurPending < TxMaxPending
      <3>1. TxCurPending + 1 <= TxMaxPending /\ TxCurPending + 1 \in Int /\ TxMaxPending \in Int
        BY <1>1, <2>2
      <3>2. IsFiniteSet(S) /\ Cardinality(S) = TxMaxPending - (TxCurPending + 1) + 1
        BY <3>1, FS_Interval
      <3>. QED
        BY <1>1, <3>2
    <2>. QED
      BY <1>1, <2>1, <2>2
  <1>3. f \in Bijection(S, FreeTx)
    <2>1. f \in [S -> FreeTx]
      BY DEF FreeTx
    <2>2. \A i, j \in S : f[i] = f[j] => i = j
      BY DEF TxQueues
    <2>3. \A c \in FreeTx : \E i \in S : f[i] = c
      BY DEF FreeTx
    <2>. HIDE DEF S, f
    <2>. QED
      BY <2>1, <2>2, <2>3 DEF Bijection, Injection, Surjection, IsInjective
  <1>4. ExistsBijection(S, FreeTx)
    BY <1>3 DEF ExistsBijection
  <1>. QED
    BY <1>2, <1>4, FS_Bijection

\* Each transmit chain is free, offered to the host, held by it or completed, and never at
\* two of these places: Transmit(), GetStatus() and a host that completes in any order
\* neither lose a chain nor use it twice, also where the 16-bit indices wrap.
THEOREM TxChainsAccountedTheorem == Spec => []TxChainsAccounted
  <1>1. ASSUME Inv, pc = "idle", State = "Initialized"
        PROVE  /\ Accounts(<<FreeTx, Offered(TxRing, hostTx.idx, TxQueueSize),
                             {c.chain : c \in hostTx.chains},
                             Completed(TxRing, TxLastUsed, TxQueueSize)>>, TxChains)
               /\ Cardinality(FreeTx) = TxMaxPending - TxCurPending
    <2>. DEFINE O == Offered(TxRing, hostTx.idx, TxQueueSize)
                D == Completed(TxRing, TxLastUsed, TxQueueSize)
    <2>1. TxOperating /\ TxTypes /\ TxQueues
      BY <1>1 DEF Inv, TxOperating, Operating, Types
    <2>2. TxEnd = TxRing.AvailIdx
      BY <1>1 DEF TxEnd
    <2>3. \A x : x \in O <=> In(TxSupplied, x)
      <3>1. RingQueue(TxRing.AvailRing, hostTx.idx, TxEnd, TxQueueSize, TxChains)
        BY <2>1, TxFacts
      <3>2. \A x : x \in Between(TxRing.AvailRing, hostTx.idx, TxEnd, TxQueueSize) <=> In(TxSupplied, x)
        BY <3>1, BetweenIs DEF TxSupplied
      <3>. QED
        BY <2>2, <3>2 DEF Offered
    <2>4. \A x : x \in D <=> In(TxDone, x)
      <3>1. RingQueue(TxRing.UsedElem, TxLastUsed, TxRing.UsedIdx, TxQueueSize, TxChains)
        BY <2>1, TxFacts
      <3>. QED
        BY <3>1, BetweenIs DEF Completed, TxDone
    <2>. HIDE DEF O, D
    <2>5. Places(FreeTx, TxSupplied, TxTaken, TxDone, TxChains)
      BY <2>1, TxFacts
    <2>6. /\ \A x \in O : x \in TxChains /\ x \notin FreeTx /\ x \notin TxTaken /\ x \notin D
          /\ \A x \in D : x \in TxChains /\ x \notin FreeTx /\ x \notin TxTaken
          /\ \A x \in TxChains : x \in FreeTx \/ x \in TxTaken \/ x \in O \/ x \in D
          /\ FreeTx \subseteq TxChains /\ TxTaken \subseteq TxChains /\ FreeTx \cap TxTaken = {}
      BY <2>3, <2>4, <2>5, PlacesIs, InSeq
    <2>7. Accounts(<<FreeTx, O, TxTaken, D>>, TxChains)
      <3>1. FreeTx \cup O \cup TxTaken \cup D = TxChains
        BY <2>6
      <3>2. /\ FreeTx \cap O = {} /\ FreeTx \cap TxTaken = {} /\ FreeTx \cap D = {}
            /\ O \cap TxTaken = {} /\ O \cap D = {} /\ TxTaken \cap D = {}
        BY <2>6
      <3>. QED
        BY <3>1, <3>2, AccountsFour
    <2>8. Cardinality(FreeTx) = TxMaxPending - TxCurPending
      BY <2>1, FreeCount
    <2>. QED
      BY <2>7, <2>8 DEF O, D, TxTaken
  <1>2. Inv => TxChainsAccounted
    BY <1>1 DEF TxChainsAccounted
  <1>. QED
    BY <1>2, Invariant, PTL

\* Each receive chain is offered to the host, held by it or completed, and never at two of
\* these places: Receive() supplies again the chain that it has emptied, and no other.
THEOREM RxChainsAccountedTheorem == Spec => []RxChainsAccounted
  <1>1. ASSUME Inv, pc = "idle", State = "Initialized"
        PROVE  Accounts(<<Offered(RxRing, hostRx.idx, RxQueueSize), hostRx.chains,
                          Completed(RxRing, RxLastUsed, RxQueueSize)>>, RxChains)
    <2>. DEFINE O == Offered(RxRing, hostRx.idx, RxQueueSize)
                D == Completed(RxRing, RxLastUsed, RxQueueSize)
                H == hostRx.chains
    <2>1. RxOperating /\ RxTypes /\ RxQueues
      BY <1>1 DEF Inv, RxOperating, Operating, Types
    <2>2. RxEnd = RxRing.AvailIdx
      BY <1>1 DEF RxEnd
    <2>3. \A x : x \in O <=> In(RxSupplied, x)
      <3>1. RingQueue(RxRing.AvailRing, hostRx.idx, RxEnd, RxQueueSize, RxChains)
        BY <2>1, RxFacts
      <3>2. \A x : x \in Between(RxRing.AvailRing, hostRx.idx, RxEnd, RxQueueSize) <=> In(RxSupplied, x)
        BY <3>1, BetweenIs DEF RxSupplied
      <3>. QED
        BY <2>2, <3>2 DEF Offered
    <2>4. \A x : x \in D <=> In(RxDone, x)
      <3>1. RingQueue(RxRing.UsedElem, RxLastUsed, RxRing.UsedIdx, RxQueueSize, RxChains)
        BY <2>1, RxFacts
      <3>. QED
        BY <3>1, BetweenIs DEF Completed, RxDone
    <2>5. Places({}, RxSupplied, H, RxDone, RxChains)
      BY <2>1, RxFacts
    <2>. HIDE DEF O, D, H
    <2>6. /\ \A x \in O : x \in RxChains /\ x \notin H /\ x \notin D
          /\ \A x \in D : x \in RxChains /\ x \notin H
          /\ \A x \in RxChains : x \in H \/ x \in O \/ x \in D
          /\ H \subseteq RxChains
      BY <2>3, <2>4, <2>5, PlacesIs, InSeq
    <2>7. Accounts(<<O, H, D>>, RxChains)
      <3>1. O \cup H \cup D = RxChains
        BY <2>6
      <3>2. O \cap H = {} /\ O \cap D = {} /\ H \cap D = {}
        BY <2>6
      <3>. QED
        BY <3>1, <3>2, AccountsThree
    <2>. QED
      BY <2>7 DEF O, D, H
  <1>2. Inv => RxChainsAccounted
    BY <1>1 DEF RxChainsAccounted
  <1>. QED
    BY <1>2, Invariant, PTL

\* Receive() returns the packets in the order and with the contents that the host stored:
\* a chain that waits in the used ring is not with the host, which cannot overwrite it.
THEOREM PacketsIntactTheorem == Spec => []PacketsIntact
  <1>1. ASSUME Inv, State = "Initialized", dev = "driver_ok"
        PROVE  /\ Len(wire) = (RxRing.UsedIdx - RxLastUsed) % IdxMod
               /\ \A k \in 1 .. Len(wire) :
                     rxbuf[Used(RxRing, RxQueueSize, RxLastUsed + k - 1)] = wire[k]
    <2>1. RxOperating /\ RxTypes /\ RxQueues /\ RxPackets
      <3>1. Operating
        BY <1>1 DEF Inv, Control, Device, Operating, BindingSteps, RingSteps, InitTxSteps,
               InitRxSteps, UnwindSteps, CallSteps, ShutdownSteps
      <3>. QED
        BY <1>1, <3>1 DEF Inv, RxOperating, Types
    <2>2. Len(wire) = Len(RxDone) /\ Len(RxDone) \in Nat /\ Len(RxDone) = Count(RxLastUsed, RxRing.UsedIdx)
      BY <2>1, RxFacts DEF RxPackets
    <2>3. \A k \in 1 .. Len(wire) :
             rxbuf[Used(RxRing, RxQueueSize, RxLastUsed + k - 1)] = wire[k]
      <3>. TAKE k \in 1 .. Len(wire)
      <3>1. RxLastUsed + k - 1 = RxLastUsed + (k - 1)
        BY <2>1, <2>2 DEF RxTypes, Indices
      <3>2. RxDone[k] = RxRing.UsedElem[(RxLastUsed + (k - 1)) % RxQueueSize]
        BY <2>2, QueueAt DEF RxDone
      <3>3. rxbuf[RxDone[k]] = wire[k]
        BY <2>1 DEF RxPackets
      <3>. QED
        BY <3>1, <3>2, <3>3 DEF Used
    <2>. QED
      BY <2>2, <2>3 DEF Count
  <1>2. Inv => PacketsIntact
    BY <1>1 DEF PacketsIntact
  <1>. QED
    BY <1>2, Invariant, PTL

-----------------------------------------------------------------------------
(* What follows if no notification fails: after a failed one the caller    *)
(* takes for its own a buffer that is on the ring still.                   *)

\* Initially the caller has all buffers.
LEMMA OwnersInit == ASSUME Init PROVE Owners
  <1>1. /\ ~asserted /\ owned = Buffers /\ pc = "unbound" /\ TxBufCollection = <<>>
    BY DEF Init
  <1>2. DOMAIN TxBufCollection = {}
    BY <1>1
  <1>3. InCollection = {}
    BY <1>2 DEF InCollection
  <1>. QED
    BY <1>1, <1>2, <1>3 DEF Owners

\* Steps that neither insert nor remove a buffer.
LEMMA OwnersFrame ==
    ASSUME Owners, pc # "TxInsert", pc' # "TxInsert", ~asserted', UNCHANGED <<TxBufCollection, owned>>
    PROVE  Owners'
  <1>1. InCollection' = InCollection
    BY DEF InCollection
  <1>. QED
    BY <1>1 DEF Owners

\* Steps that leave the collection empty, and every buffer to the caller.
LEMMA OwnersEmpty ==
    ASSUME pc' # "TxInsert", ~asserted', TxBufCollection' = <<>>, owned' = Buffers
    PROVE  Owners'
  <1>1. DOMAIN TxBufCollection' = {}
    OBVIOUS
  <1>2. InCollection' = {}
    BY <1>1 DEF InCollection
  <1>. QED
    BY <1>1, <1>2 DEF Owners

\* Transmit() takes one buffer from the caller.
LEMMA TransmitOwners ==
    ASSUME OInv, NEW b \in Buffers, VirtioNetTransmit(b) PROVE Owners'
  <1>1. /\ pc = "idle" /\ pc' = "TxInsert" /\ b \in owned /\ owned' = owned \ {b} /\ cur'.buf = b
        /\ UNCHANGED <<TxBufCollection, asserted>>
    BY DEF VirtioNetTransmit
  <1>2. InCollection' = InCollection
    BY <1>1 DEF InCollection
  <1>. QED
    BY <1>1, <1>2 DEF OInv, Owners

\* A failing Transmit() gives the buffer back.
LEMMA TxInsertFailsOwners == ASSUME OInv, TxInsertFails PROVE Owners'
  <1>1. /\ pc = "TxInsert" /\ pc' = "idle" /\ owned' = owned \cup {cur.buf}
        /\ asserted' = (asserted \/ Duplicate) /\ UNCHANGED TxBufCollection
    BY DEF TxInsertFails
  <1>2. ~Duplicate
    <2>1. CASE Identity
      <3>1. cur.addr = cur.buf /\ \A a \in DOMAIN TxBufCollection : TxBufCollection[a] = a
        BY <1>1, <2>1 DEF OInv, Inv, Locals
      <3>2. cur.buf \notin InCollection
        BY <1>1 DEF OInv, Owners
      <3>. QED
        BY <3>1, <3>2 DEF Duplicate, InCollection
    <2>2. CASE ~Identity
      BY <1>1, <2>2 DEF OInv, Inv, Locals, Duplicate
    <2>. QED
      BY <2>1, <2>2
  <1>3. InCollection' = InCollection
    BY <1>1 DEF InCollection
  <1>4. cur.buf \in Buffers /\ cur.buf \notin InCollection
    BY <1>1 DEF OInv, Inv, Locals, Owners
  <1>. QED
    BY <1>1, <1>2, <1>3, <1>4 DEF OInv, Owners

\* The buffer goes into the collection, where it was not before.
LEMMA TransmitSupplyOwners == ASSUME OInv, TransmitSupply PROVE Owners'
  <1>1. /\ pc = "TxInsert" /\ pc' = "TxPublish" /\ cur.addr \notin DOMAIN TxBufCollection
        /\ UNCHANGED <<owned, asserted>>
        /\ TxBufCollection' = [a \in DOMAIN TxBufCollection \cup {cur.addr} |->
                                  IF a = cur.addr THEN cur.buf ELSE TxBufCollection[a]]
    BY DEF TransmitSupply, Duplicate
  <1>2. /\ DOMAIN TxBufCollection' = DOMAIN TxBufCollection \cup {cur.addr}
        /\ TxBufCollection'[cur.addr] = cur.buf
        /\ \A a \in DOMAIN TxBufCollection : TxBufCollection'[a] = TxBufCollection[a]
    BY <1>1
  <1>3. InCollection' = InCollection \cup {cur.buf}
    BY <1>2 DEF InCollection
  <1>4. cur.buf \notin InCollection
    BY <1>1 DEF OInv, Owners
  <1>5. \A a, b \in DOMAIN TxBufCollection' : TxBufCollection'[a] = TxBufCollection'[b] => a = b
    BY <1>2, <1>4 DEF InCollection, OInv, Owners
  <1>. QED
    BY <1>1, <1>3, <1>5 DEF OInv, Owners

\* GetStatus() gives one buffer of the collection back.
LEMMA GetStatusOwners == ASSUME OInv, VirtioNetGetStatus PROVE Owners'
  <1>. DEFINE chain == Used(TxRing, TxQueueSize, TxLastUsed)
              addr  == TxRing.Desc[chain]
  <1>1. pc = "idle" /\ State = "Initialized" /\ TxLastUsed # TxRing.UsedIdx /\ Inv
    BY DEF VirtioNetGetStatus, OInv
  <1>2. /\ chain \in TxChains /\ addr \in DOMAIN TxBufCollection
        /\ TxCurPending \in 1 .. TxMaxPending
    BY <1>1, ReapedFound
  <1>3. chain < 2 * TxMaxPending - 1
    BY <1>2, Chains
  <1>4. ~asserted'
    <2>1. asserted' = (asserted \/ TxCurPending \notin 1 .. TxMaxPending
                         \/ ~(chain < 2 * TxMaxPending - 1) \/ ~(addr \in DOMAIN TxBufCollection))
      BY Zenon DEF VirtioNetGetStatus
    <2>2. ~asserted
      BY DEF OInv, Owners
    <2>. QED
      BY <1>2, <1>3, <2>1, <2>2, Zenon
  <1>5. /\ TxBufCollection' = [a \in DOMAIN TxBufCollection \ {addr} |-> TxBufCollection[a]]
        /\ owned' = owned \cup {TxBufCollection[addr]} /\ UNCHANGED pc
    BY <1>2 DEF VirtioNetGetStatus
  <1>. HIDE DEF addr
  <1>6. \A a, b \in DOMAIN TxBufCollection : TxBufCollection[a] = TxBufCollection[b] => a = b
    BY DEF OInv, Owners
  <1>7. /\ DOMAIN TxBufCollection' = DOMAIN TxBufCollection \ {addr}
        /\ \A a \in DOMAIN TxBufCollection \ {addr} : TxBufCollection'[a] = TxBufCollection[a]
    BY <1>5
  <1>8. InCollection' = InCollection \ {TxBufCollection[addr]}
    BY <1>2, <1>6, <1>7 DEF InCollection
  <1>9. TxBufCollection[addr] \in Buffers /\ TxBufCollection[addr] \in InCollection
    BY <1>1, <1>2 DEF Inv, Types, TxTypes, InCollection
  <1>10. owned' = Buffers \ InCollection'
    BY <1>1, <1>5, <1>8, <1>9 DEF OInv, Owners
  <1>11. \A a, b \in DOMAIN TxBufCollection' : TxBufCollection'[a] = TxBufCollection'[b] => a = b
    BY <1>6, <1>7
  <1>. QED
    BY <1>1, <1>4, <1>5, <1>10, <1>11 DEF OInv, Owners

\* The rings are empty where their indices are asserted to be 0.
LEMMA LayoutAsserts ==
    ASSUME Inv, InitTxLayout \/ InitRxLayout PROVE asserted' = asserted
  <1>1. /\ pc = "TxSharedReqMap" => TxRing.UsedIdx = 0
        /\ pc = "RxBufMap" => RxRing.UsedIdx = 0
    BY DEF Inv, Device, Idle, Empty, Operating, RxOperating, InitTxSteps, InitRxSteps, CallSteps
  <1>2. asserted \in BOOLEAN
    BY DEF Inv, Types, StatusTypes
  <1>3. CASE InitTxLayout
    BY <1>1, <1>2, <1>3 DEF InitTxLayout, Acquire
  <1>4. CASE InitRxLayout
    BY <1>1, <1>2, <1>4 DEF InitRxLayout, Acquire
  <1>. QED
    BY <1>3, <1>4

\* Every step keeps each buffer with one owner.
LEMMA OwnersStep ==
    ASSUME NotifyMayFail = FALSE, OInv, [Next]_vars PROVE Owners'
  <1>0. Inv /\ Owners /\ ~asserted
    BY DEF OInv, Owners
  <1>. USE DEF binding, tx, rx, host
  <1>1. CASE Plain
    <2>1. UNCHANGED <<TxBufCollection, owned, asserted>>
      BY <1>1, PlainFrame
    <2>2. pc # "TxInsert" /\ pc' # "TxInsert"
      <3>1. pc' # "TxInsert"
        BY <1>0, <1>1, PlainNotOperating DEF CallSteps
      <3>2. pc # "TxInsert"
        BY <1>1 DEF Plain, BindingAcquire, AllocateDev, OpenVirtIo, CreateWaitForPacket,
               CreateExitBoot, AppendMacNode, InstallSnp, OpenByChild, VirtioNetGetFeatures,
               BindingRelease, VirtioNetSnpEvacuate, VirtioNetDriverBindingStopChild,
               VirtioNetDriverBindingStop, VirtioNetStart, VirtioNetStop, VirtioNetInitialize,
               NegotiateFeatures, DriverOk, InitTxUnwind, InitRxUnwind, Acquire, Release
      <3>. QED
        BY <3>1, <3>2
    <2>. QED
      BY <1>0, <2>1, <2>2, OwnersFrame
  <1>2. CASE TearDown
    <2>1. pc' # "TxInsert" /\ ~asserted'
      BY <1>0, <1>2, TearDownNotOperating, TearDownFrame DEF CallSteps
    <2>2. CASE VirtioNetShutdownTx
      BY <2>1, <2>2, OwnersEmpty DEF VirtioNetShutdownTx
    <2>3. CASE InitTxAcquire
      <3>1. pc # "TxInsert" /\ owned' = owned
        BY <2>3 DEF InitTxAcquire, Acquire
      <3>2. TxBufCollection' = TxBufCollection
        BY <1>0, <2>3 DEF InitTxAcquire, Acquire, Inv, Idle, Operating, CallSteps
      <3>. QED
        BY <1>0, <2>1, <3>1, <3>2, OwnersFrame
    <2>4. CASE ~VirtioNetShutdownTx /\ ~InitTxAcquire
      <3>1. pc # "TxInsert" /\ UNCHANGED <<TxBufCollection, owned>>
        BY <1>2, <2>4 DEF TearDown, VirtioNetExitBoot, InitRxRing, InitTxRing, VirtioNetInitRing,
               AbortDevice, VirtioNetShutdown, VirtioNetShutdownRx, VirtioNetUninitRing, Acquire,
               Release
      <3>. QED
        BY <1>0, <2>1, <3>1, OwnersFrame
    <2>. QED
      BY <2>2, <2>3, <2>4
  <1>3. CASE Working
    <2>1. CASE \E b \in Buffers : VirtioNetTransmit(b)
      BY <2>1, TransmitOwners
    <2>2. CASE TxInsertFails
      BY <2>2, TxInsertFailsOwners
    <2>3. CASE TransmitSupply
      BY <2>3, TransmitSupplyOwners
    <2>4. CASE VirtioNetGetStatus
      BY <2>4, GetStatusOwners
    <2>5. CASE InitTxLayout \/ InitRxLayout
      <3>1. ~asserted'
        BY <1>0, <2>5, LayoutAsserts
      <3>2. pc # "TxInsert" /\ pc' # "TxInsert" /\ UNCHANGED <<TxBufCollection, owned>>
        BY <2>5 DEF InitTxLayout, InitRxLayout, Acquire
      <3>. QED
        BY <1>0, <3>1, <3>2, OwnersFrame
    <2>6. CASE AllocateRxBuf \/ InitRxPublish \/ InitRxNotify \/ TransmitPublish \/ TransmitNotify
               \/ VirtioNetReceive \/ ReceivePublish \/ ReceiveNotify
      <3>1. pc # "TxInsert" /\ pc' # "TxInsert" /\ UNCHANGED <<TxBufCollection, owned, asserted>>
        BY <2>6 DEF AllocateRxBuf, InitRxPublish, InitRxNotify, TransmitPublish, TransmitNotify,
               VirtioNetReceive, ReceivePublish, ReceiveNotify, Acquire
      <3>. QED
        BY <1>0, <3>1, OwnersFrame
    <2>7. CASE \/ HostTakeTx \/ (\E chain \in TxChains : HostSend(chain)) \/ HostTakeRx
               \/ \E c \in hostRx.chains, packet \in Packets : HostStoreRx(c, packet)
      <3>1. UNCHANGED <<pc, cur, TxBufCollection, owned, asserted>>
        BY <2>7 DEF HostTakeTx, HostSend, HostCompleteTx, HostTakeRx, HostStoreRx
      <3>2. InCollection' = InCollection
        BY <3>1 DEF InCollection
      <3>. QED
        BY <1>0, <3>1, <3>2 DEF Owners
    <2>. QED
      BY <1>3, <2>1, <2>2, <2>3, <2>4, <2>5, <2>6, <2>7 DEF Working
  <1>4. CASE UNCHANGED vars
    <2>1. UNCHANGED <<pc, cur, TxBufCollection, owned, asserted>>
      BY <1>4 DEF vars
    <2>2. InCollection' = InCollection
      BY <2>1 DEF InCollection
    <2>. QED
      BY <1>0, <2>1, <2>2 DEF Owners
  <1>5. Next => Plain \/ TearDown \/ Working
    BY DEF Next, Binding, Initialize, Shutdown, Calls, TransmitSteps, ReceiveSteps, Host,
           Plain, TearDown, Working
  <1>. QED
    BY <1>1, <1>2, <1>3, <1>4, <1>5

\* If no notification fails, a buffer is either the caller's or in the collection, and the
\* invariant with this addition holds in every reachable state.
THEOREM OwnersInvariant ==
    ASSUME NotifyMayFail = FALSE PROVE Spec => []OInv
  <1>1. Init => OInv
    BY InvInit, OwnersInit DEF OInv
  <1>2. OInv /\ [Next]_vars => OInv'
    BY InvStep, OwnersStep DEF OInv
  <1>. QED
    BY <1>1, <1>2, PTL DEF Spec

\* If no notification fails, no ASSERT() of InitTx(), InitRx(), MapTxBuf() or GetStatus()
\* fails, whatever the order of the completions and wherever the indices wrap.
THEOREM AssertsHoldTheorem ==
    ASSUME NotifyMayFail = FALSE PROVE Spec => []AssertsHold
  <1>1. OInv => AssertsHold
    BY DEF OInv, Owners, AssertsHold
  <1>. QED
    BY <1>1, OwnersInvariant, PTL

\* If no notification fails, each buffer is with the caller or on the ring, one chain to a
\* buffer: GetStatus() returns each transmitted buffer once, and not before the host is
\* through with it.
THEOREM TxBuffersAccountedTheorem ==
    ASSUME NotifyMayFail = FALSE PROVE Spec => []TxBuffersAccounted
  <1>1. ASSUME OInv, pc = "idle", State = "Initialized"
        PROVE  LET pending == TxChains \ FreeTx
               IN  /\ DOMAIN TxBufCollection = {TxRing.Desc[c] : c \in pending}
                   /\ {TxBufCollection[a] : a \in DOMAIN TxBufCollection} = Buffers \ owned
                   /\ Cardinality(pending) = Cardinality(Buffers \ owned)
                   /\ \A c \in hostTx.chains : c.addr \in DOMAIN TxBufCollection
    <2>. DEFINE pending == TxChains \ FreeTx
                f == [c \in pending |-> TxBufCollection[TxRing.Desc[c]]]
    <2>1. TxBuffers /\ TxTypes /\ TxOperating
      BY <1>1 DEF OInv, Inv, TxOperating, Operating, Types
    <2>2. /\ DOMAIN TxBufCollection = {TxRing.Desc[c] : c \in pending}
          /\ \A c, d \in pending : TxRing.Desc[c] = TxRing.Desc[d] => c = d
      BY <2>1 DEF TxBuffers
    <2>3. InCollection \subseteq Buffers
      BY <2>1 DEF TxTypes, InCollection
    <2>4. Buffers \ owned = InCollection
      BY <1>1, <2>3 DEF OInv, Owners
    <2>5. \A a, b \in DOMAIN TxBufCollection : TxBufCollection[a] = TxBufCollection[b] => a = b
      BY <1>1 DEF OInv, Owners
    <2>6. f \in Bijection(pending, InCollection)
      <3>1. f \in [pending -> InCollection]
        BY <2>2 DEF InCollection
      <3>2. \A c, d \in pending : f[c] = f[d] => c = d
        BY <2>2, <2>5
      <3>3. \A b \in InCollection : \E c \in pending : f[c] = b
        BY <2>2 DEF InCollection
      <3>. HIDE DEF pending, f
      <3>. QED
        BY <3>1, <3>2, <3>3 DEF Bijection, Injection, Surjection, IsInjective
    <2>7. IsFiniteSet(pending)
      BY Chains, FS_Subset
    <2>8. Cardinality(pending) = Cardinality(InCollection)
      <3>1. ExistsBijection(pending, InCollection)
        BY <2>6 DEF ExistsBijection
      <3>. HIDE DEF pending
      <3>. QED
        BY <2>7, <3>1, FS_Bijection
    <2>9. \A c \in hostTx.chains : c.addr \in DOMAIN TxBufCollection
      BY <1>1, TakenCollected DEF OInv
    <2>. QED
      BY <2>2, <2>4, <2>8, <2>9 DEF InCollection
  <1>2. OInv => TxBuffersAccounted
    BY <1>1 DEF TxBuffersAccounted
  <1>. QED
    BY <1>2, OwnersInvariant, PTL

=============================================================================
