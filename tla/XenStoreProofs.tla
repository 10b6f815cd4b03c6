--------------------------- MODULE XenStoreProofs ---------------------------
(***************************************************************************)
(* The XenStore client and the service, for every size of the rings, every *)
(* set of watches and every number of events: an inductive invariant of    *)
(* XenStore and the theorems that follow from it.                          *)
(***************************************************************************)
EXTENDS XenStore, FiniteSetTheorems, SequenceTheorems, WellFoundedInduction, TLAPS

-----------------------------------------------------------------------------
(* The inductive invariant, by subject.                                    *)

Msgs ==
    [type : {None, "XS_READ", "XS_WATCH", "XS_UNWATCH", "XS_WATCH_EVENT", "XS_ERROR", "XS_INVALID"},
     watch : Watches \cup {None}, id : {0, 1}, len : 0 .. 2]
Unit == Msgs \X (0 .. 4)
Ring == [data : [0 .. RING_SIZE - 1 -> Unit], prod : 0 .. IdxMod - 1, cons : 0 .. IdxMod - 1]
Service == [in : Seq(Unit), out : Seq(Unit), watches : SUBSET Watches, awake : BOOLEAN,
            reconnects : BOOLEAN, broken : BOOLEAN]

Types ==
    /\ TypeOK
    /\ call \in Msgs /\ Data \in Seq(Seq(Unit)) /\ Message \in Seq(Unit) /\ ReplyList \in Seq(Msgs)
    /\ req \in Ring /\ rsp \in Ring /\ server \in Service

Up     == pc \in {"idle", "write", "reply", "waitwatch"}
Asking == pc \in {"write", "reply"}

\* What the service has received of the request, and what the client will receive.
Asked  == server.in \o InRing(req)
Stream == Message \o (InRing(rsp) \o server.out)

\* Replies and events have a body of one unit; s is the units of the messages ms.
MsgLen == HeaderLen + 1
Framed(s, ms) ==
    /\ Len(s) = MsgLen * Len(ms)
    /\ \A j \in 1 .. Len(ms), k \in 1 .. MsgLen : s[MsgLen * (j - 1) + k] = <<ms[j], k>>
Carried(s) == [j \in 1 .. Len(s) \div MsgLen |-> s[MsgLen * j][1]]
InFlight   == Carried(Stream)

IsEvent(m) == m.type = "XS_WATCH_EVENT"
Leaving(w) == call.type = "XS_UNWATCH" /\ call.watch = w

\* Where the call, the lists and the state of the service belong together.
Control ==
    /\ connection => pc \in {"reconnect", "wait"}
    /\ pc = "waitwatch" => Token \in RegisteredWatches
    /\ server.reconnects => ~server.broken /\ pc \notin {"erase", "erase2", "erase3"}
    /\ ~Up => RegisteredWatches = {}
    /\ live = IF call.type = "XS_UNWATCH" THEN RegisteredWatches \cup {call.watch}
                                          ELSE RegisteredWatches
    /\ call.type = "XS_UNWATCH" => call.watch \notin RegisteredWatches
    /\ call.type = "XS_WATCH" => call.watch \in RegisteredWatches
    /\ server.watches \subseteq live

\* Neither ring is overrun but while its indices are being cleared, and nothing is on its
\* way when the client is down or the service has given up.
Indices ==
    /\ pc # "erase" => Filled(req) <= RING_SIZE
    /\ pc = "erase" => req.prod = 0 /\ \A i \in 0 .. RING_SIZE - 1 : req.data[i] = Garbage
    /\ Up => Filled(rsp) <= RING_SIZE
    /\ ~Up /\ ~server.broken => server.in = <<>>
    /\ ~Up \/ server.broken =>
          /\ server.watches = {} /\ server.out = <<>> /\ Message = <<>> /\ WatchEvents = <<>>
          /\ pc \notin {"down", "erase3"} => Filled(rsp) = 0

\* The parts of m that XenStoreWriteStore() has left after p units.
PartEnd(p) == IF p < HeaderLen THEN HeaderLen ELSE p + 1
Singles(m, p) == [k \in 1 .. HeaderLen + m.len - p |-> <<Units(m)[p + k]>>]
DataLeft(m, p) ==
    IF p = HeaderLen + m.len THEN <<>>
    ELSE <<SubSeq(Units(m), p + 1, PartEnd(p))>> \o Singles(m, PartEnd(p))

Request ==
    \/ call.type = "XS_READ" /\ call.len = 1
    \/ call.type \in {"XS_WATCH", "XS_UNWATCH"} /\ call.watch \in Watches /\ call.len = 2

\* No answer yet: the service has the units that the client has written.
Unanswered ==
    /\ ReplyList = <<>>
    /\ \A j \in DOMAIN InFlight : IsEvent(InFlight[j])
    /\ call.type = "XS_WATCH" => call.watch \notin server.watches
    /\ pc = "write" <=> Data # <<>>
    /\ \E p \in 0 .. HeaderLen + call.len :
          Data = DataLeft(call, p) /\ (~server.broken => Asked = SubSeq(Units(call), 1, p))

Outcome(r) ==
    /\ r \in {Msg(call.type, call.watch, call.id, 1), Msg("XS_ERROR", call.watch, call.id, 1)}
    /\ call.type = "XS_UNWATCH" \/ (call.type = "XS_WATCH" /\ r.type = "XS_ERROR") =>
          call.watch \notin server.watches

\* The one answer is on the list, or in flight among events.
Answered ==
    /\ pc = "reply" /\ Data = <<>> /\ ~server.broken /\ Asked = <<>>
    /\ \/ /\ \E r \in Msgs : ReplyList = <<r>> /\ Outcome(r)
          /\ \A j \in DOMAIN InFlight : IsEvent(InFlight[j])
       \/ /\ ReplyList = <<>>
          /\ \E j \in DOMAIN InFlight :
                /\ Outcome(InFlight[j])
                /\ \A i \in DOMAIN InFlight \ {j} : IsEvent(InFlight[i])

Calling ==
    /\ Asking => Request /\ (Unanswered \/ Answered)
    /\ ~Asking => /\ call.type = None /\ Data = <<>> /\ ReplyList = <<>>
                  /\ pc # "erase" /\ ~server.broken => Asked = <<>>
                  /\ Up => \A j \in DOMAIN InFlight : IsEvent(InFlight[j])

\* The response stream is made of whole messages; the events are those of the watches the
\* service has, and those of a watch that goes come before the reply that says so.
Streaming ==
    Up => /\ Framed(Stream, InFlight) /\ Len(Message) <= HeaderLen
          /\ \A j \in DOMAIN InFlight : IsEvent(InFlight[j]) =>
                /\ InFlight[j] = EventFor(InFlight[j].watch)
                /\ \/ InFlight[j].watch \in server.watches
                   \/ /\ Leaving(InFlight[j].watch)
                      /\ \E i \in DOMAIN InFlight : i > j /\ ~IsEvent(InFlight[i])

\* How often x is in s; the last units of the events of w.
Places(x, s) == {i \in DOMAIN s : s[i] = x}
Count(x, s)  == Cardinality(Places(x, s))
Ends(w, s)   == Count(<<EventFor(w), MsgLen>>, s)

\* An event is of a watch the service has, or has just given up, and is counted.
Accounting ==
    /\ \A i \in DOMAIN WatchEvents :
          WatchEvents[i] \in server.watches \/ Leaving(WatchEvents[i])
    /\ \A w \in Watches : undelivered[w] # 0 => w \in server.watches \/ Leaving(w)
    /\ \A w \in RegisteredWatches :
          undelivered[w] = Ends(w, Stream) + Count(w, WatchEvents)

IInv == Types /\ Control /\ Indices /\ Calling /\ Streaming /\ Accounting /\ matched

-----------------------------------------------------------------------------
(* Induction up to a bound, over a set and for recursive functions.        *)

\* A nonempty set of naturals has a least member.
LEMMA LeastNat ==
    ASSUME NEW S, S \subseteq Nat, S # {}
    PROVE  \E x \in S : \A y \in S : x <= y
  <1>1. \E x \in S : \A y \in S : ~ (<<y, x>> \in OpToRel(<, Nat))
    BY WFMin, NatLessThanWellFounded, Zenon
  <1>2. \A x, y \in Nat : (<<y, x>> \in OpToRel(<, Nat)) <=> y < x
    BY DEF OpToRel
  <1>3. \E x \in S : \A y \in S : ~ (y < x)
    BY <1>1, <1>2, Zenon
  <1>. QED
    BY <1>3

\* A set that is closed under the successor contains everything up to the bound.
LEMMA UpTo ==
    ASSUME NEW n \in Nat, NEW S, 0 \in S, \A k \in 1 .. n : k - 1 \in S => k \in S
    PROVE  \A k \in 0 .. n : k \in S
  <1>. DEFINE missing == {k \in 0 .. n : k \notin S}
  <1>1. SUFFICES ASSUME missing # {} PROVE FALSE
    OBVIOUS
  <1>2. PICK x \in missing : \A y \in missing : x <= y
    <2>1. missing \subseteq Nat
      OBVIOUS
    <2>. HIDE DEF missing
    <2>. QED
      BY <1>1, <2>1, LeastNat
  <1>3. x \in 1 .. n /\ x - 1 \in 0 .. n /\ x \notin S
    BY <1>2
  <1>4. x - 1 \in S
    BY <1>2, <1>3
  <1>. QED
    BY <1>3, <1>4

\* A function whose values are computed from the one before exists.
Recursive(G, g0, n, step) == g0 \in G /\ n \in Nat /\ step \in [1 .. n -> [G -> G]]
Computed(G, g0, n, step) ==
    \E f \in [0 .. n -> G] : f[0] = g0 /\ \A k \in 1 .. n : f[k] = step[k][f[k - 1]]

\* Functions on 0 .. n that are defined by recursion exist, for every bound n.
LEMMA Recursion ==
    ASSUME NEW G, NEW g0, NEW n, NEW step, Recursive(G, g0, n, step)
    PROVE  Computed(G, g0, n, step)
  <1>. USE DEF Recursive, Computed
  <1>. DEFINE Good(f, m) == f \in [0 .. m -> G] /\ f[0] = g0
                            /\ \A k \in 1 .. m : f[k] = step[k][f[k - 1]]
              S == {m \in 0 .. n : \E f : Good(f, m)}
  <1>1. 0 \in S
    <2>1. Good([k \in 0 .. 0 |-> g0], 0)
      OBVIOUS
    <2>. HIDE DEF Good
    <2>. QED
      BY <2>1
  <1>2. ASSUME NEW m \in 1 .. n, m - 1 \in S PROVE m \in S
    <2>1. PICK f : Good(f, m - 1)
      BY <1>2
    <2>. DEFINE h == [k \in 0 .. m |-> IF k = m THEN step[m][f[m - 1]] ELSE f[k]]
    <2>2. m - 1 \in 0 .. m - 1 /\ f[m - 1] \in G
      BY <2>1
    <2>3. step[m][f[m - 1]] \in G
      BY <2>2
    <2>4. /\ h \in [0 .. m -> G] /\ h[0] = g0 /\ h[m] = step[m][f[m - 1]]
          /\ \A k \in 0 .. m - 1 : h[k] = f[k]
      BY <2>1, <2>3
    <2>. HIDE DEF h
    <2>5. ASSUME NEW k \in 1 .. m PROVE h[k] = step[k][h[k - 1]]
      <3>1. CASE k = m
        BY <2>4, <3>1
      <3>2. CASE k # m
        <4>1. k \in 1 .. m - 1 /\ k \in 0 .. m - 1 /\ k - 1 \in 0 .. m - 1
          BY <3>2
        <4>. QED
          BY <2>1, <2>4, <4>1
      <3>. QED
        BY <3>1, <3>2
    <2>6. Good(h, m)
      BY <2>4, <2>5
    <2>. HIDE DEF Good
    <2>. QED
      BY <2>6
  <1>3. n \in S
    <2>. HIDE DEF S
    <2>1. \A k \in 0 .. n : k \in S
      BY <1>1, <1>2, UpTo
    <2>. QED
      BY <2>1
  <1>. QED
    BY <1>3

-----------------------------------------------------------------------------
(* Counting in sequences.                                                  *)

\* A sequence holds a value finitely often, and never iff nowhere.
LEMMA CountIs ==
    ASSUME NEW S, NEW s \in Seq(S), NEW x
    PROVE  /\ IsFiniteSet(Places(x, s)) /\ Count(x, s) \in Nat
           /\ Count(x, s) = 0 <=> \A i \in DOMAIN s : s[i] # x
  <1>1. IsFiniteSet(1 .. Len(s))
    BY FS_Interval
  <1>2. Places(x, s) \in SUBSET (1 .. Len(s))
    BY DEF Places
  <1>3. IsFiniteSet(Places(x, s))
    BY <1>1, <1>2, FS_Subset
  <1>4. Count(x, s) \in Nat
    BY <1>3, FS_CardinalityType DEF Count
  <1>5. Count(x, s) = 0 <=> Places(x, s) = {}
    BY <1>3, FS_EmptySet DEF Count
  <1>. QED
    BY <1>3, <1>4, <1>5 DEF Places

\* The occurrences in a concatenation are those in its parts.
LEMMA CountConcat ==
    ASSUME NEW S, NEW s \in Seq(S), NEW t \in Seq(S), NEW x
    PROVE  Count(x, s \o t) = Count(x, s) + Count(x, t)
  <1>. DEFINE n == Len(s)
              A == Places(x, s)
              B == Places(x, t)
              C == {i \in n + 1 .. n + Len(t) : t[i - n] = x}
              f == [i \in B |-> i + n]
  <1>1. /\ n \in Nat /\ Len(t) \in Nat /\ DOMAIN s = 1 .. n /\ DOMAIN t = 1 .. Len(t)
        /\ DOMAIN (s \o t) = 1 .. n + Len(t)
        /\ \A i \in 1 .. n + Len(t) : (s \o t)[i] = IF i <= n THEN s[i] ELSE t[i - n]
    BY ConcatProperties, LenProperties
  <1>2. Places(x, s \o t) = A \cup C /\ A \cap C = {}
    BY <1>1 DEF Places
  <1>3. B \subseteq 1 .. Len(t)
    BY <1>1 DEF Places
  <1>4. f \in Bijection(B, C)
    <2>1. f \in [B -> C]
      BY <1>1, <1>3 DEF Places
    <2>2. \A i, j \in B : f[i] = f[j] => i = j
      BY <1>1, <1>3
    <2>3. \A i \in C : \E j \in B : f[j] = i
      <3>. SUFFICES ASSUME NEW i \in C PROVE \E j \in B : f[j] = i
        OBVIOUS
      <3>1. i - n \in B
        BY <1>1 DEF Places
      <3>2. f[i - n] = i
        BY <1>1, <3>1
      <3>. QED
        BY <3>1, <3>2
    <2>. HIDE DEF f
    <2>. QED
      BY <2>1, <2>2, <2>3 DEF Bijection, Injection, Surjection, IsInjective
  <1>5. IsFiniteSet(A) /\ IsFiniteSet(B)
    BY CountIs
  <1>6. ExistsBijection(B, C)
    BY <1>4 DEF ExistsBijection
  <1>7. IsFiniteSet(C) /\ Cardinality(C) = Cardinality(B)
    BY <1>5, <1>6, FS_Bijection
  <1>8. Cardinality(A \cup C) = Cardinality(A) + Cardinality(C) - Cardinality({})
    BY <1>2, <1>5, <1>7, FS_Union
  <1>9. Cardinality({}) = 0
    BY FS_EmptySet
  <1>10. Cardinality(A) \in Nat /\ Cardinality(B) \in Nat
    BY <1>5, FS_CardinalityType
  <1>. QED
    BY <1>2, <1>7, <1>8, <1>9, <1>10 DEF Count

\* One value occurs once in itself.
LEMMA CountSingle ==
    ASSUME NEW x, NEW y
    PROVE  Count(x, <<y>>) = IF x = y THEN 1 ELSE 0
  <1>1. x = y => Places(x, <<y>>) = {1}
    BY DEF Places
  <1>2. x # y => Places(x, <<y>>) = {}
    BY DEF Places
  <1>. QED
    BY <1>1, <1>2, FS_Singleton, FS_EmptySet DEF Count

-----------------------------------------------------------------------------
(* Arithmetic of the free-running ring indices.                            *)

\* Numbers that differ by a multiple of m leave the same remainder.
LEMMA ModCongruent ==
    ASSUME NEW m \in Nat \ {0}, NEW a \in Int, NEW b \in Int, NEW q \in Int, a = b + m * q
    PROVE  a % m = b % m
  <1>. DEFINE r == b % m
              p == b \div m
  <1>1. r \in 0 .. m - 1 /\ p \in Int /\ b = m * p + r
    OBVIOUS
  <1>. HIDE DEF r, p
  <1>2. a = m * (p + q) + r
    BY <1>1
  <1>3. ASSUME NEW z \in Int PROVE (m * z + r) % m = r
    BY <1>1
  <1>4. p + q \in Int
    BY <1>1
  <1>5. (m * (p + q) + r) % m = r
    BY <1>3, <1>4
  <1>. QED
    BY <1>2, <1>5 DEF r

\* A number less than the divisor, or negative and more than it, leaves itself.
LEMMA ModSmall ==
    ASSUME NEW m \in Nat \ {0}, NEW x \in 0 .. m - 1
    PROVE  x % m = x /\ (x - m) % m = x
  OBVIOUS

\* The remainder with its multiple.
LEMMA ModIs ==
    ASSUME NEW m \in Nat \ {0}, NEW x \in Int
    PROVE  x % m \in 0 .. m - 1 /\ \E q \in Int : x = m * q + (x % m)
  <1>1. x % m \in 0 .. m - 1 /\ x \div m \in Int /\ x = m * (x \div m) + (x % m)
    OBVIOUS
  <1>. QED
    BY <1>1

\* RING_SIZE divides IdxMod: a wrapped index finds the same slot.
LEMMA SlotWraps ==
    ASSUME NEW x \in Int, NEW y \in Int
    PROVE  ((x % IdxMod) + y) % RING_SIZE = (x + y) % RING_SIZE
  <1>1. RING_SIZE \in Nat \ {0} /\ IdxMod \in Nat \ {0} /\ IdxMod % RING_SIZE = 0
    BY XenStoreAssumption
  <1>2. PICK d \in Int : IdxMod = RING_SIZE * d
    <2>1. PICK d \in Int : IdxMod = RING_SIZE * d + (IdxMod % RING_SIZE)
      <3>1. IdxMod \in Int
        BY <1>1
      <3>. QED
        BY <1>1, <3>1, ModIs, Zenon
    <2>. QED
      BY <1>1, <2>1
  <1>3. PICK q \in Int : x = IdxMod * q + (x % IdxMod) /\ x % IdxMod \in 0 .. IdxMod - 1
    BY <1>1, ModIs, Zenon
  <1>. DEFINE r == x % IdxMod
  <1>4. r \in Int /\ x = r + IdxMod * q
    BY <1>1, <1>3
  <1>. HIDE DEF r
  <1>5. IdxMod * q = RING_SIZE * (d * q)
    BY <1>1, <1>2
  <1>6. x + y = (r + y) + RING_SIZE * (d * q)
    BY <1>1, <1>4, <1>5
  <1>7. d * q \in Int /\ r + y \in Int /\ x + y \in Int
    BY <1>4
  <1>8. (x + y) % RING_SIZE = (r + y) % RING_SIZE
    <2>. DEFINE a == x + y
                b == r + y
                e == d * q
    <2>1. RING_SIZE \in Nat \ {0} /\ a \in Int /\ b \in Int /\ e \in Int /\ a = b + RING_SIZE * e
      BY <1>1, <1>6, <1>7
    <2>. HIDE DEF a, b, e
    <2>2. a % RING_SIZE = b % RING_SIZE
      BY <2>1, ModCongruent
    <2>. QED
      BY <2>2 DEF a, b
  <1>. QED
    BY <1>8 DEF r

\* What a ring holds, and where it ends.
LEMMA FilledIs ==
    ASSUME NEW ring \in Ring
    PROVE  /\ Filled(ring) \in 0 .. IdxMod - 1
           /\ Filled(ring) = 0 <=> ring.prod = ring.cons
           /\ \A y \in Int :
                 (ring.cons + Filled(ring) + y) % RING_SIZE = (ring.prod + y) % RING_SIZE
  <1>1. /\ RING_SIZE \in Nat \ {0} /\ IdxMod \in Nat \ {0}
        /\ ring.prod \in 0 .. IdxMod - 1 /\ ring.cons \in 0 .. IdxMod - 1
    BY XenStoreAssumption DEF Ring
  <1>2. ring.prod - ring.cons \in Int
    BY <1>1
  <1>3. Filled(ring) \in 0 .. IdxMod - 1
    BY <1>1, <1>2, ModIs, Zenon DEF Filled
  <1>4. Filled(ring) = 0 <=> ring.prod = ring.cons
    <2>1. ring.prod = ring.cons => Filled(ring) = 0
      BY <1>1, ModSmall DEF Filled
    <2>2. ring.prod > ring.cons => Filled(ring) # 0
      <3>1. ring.prod > ring.cons => ring.prod - ring.cons \in 0 .. IdxMod - 1
        BY <1>1
      <3>. QED
        BY <1>1, <3>1, ModSmall DEF Filled
    <2>3. ring.prod < ring.cons => Filled(ring) # 0
      <3>. DEFINE x == ring.prod - ring.cons + IdxMod
      <3>1. ring.prod < ring.cons => x \in 0 .. IdxMod - 1 /\ x # 0
        BY <1>1
      <3>2. ring.prod - ring.cons = x - IdxMod
        BY <1>1
      <3>. HIDE DEF x
      <3>. QED
        BY <1>1, <3>1, <3>2, ModSmall DEF Filled
    <2>. QED
      BY <1>1, <2>1, <2>2, <2>3
  <1>5. ASSUME NEW y \in Int
        PROVE  (ring.cons + Filled(ring) + y) % RING_SIZE = (ring.prod + y) % RING_SIZE
    <2>. DEFINE z == ring.prod - ring.cons
    <2>1. z \in Int /\ ring.cons + y \in Int
      BY <1>1
    <2>. HIDE DEF z
    <2>2. ((z % IdxMod) + (ring.cons + y)) % RING_SIZE = (z + (ring.cons + y)) % RING_SIZE
      BY <2>1, SlotWraps
    <2>3. z % IdxMod = Filled(ring)
      BY DEF z, Filled
    <2>4. z + (ring.cons + y) = ring.prod + y
      BY <1>1 DEF z
    <2>5. Filled(ring) + (ring.cons + y) = ring.cons + Filled(ring) + y
      BY <1>1, <1>3
    <2>. QED
      BY <2>2, <2>3, <2>4, <2>5
  <1>. QED
    BY <1>3, <1>4, <1>5

\* Sums and differences of numbers with the same remainder.
LEMMA ModSame ==
    ASSUME NEW m \in Nat \ {0}, NEW a \in Int, NEW b \in Int, NEW c \in Int, b % m = c % m
    PROVE  (a - b) % m = (a - c) % m /\ (b - a) % m = (c - a) % m /\ (b + a) % m = (c + a) % m
  <1>. DEFINE r == b % m
  <1>1. r \in Int
    OBVIOUS
  <1>2. PICK p \in Int : b = m * p + r
    BY ModIs, Zenon
  <1>3. PICK q \in Int : c = m * q + r
    BY ModIs, Zenon
  <1>. HIDE DEF r
  <1>4. b - c = m * (p - q) /\ c - b = m * (q - p)
    BY <1>1, <1>2, <1>3
  <1>. DEFINE d == p - q
              e == q - p
  <1>5. d \in Int /\ e \in Int /\ b - c = m * d /\ c - b = m * e
    BY <1>4
  <1>. HIDE DEF d, e
  <1>6. (a - b) % m = (a - c) % m
    <2>. DEFINE x == a - b
                y == a - c
    <2>1. e \in Int /\ x \in Int /\ y \in Int /\ x = y + m * e
      BY <1>5
    <2>. HIDE DEF x, y
    <2>2. x % m = y % m
      BY <2>1, ModCongruent
    <2>. QED
      BY <2>2 DEF x, y
  <1>7. (b - a) % m = (c - a) % m
    <2>. DEFINE x == b - a
                y == c - a
    <2>1. d \in Int /\ x \in Int /\ y \in Int /\ x = y + m * d
      BY <1>5
    <2>. HIDE DEF x, y
    <2>2. x % m = y % m
      BY <2>1, ModCongruent
    <2>. QED
      BY <2>2 DEF x, y
  <1>8. (b + a) % m = (c + a) % m
    <2>. DEFINE x == b + a
                y == c + a
    <2>1. d \in Int /\ x \in Int /\ y \in Int /\ x = y + m * d
      BY <1>5
    <2>. HIDE DEF x, y
    <2>2. x % m = y % m
      BY <2>1, ModCongruent
    <2>. QED
      BY <2>2 DEF x, y
  <1>. QED
    BY <1>6, <1>7, <1>8

\* The slot of an index, and an index that wraps at the end of UINT32.
Slot(x)    == x % RING_SIZE
Wrapped(x) == x % IdxMod

\* A slot is a place of the ring; what is less than a ring away from its start is found.
LEMMA SlotIs ==
    ASSUME NEW x \in Int
    PROVE  /\ Slot(x) \in 0 .. RING_SIZE - 1 /\ Slot(Slot(x)) = Slot(x)
           /\ x \in 0 .. RING_SIZE - 1 => Slot(x) = x
           /\ x \in -RING_SIZE .. -1 => Slot(x) = x + RING_SIZE
  <1>1. RING_SIZE \in Nat \ {0}
    BY XenStoreAssumption
  <1>2. PICK b \in 0 .. RING_SIZE - 1 : b = x % RING_SIZE
    BY <1>1, ModIs, Zenon
  <1>3. b \in Int /\ b % RING_SIZE = b
    BY <1>1, <1>2, ModSmall
  <1>4. x \in 0 .. RING_SIZE - 1 => x % RING_SIZE = x
    BY <1>1, ModSmall
  <1>5. x \in -RING_SIZE .. -1 => x % RING_SIZE = x + RING_SIZE
    <2>. DEFINE z == x + RING_SIZE
    <2>1. x \in -RING_SIZE .. -1 => z \in 0 .. RING_SIZE - 1
      BY <1>1
    <2>2. x = z - RING_SIZE
      BY <1>1
    <2>. HIDE DEF z
    <2>3. x \in -RING_SIZE .. -1 => x % RING_SIZE = z
      BY <1>1, <2>1, <2>2, ModSmall
    <2>. QED
      BY <2>3 DEF z
  <1>. QED
    BY <1>2, <1>3, <1>4, <1>5 DEF Slot

\* Slots of sums and differences.
LEMMA SlotSame ==
    ASSUME NEW a \in Int, NEW b \in Int, NEW c \in Int, Slot(b) = Slot(c)
    PROVE  Slot(a - b) = Slot(a - c) /\ Slot(b - a) = Slot(c - a) /\ Slot(b + a) = Slot(c + a)
  <1>1. RING_SIZE \in Nat \ {0}
    BY XenStoreAssumption
  <1>. QED
    BY <1>1, ModSame, Zenon DEF Slot

\* A wrapped index is a UINT32, and wrapping it again changes nothing.
LEMMA WrappedIs ==
    ASSUME NEW x \in Int
    PROVE  /\ Wrapped(x) \in 0 .. IdxMod - 1 /\ Wrapped(Wrapped(x)) = Wrapped(x)
           /\ x \in 0 .. IdxMod - 1 => Wrapped(x) = x
  <1>1. IdxMod \in Nat \ {0}
    BY XenStoreAssumption
  <1>2. PICK b \in 0 .. IdxMod - 1 : b = x % IdxMod
    BY <1>1, ModIs, Zenon
  <1>3. b \in Int /\ b % IdxMod = b
    BY <1>1, <1>2, ModSmall
  <1>4. x \in 0 .. IdxMod - 1 => x % IdxMod = x
    BY <1>1, ModSmall
  <1>. QED
    BY <1>2, <1>3, <1>4 DEF Wrapped

\* Arithmetic on free-running indices may wrap early or late.
LEMMA WrappedSame ==
    ASSUME NEW a \in Int, NEW b \in Int, NEW c \in Int, Wrapped(b) = Wrapped(c)
    PROVE  Wrapped(a - b) = Wrapped(a - c) /\ Wrapped(b - a) = Wrapped(c - a)
           /\ Wrapped(b + a) = Wrapped(c + a)
  <1>1. IdxMod \in Nat \ {0}
    BY XenStoreAssumption
  <1>. QED
    BY <1>1, ModSame, Zenon DEF Wrapped

\* What is read off a ring.
LEMMA PeekIs ==
    ASSUME NEW ring \in Ring, NEW n \in Nat
    PROVE  /\ Peek(ring, n) \in Seq(Unit) /\ Len(Peek(ring, n)) = n
           /\ \A k \in 1 .. n : Peek(ring, n)[k] = ring.data[Slot(ring.cons + k - 1)]
  <1>1. ASSUME NEW k \in 1 .. n PROVE ring.data[Slot(ring.cons + k - 1)] \in Unit
    <2>1. ring.cons + k - 1 \in Int
      BY XenStoreAssumption DEF Ring
    <2>2. Slot(ring.cons + k - 1) \in 0 .. RING_SIZE - 1
      BY <2>1, SlotIs
    <2>. QED
      BY <2>2 DEF Ring
  <1>2. Peek(ring, n) \in [1 .. n -> Unit]
    BY <1>1 DEF Peek, Slot
  <1>. QED
    BY <1>2 DEF Peek, Slot

\* All that is on a ring.
LEMMA InRingIs ==
    ASSUME NEW ring \in Ring
    PROVE  /\ Filled(ring) \in Nat /\ InRing(ring) \in Seq(Unit)
           /\ Filled(ring) <= RING_SIZE => InRing(ring) = Peek(ring, Filled(ring))
                                           /\ Len(InRing(ring)) = Filled(ring)
           /\ Filled(ring) = 0 <=> InRing(ring) = <<>>
  <1>1. RING_SIZE \in Nat \ {0} /\ Filled(ring) \in Nat
    BY XenStoreAssumption, FilledIs
  <1>. DEFINE n == Smaller(Filled(ring), RING_SIZE)
  <1>2. n \in Nat /\ (Filled(ring) <= RING_SIZE => n = Filled(ring)) /\ (Filled(ring) = 0 <=> n = 0)
    BY <1>1 DEF Smaller
  <1>3. InRing(ring) = Peek(ring, n)
    BY DEF InRing
  <1>. HIDE DEF n
  <1>4. Peek(ring, n) \in Seq(Unit) /\ Len(Peek(ring, n)) = n
    BY <1>2, PeekIs
  <1>5. n = 0 <=> Peek(ring, n) = <<>>
    BY <1>2, <1>4, EmptySeq
  <1>. QED
    BY <1>1, <1>2, <1>3, <1>4, <1>5

\* Moving an index on changes what the ring holds by as much.
LEMMA IndexMoves ==
    ASSUME NEW ring \in Ring, NEW n \in Nat
    PROVE  /\ Filled(ring) = Wrapped(ring.prod - ring.cons)
           /\ Wrapped(ring.prod + n) \in 0 .. IdxMod - 1
           /\ Wrapped(ring.cons + n) \in 0 .. IdxMod - 1
           /\ Filled(ring) + n < IdxMod => Wrapped(Wrapped(ring.prod + n) - ring.cons) = Filled(ring) + n
           /\ n <= Filled(ring) => Wrapped(ring.prod - Wrapped(ring.cons + n)) = Filled(ring) - n
  <1>. DEFINE prod == ring.prod
              cons == ring.cons
              F    == Filled(ring)
              d    == prod - cons
  <1>1. IdxMod \in Nat \ {0} /\ prod \in Int /\ cons \in Int /\ F \in 0 .. IdxMod - 1 /\ d \in Int
    BY XenStoreAssumption, FilledIs DEF Ring
  <1>2. F = Wrapped(d)
    BY DEF Filled, Wrapped
  <1>3. F \in Int /\ n \in Int /\ Wrapped(F) = Wrapped(d)
    BY <1>1, <1>2, WrappedIs
  <1>. DEFINE p == prod + n
              c == cons + n
  <1>4. p \in Int /\ c \in Int /\ p - cons = d + n /\ prod - c = d - n
    BY <1>1
  <1>. HIDE DEF prod, cons, F, d, p, c
  <1>5. Wrapped(F + n) = Wrapped(d + n) /\ Wrapped(F - n) = Wrapped(d - n)
    BY <1>1, <1>3, WrappedSame, Zenon
  <1>6. /\ Wrapped(p) \in 0 .. IdxMod - 1 /\ Wrapped(c) \in 0 .. IdxMod - 1
        /\ Wrapped(Wrapped(p)) = Wrapped(p) /\ Wrapped(Wrapped(c)) = Wrapped(c)
    BY <1>4, WrappedIs, Zenon
  <1>7. Wrapped(p) \in Int /\ Wrapped(c) \in Int
    BY <1>6
  <1>8. Wrapped(Wrapped(p) - cons) = Wrapped(p - cons) /\ Wrapped(prod - Wrapped(c)) = Wrapped(prod - c)
    <2>1. Wrapped(Wrapped(p) - cons) = Wrapped(p - cons)
      <3>1. cons \in Int /\ p \in Int /\ Wrapped(p) \in Int /\ Wrapped(Wrapped(p)) = Wrapped(p)
        BY <1>1, <1>4, <1>6, <1>7
      <3>. QED
        BY <3>1, WrappedSame, Zenon
    <2>2. Wrapped(prod - Wrapped(c)) = Wrapped(prod - c)
      <3>1. prod \in Int /\ c \in Int /\ Wrapped(c) \in Int /\ Wrapped(Wrapped(c)) = Wrapped(c)
        BY <1>1, <1>4, <1>6, <1>7
      <3>. QED
        BY <3>1, WrappedSame, Zenon
    <2>. QED
      BY <2>1, <2>2
  <1>9. F + n < IdxMod => Wrapped(F + n) = F + n
    BY <1>1, WrappedIs
  <1>10. n <= F => Wrapped(F - n) = F - n
    BY <1>1, WrappedIs
  <1>11. Wrapped(Wrapped(p) - cons) = Wrapped(F + n) /\ Wrapped(prod - Wrapped(c)) = Wrapped(F - n)
    BY <1>4, <1>5, <1>8
  <1>. QED
    BY <1>2, <1>6, <1>9, <1>10, <1>11 DEF prod, cons, F, d, p, c

\* The slots of the indices of a ring.
LEMMA RingSlots ==
    ASSUME NEW ring \in Ring
    PROVE  /\ \A y \in Int : Slot(ring.cons + Filled(ring) + y) = Slot(ring.prod + y)
           /\ Slot(ring.cons + Filled(ring)) = Slot(ring.prod)
           /\ \A x, y \in Int : Slot(Wrapped(x) + y) = Slot(x + y)
  <1>1. \A y \in Int : Slot(ring.cons + Filled(ring) + y) = Slot(ring.prod + y)
    BY FilledIs, Zenon DEF Slot
  <1>2. Slot(ring.cons + Filled(ring)) = Slot(ring.prod)
    <2>1. Slot(ring.cons + Filled(ring) + 0) = Slot(ring.prod + 0)
      BY <1>1
    <2>2. ring.cons + Filled(ring) + 0 = ring.cons + Filled(ring) /\ ring.prod + 0 = ring.prod
      BY FilledIs, XenStoreAssumption DEF Ring
    <2>. QED
      BY <2>1, <2>2
  <1>3. \A x, y \in Int : Slot(Wrapped(x) + y) = Slot(x + y)
    BY SlotWraps, Zenon DEF Slot, Wrapped
  <1>. QED
    BY <1>1, <1>2, <1>3

\* XenStoreWriteStore() and the service's output: what is written follows what was there.
LEMMA ProduceIs ==
    ASSUME NEW ring \in Ring, NEW s \in Seq(Unit), Filled(ring) + Len(s) <= RING_SIZE
    PROVE  /\ Produce(ring, s) \in Ring
           /\ Filled(Produce(ring, s)) = Filled(ring) + Len(s)
           /\ InRing(Produce(ring, s)) = InRing(ring) \o s
  <1>. DEFINE n == Len(s)
              new == Produce(ring, s)
              F == Filled(ring)
              prod == ring.prod
              cons == ring.cons
              at(i) == Slot(i - prod) + 1
  <1>1. /\ RING_SIZE \in Nat \ {0} /\ IdxMod \in Nat /\ IdxMod > RING_SIZE /\ n \in Nat
        /\ prod \in Int /\ cons \in Int /\ F \in Nat /\ n \in Int /\ F \in Int
        /\ prod \in 0 .. IdxMod - 1 /\ cons \in 0 .. IdxMod - 1 /\ F + n <= RING_SIZE
    BY XenStoreAssumption, FilledIs DEF Ring
  <1>2. /\ new.prod = Wrapped(prod + n) /\ new.cons = cons
        /\ new.data = [i \in 0 .. RING_SIZE - 1 |-> IF at(i) <= n THEN s[at(i)] ELSE ring.data[i]]
        /\ new = [data |-> new.data, prod |-> new.prod, cons |-> new.cons]
    <2>1. /\ ring = [data |-> ring.data, prod |-> ring.prod, cons |-> ring.cons]
          /\ DOMAIN ring.data = 0 .. RING_SIZE - 1
      BY DEF Ring
    <2>2. new = [data |-> [i \in 0 .. RING_SIZE - 1 |->
                              IF ((i - prod) % RING_SIZE) + 1 <= n
                              THEN s[((i - prod) % RING_SIZE) + 1] ELSE ring.data[i]],
                 prod |-> (prod + n) % IdxMod, cons |-> cons]
      <3>. DEFINE D == [i \in DOMAIN ring.data |->
                          IF ((i - ring.prod) % RING_SIZE) + 1 <= Len(s)
                          THEN s[((i - ring.prod) % RING_SIZE) + 1] ELSE ring.data[i]]
      <3>1. new = [ring EXCEPT !.data = D, !.prod = (ring.prod + Len(s)) % IdxMod]
        BY Zenon DEF Produce
      <3>2. D = [i \in 0 .. RING_SIZE - 1 |->
                    IF ((i - prod) % RING_SIZE) + 1 <= n
                    THEN s[((i - prod) % RING_SIZE) + 1] ELSE ring.data[i]]
        BY <2>1, Zenon
      <3>. HIDE DEF D, new
      <3>. QED
        BY <2>1, <3>1, <3>2
    <2>. HIDE DEF new
    <2>. QED
      BY <2>2 DEF at, Slot, Wrapped
  <1>. HIDE DEF at, new
  <1>3. ASSUME NEW i \in 0 .. RING_SIZE - 1 PROVE at(i) \in 1 .. RING_SIZE
    <2>1. i - prod \in Int
      BY <1>1
    <2>2. Slot(i - prod) \in 0 .. RING_SIZE - 1
      BY <2>1, SlotIs, Zenon
    <2>. QED
      BY <1>1, <2>2 DEF at
  <1>4. new \in Ring /\ Filled(new) = F + n
    <2>1. new.data \in [0 .. RING_SIZE - 1 -> Unit]
      <3>1. ASSUME NEW i \in 0 .. RING_SIZE - 1
            PROVE  (IF at(i) <= n THEN s[at(i)] ELSE ring.data[i]) \in Unit
        <4>1. at(i) \in 1 .. RING_SIZE
          BY <1>3
        <4>2. at(i) <= n => s[at(i)] \in Unit
          BY <1>1, <4>1
        <4>3. ring.data[i] \in Unit
          BY DEF Ring
        <4>. QED
          BY <4>2, <4>3
      <3>. QED
        BY <1>2, <3>1
    <2>2. new.prod \in 0 .. IdxMod - 1 /\ new.cons \in 0 .. IdxMod - 1
      BY <1>1, <1>2, IndexMoves
    <2>3. new \in Ring
      BY <1>2, <2>1, <2>2 DEF Ring
    <2>4. Wrapped(Wrapped(prod + n) - cons) = F + n
      <3>1. F + n < IdxMod
        BY <1>1
      <3>. QED
        BY <1>1, <3>1, IndexMoves
    <2>5. Filled(new) = Wrapped(new.prod - new.cons)
      BY <1>1, <2>3, IndexMoves
    <2>. QED
      BY <1>2, <2>3, <2>4, <2>5
  <1>5. ASSUME NEW k \in 1 .. F
        PROVE  new.data[Slot(cons + k - 1)] = ring.data[Slot(cons + k - 1)]
    <2>. DEFINE x == cons + k - 1
                end == cons + F
    <2>1. x \in Int /\ end \in Int /\ x - end = k - 1 - F /\ prod \in Int
      BY <1>1
    <2>2. Slot(end) = Slot(prod)
      BY RingSlots
    <2>. HIDE DEF x, end, prod, cons, F, n
    <2>3. Slot(x) \in 0 .. RING_SIZE - 1 /\ Slot(Slot(x)) = Slot(x)
      BY <2>1, SlotIs, Zenon
    <2>4. Slot(Slot(x) - prod) = Slot(x - prod)
      <3>1. Slot(x) \in Int
        BY <2>3
      <3>. QED
        BY <2>1, <2>3, <3>1, SlotSame, Zenon
    <2>5. Slot(x - end) = Slot(x - prod)
      BY <2>1, <2>2, SlotSame, Zenon
    <2>6. Slot(x - end) = x - end + RING_SIZE
      <3>1. x - end \in Int /\ x - end \in -RING_SIZE .. -1
        BY <1>1, <2>1
      <3>. QED
        BY <3>1, SlotIs, Zenon
    <2>7. at(Slot(x)) = k - F + RING_SIZE
      BY <1>1, <2>1, <2>4, <2>5, <2>6 DEF at
    <2>8. new.data[Slot(x)] = ring.data[Slot(x)]
      BY <1>1, <1>2, <2>3, <2>7
    <2>. QED
      BY <2>8 DEF x
  <1>6. ASSUME NEW k \in 1 .. n
        PROVE  new.data[Slot(cons + (F + k) - 1)] = s[k]
    <2>. DEFINE x == prod + (k - 1)
    <2>1. x \in Int /\ x - prod = k - 1 /\ k - 1 \in 0 .. RING_SIZE - 1 /\ k - 1 \in Int
      BY <1>1
    <2>2. Slot(cons + (F + k) - 1) = Slot(x)
      <3>1. Slot(cons + F + (k - 1)) = Slot(prod + (k - 1))
        BY <2>1, RingSlots
      <3>2. cons + F + (k - 1) = cons + (F + k) - 1
        BY <1>1
      <3>. QED
        BY <3>1, <3>2
    <2>. HIDE DEF x, prod, cons, F, n
    <2>3. Slot(x) \in 0 .. RING_SIZE - 1 /\ Slot(Slot(x)) = Slot(x)
      BY <2>1, SlotIs, Zenon
    <2>4. Slot(Slot(x) - prod) = Slot(x - prod)
      <3>1. Slot(x) \in Int /\ prod \in Int
        BY <1>1, <2>3
      <3>. QED
        BY <2>1, <2>3, <3>1, SlotSame, Zenon
    <2>5. Slot(x - prod) = k - 1
      BY <2>1, SlotIs
    <2>6. at(Slot(x)) = k
      BY <1>1, <2>4, <2>5 DEF at
    <2>. QED
      BY <1>1, <1>2, <2>2, <2>3, <2>6
  <1>7. InRing(new) = InRing(ring) \o s
    <2>1. /\ InRing(ring) = Peek(ring, F) /\ Len(InRing(ring)) = F /\ InRing(ring) \in Seq(Unit)
      BY <1>1, InRingIs
    <2>2. \A k \in 1 .. F : InRing(ring)[k] = ring.data[Slot(cons + k - 1)]
      BY <1>1, <2>1, PeekIs
    <2>3. /\ InRing(new) = Peek(new, F + n) /\ Len(InRing(new)) = F + n /\ InRing(new) \in Seq(Unit)
      BY <1>1, <1>4, InRingIs
    <2>4. \A k \in 1 .. F + n : InRing(new)[k] = new.data[Slot(cons + k - 1)]
      <3>1. F + n \in Nat /\ new \in Ring
        BY <1>1, <1>4
      <3>2. \A k \in 1 .. F + n : Peek(new, F + n)[k] = new.data[Slot(new.cons + k - 1)]
        BY <3>1, PeekIs, Zenon
      <3>. QED
        BY <1>2, <2>3, <3>2
    <2>. DEFINE both == InRing(ring) \o s
    <2>5. /\ both \in Seq(Unit) /\ Len(both) = F + n
          /\ \A k \in 1 .. F + n : both[k] = IF k <= F THEN InRing(ring)[k] ELSE s[k - F]
      BY <2>1, ConcatProperties
    <2>. HIDE DEF both, F, n, prod, cons
    <2>6. ASSUME NEW k \in 1 .. F + n PROVE InRing(new)[k] = both[k]
      <3>1. CASE k \in 1 .. F
        <4>1. k <= F /\ k \in 1 .. F + n
          BY <1>1, <3>1
        <4>2. new.data[Slot(cons + k - 1)] = ring.data[Slot(cons + k - 1)]
          BY <1>5, <3>1
        <4>. QED
          BY <2>2, <2>4, <2>5, <3>1, <4>1, <4>2, Zenon
      <3>2. CASE k \in F + 1 .. F + n
        <4>. DEFINE j == k - F
        <4>1. j \in 1 .. n /\ F + j = k /\ ~(k <= F)
          BY <1>1, <3>2
        <4>2. both[k] = s[j]
          BY <2>5, <4>1
        <4>. HIDE DEF j
        <4>3. new.data[Slot(cons + (F + j) - 1)] = s[j]
          BY <1>6, <4>1
        <4>. QED
          BY <2>4, <4>1, <4>2, <4>3
      <3>. QED
        BY <1>1, <3>1, <3>2
    <2>. QED
      BY <2>3, <2>5, <2>6, SeqEqual DEF both
  <1>. QED
    BY <1>4, <1>7 DEF new

\* XenStoreReadStore() and the service's input: what is read comes before what stays.
LEMMA ConsumeIs ==
    ASSUME NEW ring \in Ring, NEW n \in Nat
    PROVE  /\ Consume(ring, n) \in Ring
           /\ n <= Filled(ring) /\ Filled(ring) <= RING_SIZE =>
                 /\ Filled(Consume(ring, n)) = Filled(ring) - n
                 /\ Peek(ring, n) \o InRing(Consume(ring, n)) = InRing(ring)
  <1>. DEFINE new == Consume(ring, n)
              F == Filled(ring)
              cons == ring.cons
              gone(i) == Slot(i - cons) < n
  <1>1. /\ RING_SIZE \in Nat \ {0} /\ IdxMod \in Nat /\ IdxMod > RING_SIZE
        /\ cons \in Int /\ F \in Nat /\ n \in Int /\ F \in Int
        /\ ring.prod \in 0 .. IdxMod - 1 /\ cons \in 0 .. IdxMod - 1
    BY XenStoreAssumption, FilledIs DEF Ring
  <1>2. new = [data |-> [i \in 0 .. RING_SIZE - 1 |-> IF gone(i) THEN Garbage ELSE ring.data[i]],
               prod |-> ring.prod, cons |-> Wrapped(cons + n)]
    <2>1. /\ ring = [data |-> ring.data, prod |-> ring.prod, cons |-> ring.cons]
          /\ DOMAIN ring.data = 0 .. RING_SIZE - 1
      BY DEF Ring
    <2>. DEFINE D == [i \in DOMAIN ring.data |->
                        IF (i - ring.cons) % RING_SIZE < n THEN Garbage ELSE ring.data[i]]
    <2>2. new = [ring EXCEPT !.data = D, !.cons = (ring.cons + n) % IdxMod]
      BY Zenon DEF Consume
    <2>3. D = [i \in 0 .. RING_SIZE - 1 |-> IF gone(i) THEN Garbage ELSE ring.data[i]]
      BY <2>1, Zenon DEF Slot
    <2>4. (ring.cons + n) % IdxMod = Wrapped(cons + n)
      BY Zenon DEF Wrapped
    <2>. HIDE DEF D, new, gone, cons
    <2>. QED
      BY <2>1, <2>2, <2>3, <2>4
  <1>. HIDE DEF new, gone
  <1>3. Garbage \in Unit
    BY DEF Garbage, Unit, Msgs, Msg
  <1>4. new \in Ring
    <2>1. Wrapped(cons + n) \in 0 .. IdxMod - 1
      BY <1>1, IndexMoves
    <2>2. ring.data \in [0 .. RING_SIZE - 1 -> Unit]
      BY DEF Ring
    <2>. HIDE DEF cons
    <2>. QED
      BY <1>1, <1>2, <1>3, <2>1, <2>2 DEF Ring
  <1>. SUFFICES ASSUME n <= F, F <= RING_SIZE
                PROVE  Filled(new) = F - n /\ Peek(ring, n) \o InRing(new) = InRing(ring)
    BY <1>4 DEF new
  <1>5. Filled(new) = F - n
    <2>1. Wrapped(ring.prod - Wrapped(cons + n)) = F - n
      BY <1>1, IndexMoves
    <2>2. Filled(new) = Wrapped(new.prod - new.cons)
      BY <1>1, <1>4, IndexMoves
    <2>. QED
      BY <1>2, <2>1, <2>2
  <1>6. ASSUME NEW k \in n + 1 .. F
        PROVE  new.data[Slot(new.cons + (k - n) - 1)] = ring.data[Slot(cons + k - 1)]
    <2>. DEFINE x == cons + k - 1
    <2>1. x \in Int /\ x - cons = k - 1 /\ k - 1 \in 0 .. RING_SIZE - 1 /\ k - n - 1 \in Int
      BY <1>1
    <2>2. Slot(new.cons + (k - n) - 1) = Slot(x)
      <3>. DEFINE c == cons + n
                  y == k - n - 1
      <3>1. c \in Int /\ y \in Int /\ c + y = x
        BY <1>1
      <3>2. Slot(Wrapped(c) + y) = Slot(c + y)
        <4>. HIDE DEF c, y
        <4>. QED
          BY <3>1, RingSlots, Zenon
      <3>3. new.cons = Wrapped(c) /\ Wrapped(c) \in Int
        BY <1>2, <1>1, IndexMoves
      <3>4. new.cons + (k - n) - 1 = Wrapped(c) + y
        BY <1>1, <3>3
      <3>. QED
        BY <3>1, <3>2, <3>4
    <2>. HIDE DEF x, cons, F
    <2>3. Slot(x) \in 0 .. RING_SIZE - 1 /\ Slot(Slot(x)) = Slot(x)
      BY <2>1, SlotIs, Zenon
    <2>4. Slot(Slot(x) - cons) = Slot(x - cons)
      <3>1. Slot(x) \in Int /\ cons \in Int
        BY <1>1, <2>3
      <3>. QED
        BY <2>1, <2>3, <3>1, SlotSame, Zenon
    <2>5. Slot(x - cons) = k - 1
      BY <2>1, SlotIs
    <2>6. ~gone(Slot(x))
      BY <1>1, <2>4, <2>5 DEF gone
    <2>. QED
      BY <1>2, <2>2, <2>3, <2>6 DEF x
  <1>7. Peek(ring, n) \o InRing(new) = InRing(ring)
    <2>1. /\ InRing(ring) = Peek(ring, F) /\ Len(InRing(ring)) = F /\ InRing(ring) \in Seq(Unit)
      BY <1>1, InRingIs
    <2>2. \A k \in 1 .. F : InRing(ring)[k] = ring.data[Slot(cons + k - 1)]
      BY <1>1, <2>1, PeekIs
    <2>3. /\ InRing(new) = Peek(new, F - n) /\ Len(InRing(new)) = F - n /\ InRing(new) \in Seq(Unit)
      BY <1>1, <1>4, <1>5, InRingIs
    <2>4. \A k \in 1 .. F - n : InRing(new)[k] = new.data[Slot(new.cons + k - 1)]
      <3>1. F - n \in Nat /\ new \in Ring
        BY <1>1, <1>4
      <3>2. \A k \in 1 .. F - n : Peek(new, F - n)[k] = new.data[Slot(new.cons + k - 1)]
        BY <3>1, PeekIs, Zenon
      <3>. QED
        BY <2>3, <3>2
    <2>5. /\ Peek(ring, n) \in Seq(Unit) /\ Len(Peek(ring, n)) = n
          /\ \A k \in 1 .. n : Peek(ring, n)[k] = ring.data[Slot(cons + k - 1)]
      BY PeekIs
    <2>. DEFINE both == Peek(ring, n) \o InRing(new)
    <2>6. /\ both \in Seq(Unit) /\ Len(both) = F
          /\ \A k \in 1 .. F : both[k] = IF k <= n THEN Peek(ring, n)[k] ELSE InRing(new)[k - n]
      <3>1. n + (F - n) = F
        BY <1>1
      <3>. DEFINE s == Peek(ring, n)
                  t == InRing(new)
      <3>. HIDE DEF s, t, F
      <3>2. s \in Seq(Unit) /\ t \in Seq(Unit) /\ Len(s) + Len(t) = F /\ Len(s) = n
        BY <2>3, <2>5, <3>1 DEF s, t
      <3>3. /\ s \o t \in Seq(Unit) /\ Len(s \o t) = F
            /\ \A k \in 1 .. F : (s \o t)[k] = IF k <= n THEN s[k] ELSE t[k - n]
        BY <3>2, ConcatProperties
      <3>. QED
        BY <3>3 DEF s, t
    <2>. HIDE DEF both, F, cons
    <2>7. ASSUME NEW k \in 1 .. F PROVE both[k] = InRing(ring)[k]
      <3>1. CASE k <= n
        <4>1. k \in 1 .. n
          BY <1>1, <3>1
        <4>. QED
          BY <2>2, <2>5, <2>6, <3>1, <4>1, Zenon
      <3>2. CASE k > n
        <4>1. k \in n + 1 .. F /\ k - n \in 1 .. F - n /\ ~(k <= n)
          BY <1>1, <3>2
        <4>2. both[k] = InRing(new)[k - n]
          BY <2>6, <4>1
        <4>3. InRing(new)[k - n] = new.data[Slot(new.cons + (k - n) - 1)]
          BY <2>4, <4>1
        <4>4. new.data[Slot(new.cons + (k - n) - 1)] = ring.data[Slot(cons + k - 1)]
          BY <1>6, <4>1
        <4>. QED
          BY <2>2, <4>2, <4>3, <4>4
      <3>. QED
        BY <1>1, <3>1, <3>2
    <2>. QED
      BY <2>1, <2>6, <2>7, SeqEqual DEF both
  <1>. QED
    BY <1>5, <1>7

\* A ring whose indices meet is empty.
LEMMA RingIsEmpty ==
    ASSUME NEW ring \in Ring, ring.prod = ring.cons
    PROVE  Filled(ring) = 0 /\ InRing(ring) = <<>>
  BY FilledIs, InRingIs

\* The ring that the service starts with.
LEMMA EmptyIs ==
    EmptyRing \in Ring /\ Filled(EmptyRing) = 0 /\ InRing(EmptyRing) = <<>> /\ Garbage \in Unit
  <1>1. Garbage \in Unit
    BY DEF Garbage, Unit, Msgs, Msg, None
  <1>2. [i \in 0 .. RING_SIZE - 1 |-> Garbage] \in [0 .. RING_SIZE - 1 -> Unit] /\ 0 \in 0 .. IdxMod - 1
    BY <1>1, XenStoreAssumption
  <1>3. EmptyRing \in Ring /\ EmptyRing.prod = EmptyRing.cons
    BY <1>2 DEF EmptyRing, Ring
  <1>. QED
    BY <1>1, <1>3, RingIsEmpty

-----------------------------------------------------------------------------
(* Streams of messages.                                                    *)

\* The messages of a stream are determined by its units.
LEMMA FramedIs ==
    ASSUME NEW s \in Seq(Unit)
    PROVE  /\ Carried(s) \in Seq(Msgs)
           /\ \A ms \in Seq(Msgs) : Framed(s, ms) => Carried(s) = ms
           /\ s = <<>> => Carried(s) = <<>> /\ Framed(s, Carried(s))
           /\ Carried(s) = <<>> /\ Framed(s, Carried(s)) => s = <<>>
  <1>. USE DEF MsgLen, HeaderLen
  <1>1. Len(s) \in Nat
    OBVIOUS
  <1>. DEFINE n == Len(s) \div 3
  <1>2. n \in Nat /\ Len(s) - 2 <= 3 * n /\ 3 * n <= Len(s)
    BY <1>1
  <1>3. Carried(s) = [j \in 1 .. n |-> s[3 * j][1]]
    BY DEF Carried
  <1>. HIDE DEF n
  <1>4. ASSUME NEW j \in 1 .. n PROVE s[3 * j][1] \in Msgs
    <2>1. 3 * j \in 1 .. Len(s)
      BY <1>1, <1>2
    <2>2. s[3 * j] \in Unit
      BY <2>1
    <2>. QED
      BY <2>2 DEF Unit
  <1>5. Carried(s) \in Seq(Msgs) /\ Len(Carried(s)) = n /\ \A j \in 1 .. n : Carried(s)[j] = s[3 * j][1]
    BY <1>2, <1>3, <1>4
  <1>6. ASSUME NEW ms \in Seq(Msgs), Framed(s, ms) PROVE Carried(s) = ms
    <2>1. Len(s) = 3 * Len(ms) /\ \A j \in 1 .. Len(ms), k \in 1 .. 3 : s[3 * (j - 1) + k] = <<ms[j], k>>
      BY <1>6 DEF Framed
    <2>2. Len(ms) \in Nat /\ n = Len(ms)
      BY <1>1, <1>2, <2>1
    <2>3. ASSUME NEW j \in 1 .. n PROVE Carried(s)[j] = ms[j]
      <3>1. 3 * (j - 1) + 3 = 3 * j
        BY <2>2
      <3>2. s[3 * (j - 1) + 3] = <<ms[j], 3>>
        BY <2>1, <2>2
      <3>. QED
        BY <1>5, <3>1, <3>2
    <2>. QED
      BY <1>5, <2>2, <2>3, SeqEqual
  <1>7. s = <<>> => Carried(s) = <<>> /\ Framed(s, Carried(s))
    BY <1>2, <1>5 DEF Framed
  <1>8. Carried(s) = <<>> /\ Framed(s, Carried(s)) => s = <<>>
    BY <1>1, <1>5 DEF Framed
  <1>. QED
    BY <1>5, <1>6, <1>7, <1>8

\* The units of a message with a body of one unit.
LEMMA UnitsAre ==
    ASSUME NEW m \in Msgs
    PROVE  /\ Units(m) \in Seq(Unit) /\ Len(Units(m)) = HeaderLen + m.len /\ m.len \in 0 .. 2
           /\ \A k \in 1 .. HeaderLen + m.len : Units(m)[k] = <<m, k>>
  <1>1. m.len \in 0 .. 2
    BY DEF Msgs
  <1>2. \A k \in 1 .. HeaderLen + m.len : <<m, k>> \in Unit
    BY <1>1 DEF Unit, HeaderLen
  <1>3. Units(m) \in [1 .. HeaderLen + m.len -> Unit]
    BY <1>2 DEF Units
  <1>4. HeaderLen + m.len \in Nat
    BY <1>1 DEF HeaderLen
  <1>. QED
    BY <1>1, <1>3, <1>4 DEF Units

\* Send() appends a message to the stream.
LEMMA FramedSend ==
    ASSUME NEW s \in Seq(Unit), Framed(s, Carried(s)), NEW m \in Msgs, m.len = 1
    PROVE  /\ s \o Units(m) \in Seq(Unit)
           /\ Carried(s \o Units(m)) = Append(Carried(s), m)
           /\ Framed(s \o Units(m), Carried(s \o Units(m)))
  <1>. DEFINE t  == s \o Units(m)
              ms == Carried(s)
              mt == Append(ms, m)
  <1>1. ms \in Seq(Msgs) /\ Len(ms) \in Nat /\ Len(s) = 3 * Len(ms)
        /\ \A j \in 1 .. Len(ms), k \in 1 .. 3 : s[3 * (j - 1) + k] = <<ms[j], k>>
    BY FramedIs DEF Framed, MsgLen, HeaderLen
  <1>2. /\ Units(m) \in Seq(Unit) /\ Len(Units(m)) = 3
        /\ \A k \in 1 .. 3 : Units(m)[k] = <<m, k>>
    <2>1. HeaderLen + m.len = 3
      BY DEF HeaderLen
    <2>. QED
      BY <2>1, UnitsAre
  <1>3. /\ t \in Seq(Unit) /\ Len(t) = Len(s) + 3
        /\ \A i \in 1 .. Len(s) + 3 : t[i] = IF i <= Len(s) THEN s[i] ELSE Units(m)[i - Len(s)]
    <2>. DEFINE u == Units(m)
    <2>1. u \in Seq(Unit) /\ Len(u) = 3
      BY <1>2
    <2>. HIDE DEF u
    <2>2. /\ s \o u \in Seq(Unit) /\ Len(s \o u) = Len(s) + Len(u)
          /\ \A i \in 1 .. Len(s) + Len(u) : (s \o u)[i] = IF i <= Len(s) THEN s[i] ELSE u[i - Len(s)]
      BY <2>1, ConcatProperties
    <2>. QED
      BY <2>1, <2>2 DEF u
  <1>. HIDE DEF ms
  <1>4. /\ mt \in Seq(Msgs) /\ Len(mt) = Len(ms) + 1 /\ mt[Len(ms) + 1] = m
        /\ \A j \in 1 .. Len(ms) : mt[j] = ms[j]
    BY <1>1
  <1>. HIDE DEF t, mt
  <1>5. ASSUME NEW j \in 1 .. Len(mt), NEW k \in 1 .. 3 PROVE t[3 * (j - 1) + k] = <<mt[j], k>>
    <2>1. CASE j \in 1 .. Len(ms)
      <3>1. 3 * (j - 1) + k \in 1 .. Len(s)
        BY <1>1, <2>1
      <3>2. t[3 * (j - 1) + k] = s[3 * (j - 1) + k]
        BY <1>1, <1>3, <3>1
      <3>. QED
        BY <1>1, <1>4, <2>1, <3>2
    <2>2. CASE j = Len(ms) + 1
      <3>1. 3 * (j - 1) + k = Len(s) + k
        BY <1>1, <2>2
      <3>2. t[Len(s) + k] = Units(m)[k]
        <4>1. Len(s) + k \in 1 .. Len(s) + 3 /\ ~(Len(s) + k <= Len(s)) /\ (Len(s) + k) - Len(s) = k
          BY <1>1
        <4>. QED
          BY <1>3, <4>1
      <3>. QED
        BY <1>2, <1>4, <2>2, <3>1, <3>2
    <2>. QED
      BY <1>1, <1>4, <2>1, <2>2
  <1>6. Framed(t, mt)
    BY <1>1, <1>3, <1>4, <1>5 DEF Framed, MsgLen, HeaderLen
  <1>7. Carried(t) = mt
    BY <1>3, <1>4, <1>6, FramedIs
  <1>. QED
    BY <1>3, <1>6, <1>7 DEF t, mt, ms

\* What comes first in the stream is of its first message.
Split(u, s, t) == u = s \o t

\* A part not longer than a message holds the first units of the first message, and when
\* it is the whole message, the rest is framed without it.
LEMMA FramedFirst ==
    ASSUME NEW s \in Seq(Unit), NEW t \in Seq(Unit), NEW u, Split(u, s, t),
           Framed(u, Carried(u)), s # <<>>, Len(s) <= MsgLen
    PROVE  /\ Carried(u) # <<>> /\ Carried(u)[1] \in Msgs
           /\ \A k \in 1 .. Len(s) : s[k] = <<Carried(u)[1], k>>
           /\ Len(s) = MsgLen => /\ Carried(t) = Tail(Carried(u))
                                 /\ Framed(t, Carried(t))
  <1>. DEFINE ms == Carried(u)
              mt == Tail(ms)
  <1>1. /\ u \in Seq(Unit) /\ Len(u) = Len(s) + Len(t) /\ Len(s) >= 1 /\ Len(s) <= 3
        /\ \A i \in 1 .. Len(s) + Len(t) : u[i] = IF i <= Len(s) THEN s[i] ELSE t[i - Len(s)]
    <2>1. Len(s) >= 1 /\ Len(s) <= 3
      BY DEF MsgLen, HeaderLen
    <2>. QED
      BY <2>1, ConcatProperties DEF Split
  <1>2. Framed(u, ms)
    OBVIOUS
  <1>3. ms \in Seq(Msgs)
    BY <1>1, FramedIs
  <1>. HIDE DEF ms
  <1>4. /\ Len(u) = 3 * Len(ms)
        /\ \A j \in 1 .. Len(ms), k \in 1 .. 3 : u[3 * (j - 1) + k] = <<ms[j], k>>
    BY <1>2, <1>3 DEF Framed, MsgLen, HeaderLen
  <1>5. Len(ms) >= 1 /\ ms # <<>> /\ ms[1] \in Msgs
    BY <1>1, <1>3, <1>4
  <1>6. ASSUME NEW k \in 1 .. Len(s) PROVE s[k] = <<ms[1], k>>
    <2>1. k \in 1 .. 3 /\ 1 \in 1 .. Len(ms) /\ 3 * (1 - 1) + k = k
      <3>1. Len(s) >= 1 /\ Len(s) <= 3 /\ Len(ms) >= 1
        BY <1>1, <1>4, <1>5
      <3>2. k \in 1 .. 3
        BY <3>1
      <3>3. 1 \in 1 .. Len(ms)
        BY <3>1
      <3>. QED
        BY <3>2, <3>3
    <2>2. u[3 * (1 - 1) + k] = <<ms[1], k>>
      BY <1>4, <2>1
    <2>3. u[k] = s[k]
      BY <1>1
    <2>. QED
      BY <2>1, <2>2, <2>3
  <1>7. ASSUME Len(s) = MsgLen PROVE Carried(t) = mt /\ Framed(t, Carried(t))
    <2>1. Len(s) = 3 /\ Len(t) = 3 * (Len(ms) - 1)
      BY <1>1, <1>4, <1>7 DEF MsgLen, HeaderLen
    <2>2. /\ mt \in Seq(Msgs) /\ Len(mt) = Len(ms) - 1
          /\ \A j \in 1 .. Len(ms) - 1 : mt[j] = ms[j + 1]
      BY <1>3, <1>5
    <2>. HIDE DEF mt
    <2>3. ASSUME NEW j \in 1 .. Len(mt), NEW k \in 1 .. 3 PROVE t[3 * (j - 1) + k] = <<mt[j], k>>
      <3>1. /\ j + 1 \in 1 .. Len(ms) /\ 3 * ((j + 1) - 1) + k = 3 * (j - 1) + k + 3
            /\ 3 * (j - 1) + k + 3 \in 4 .. Len(s) + Len(t)
        <4>1. Len(s) = 3 /\ Len(t) = 3 * (Len(ms) - 1) /\ Len(mt) = Len(ms) - 1
          BY <1>4, <2>1, <2>2
        <4>. QED
          BY <4>1
      <3>2. u[3 * (j - 1) + k + 3] = <<ms[j + 1], k>>
        BY <1>4, <3>1
      <3>3. u[3 * (j - 1) + k + 3] = t[3 * (j - 1) + k]
        BY <1>1, <2>1, <3>1
      <3>. QED
        BY <2>2, <3>2, <3>3
    <2>4. Framed(t, mt)
      <3>1. Len(t) = 3 * Len(mt)
        BY <2>1, <2>2
      <3>. QED
        BY <2>3, <3>1 DEF Framed, MsgLen, HeaderLen
    <2>. QED
      BY <2>2, <2>4, FramedIs
  <1>. QED
    BY <1>5, <1>6, <1>7 DEF ms, mt

-----------------------------------------------------------------------------
(* The list of events.                                                     *)

\* The cancelling loop of XenStoreUnregisterWatch(): the events of x go, the others stay.
LEMMA RemoveIs ==
    ASSUME NEW S, NEW s \in Seq(S), NEW x
    PROVE  /\ Remove(s, x) \in Seq(S)
           /\ Count(x, Remove(s, x)) = 0
           /\ \A y \in S : y # x => Count(y, Remove(s, x)) = Count(y, s)
  <1>. DEFINE n == Len(s)
              Turn(g, k) == IF s[k] = x THEN g ELSE Append(g, s[k])
              Keep(f) == [k \in 0 .. n |-> IF k = 0 THEN <<>> ELSE Turn(f[k - 1], k)]
              kept == Kept(s, x)
              G == Seq(S)
              step == [k \in 1 .. n |-> [g \in G |-> Turn(g, k)]]
  <1>1. kept = CHOOSE f : f = Keep(f)
    BY DEF Kept
  <1>2. n \in Nat /\ \A k \in 1 .. n : s[k] \in S
    OBVIOUS
  <1>3. /\ step \in [1 .. n -> [G -> G]] /\ <<>> \in G
        /\ \A k \in 1 .. n, g \in G : step[k][g] = Turn(g, k)
    BY <1>2
  <1>. HIDE DEF step, n, Turn
  <1>4. PICK f \in [0 .. n -> G] : f[0] = <<>> /\ \A k \in 1 .. n : f[k] = step[k][f[k - 1]]
    <2>1. Recursive(G, <<>>, n, step)
      BY <1>2, <1>3 DEF Recursive
    <2>2. Computed(G, <<>>, n, step)
      BY <2>1, Recursion
    <2>. QED
      BY <2>2 DEF Computed
  <1>5. f = Keep(f)
    <2>1. ASSUME NEW k \in 1 .. n
          PROVE  f[k] = Turn(f[k - 1], k)
      <3>1. k - 1 \in 0 .. n
        BY <1>2
      <3>2. f[k - 1] \in G
        BY <3>1
      <3>. HIDE DEF G
      <3>. QED
        BY <1>3, <1>4, <3>2
    <2>2. \A k \in 0 .. n : f[k] = IF k = 0 THEN <<>> ELSE Turn(f[k - 1], k)
      BY <1>2, <1>4, <2>1
    <2>3. f = [k \in 0 .. n |-> f[k]]
      BY <1>4
    <2>. QED
      BY <2>2, <2>3
  <1>6. kept = Keep(kept)
    <2>. HIDE DEF Keep, kept
    <2>. QED
      BY <1>1, <1>5
  <1>. HIDE DEF kept
  <1>7. /\ kept[0] = <<>>
        /\ \A k \in 1 .. n : kept[k] = Turn(kept[k - 1], k)
    BY <1>2, <1>6
  <1>. HIDE DEF Keep
  <1>. DEFINE Good(k) == /\ kept[k] \in Seq(S)
                         /\ Count(x, kept[k]) = 0
                         /\ \A y \in S : y # x => Count(y, kept[k]) = Count(y, SubSeq(s, 1, k))
              R == {k \in 0 .. n : Good(k)}
  <1>8. 0 \in R
    <2>1. SubSeq(s, 1, 0) = <<>>
      BY SubSeqEmpty
    <2>2. <<>> \in Seq(S) /\ Count(x, <<>>) = 0
      <3>1. <<>> \in Seq(S) /\ \A i \in DOMAIN <<>> : <<>>[i] # x
        OBVIOUS
      <3>. QED
        BY <3>1, CountIs
    <2>3. kept[0] = <<>>
      BY <1>7
    <2>4. Good(0)
      BY <2>1, <2>2, <2>3, Zenon
    <2>. HIDE DEF Good
    <2>. QED
      BY <1>2, <2>4
  <1>9. ASSUME NEW k \in 1 .. n, k - 1 \in R PROVE k \in R
    <2>. DEFINE g == kept[k - 1]
                t == SubSeq(s, 1, k - 1)
                e == s[k]
    <2>1. /\ g \in Seq(S) /\ Count(x, g) = 0 /\ e \in S
          /\ \A y \in S : y # x => Count(y, g) = Count(y, t)
      BY <1>2, <1>9
    <2>2. t \in Seq(S) /\ SubSeq(s, 1, k) = t \o <<e>> /\ <<e>> \in Seq(S)
      <3>1. k \in 1 .. Len(s) /\ 1 <= k
        BY <1>2 DEF n
      <3>2. SubSeq(s, 1, k) = Append(SubSeq(s, 1, k - 1), s[k]) /\ t \in Seq(S)
        BY <3>1
      <3>3. Append(t, e) = t \o <<e>>
        BY <3>2, <2>1, AppendIsConcat
      <3>. QED
        BY <2>1, <3>2, <3>3
    <2>3. Append(g, e) = g \o <<e>>
      BY <2>1, AppendIsConcat
    <2>4. kept[k] = IF e = x THEN g ELSE g \o <<e>>
      BY <1>7, <2>3 DEF Turn
    <2>. HIDE DEF g, t, e
    <2>5. \A y : Count(y, t \o <<e>>) = Count(y, t) + Count(y, <<e>>)
      BY <2>2, CountConcat, Zenon
    <2>6. \A y : Count(y, g \o <<e>>) = Count(y, g) + Count(y, <<e>>)
      BY <2>1, <2>2, CountConcat, Zenon
    <2>7. \A y : Count(y, t) \in Nat /\ Count(y, <<e>>) = IF y = e THEN 1 ELSE 0
      <3>1. \A y : Count(y, t) \in Nat
        BY <2>2, CountIs, Zenon
      <3>2. \A y : Count(y, <<e>>) = IF y = e THEN 1 ELSE 0
        BY CountSingle, Zenon
      <3>. QED
        BY <3>1, <3>2
    <2>8. Good(k)
      <3>. DEFINE u == SubSeq(s, 1, k)
                  v == g \o <<e>>
                  h == kept[k]
      <3>1. v \in Seq(S)
        BY <2>1, <2>2, ConcatProperties
      <3>2. \A y : Count(y, u) = Count(y, t) + (IF y = e THEN 1 ELSE 0)
        BY <2>2, <2>5, <2>7
      <3>3. \A y : Count(y, v) = Count(y, g) + (IF y = e THEN 1 ELSE 0)
        BY <2>6, <2>7
      <3>4. h = IF e = x THEN g ELSE v
        BY <2>4
      <3>5. h \in Seq(S) /\ Count(x, h) = 0 /\ \A y \in S : y # x => Count(y, h) = Count(y, u)
        <4>. HIDE DEF u, v, h
        <4>. QED
          BY <2>1, <2>7, <3>1, <3>2, <3>3, <3>4
      <3>. QED
        BY <3>5
    <2>. HIDE DEF Good
    <2>. QED
      BY <1>2, <2>8
  <1>10. n \in R
    <2>. HIDE DEF R
    <2>1. \A k \in 0 .. n : k \in R
      BY <1>2, <1>8, <1>9, UpTo
    <2>. QED
      BY <1>2, <2>1
  <1>11. SubSeq(s, 1, n) = s /\ Remove(s, x) = kept[n]
    BY SubSeqFull DEF n, Remove, kept
  <1>. QED
    BY <1>10, <1>11

\* XenStoreWaitWatch() takes one event off the list.
LEMMA RemoveAtIs ==
    ASSUME NEW S, NEW s \in Seq(S), NEW i \in 1 .. Len(s)
    PROVE  /\ RemoveAt(s, i) \in Seq(S) /\ Count(s[i], s) > 0
           /\ Count(s[i], RemoveAt(s, i)) = Count(s[i], s) - 1
           /\ \A y : y # s[i] => Count(y, RemoveAt(s, i)) = Count(y, s)
  <1>. DEFINE a == SubSeq(s, 1, i - 1)
              b == SubSeq(s, i + 1, Len(s))
              e == s[i]
              one == <<e>>
              front == SubSeq(s, 1, i)
  <1>1. a \in Seq(S) /\ b \in Seq(S) /\ e \in S /\ one \in Seq(S) /\ front \in Seq(S)
    OBVIOUS
  <1>2. front = a \o one
    BY SubSeqRecursiveSecond
  <1>3. s = front \o b
    <2>1. SubSeq(s, 1, Len(s)) = s
      BY SubSeqFull
    <2>2. SubSeq(s, 1, i) \o SubSeq(s, i + 1, Len(s)) = SubSeq(s, 1, Len(s))
      BY ConcatAdjacentSubSeq
    <2>. QED
      BY <2>1, <2>2
  <1>4. RemoveAt(s, i) = a \o b
    BY DEF RemoveAt
  <1>. HIDE DEF a, b, e, one, front
  <1>5. a \o b \in Seq(S)
    BY <1>1, ConcatProperties
  <1>6. \A y : Count(y, s) = Count(y, front) + Count(y, b)
    BY <1>1, <1>3, CountConcat, Zenon
  <1>7. \A y : Count(y, front) = Count(y, a) + Count(y, one)
    BY <1>1, <1>2, CountConcat, Zenon
  <1>8. \A y : Count(y, RemoveAt(s, i)) = Count(y, a) + Count(y, b)
    BY <1>1, <1>4, CountConcat, Zenon
  <1>9. \A y : Count(y, a) \in Nat /\ Count(y, b) \in Nat
    BY <1>1, CountIs, Zenon
  <1>10. \A y : Count(y, one) = IF y = e THEN 1 ELSE 0
    BY CountSingle, Zenon DEF one
  <1>11. /\ Count(e, s) > 0 /\ Count(e, RemoveAt(s, i)) = Count(e, s) - 1
         /\ \A y : y # e => Count(y, RemoveAt(s, i)) = Count(y, s)
    BY <1>6, <1>7, <1>8, <1>9, <1>10
  <1>. QED
    BY <1>4, <1>5, <1>11 DEF e

-----------------------------------------------------------------------------
(* What the parts of the invariant say.                                    *)

\* The types of what the invariant is about.
LEMMA Facts ==
    ASSUME Types
    PROVE  /\ server.in \in Seq(Unit) /\ server.out \in Seq(Unit)
           /\ server.watches \subseteq Watches
           /\ server.awake \in BOOLEAN /\ server.reconnects \in BOOLEAN /\ server.broken \in BOOLEAN
           /\ InRing(req) \in Seq(Unit) /\ InRing(rsp) \in Seq(Unit)
           /\ Filled(req) \in Nat /\ Filled(rsp) \in Nat
           /\ Asked \in Seq(Unit) /\ Stream \in Seq(Unit) /\ InFlight \in Seq(Msgs)
           /\ InRing(rsp) \o server.out \in Seq(Unit)
           /\ WatchEvents \in Seq(Watches) /\ undelivered \in [Watches -> 0 .. MaxEvents]
           /\ RegisteredWatches \subseteq live /\ live \subseteq Watches
  <1>1. /\ server.in \in Seq(Unit) /\ server.out \in Seq(Unit)
        /\ server.watches \subseteq Watches
        /\ server.awake \in BOOLEAN /\ server.reconnects \in BOOLEAN /\ server.broken \in BOOLEAN
    BY DEF Types, Service
  <1>2. InRing(req) \in Seq(Unit) /\ InRing(rsp) \in Seq(Unit) /\ Filled(req) \in Nat /\ Filled(rsp) \in Nat
    BY InRingIs DEF Types
  <1>3. InRing(rsp) \o server.out \in Seq(Unit) /\ Asked \in Seq(Unit)
    BY <1>1, <1>2, ConcatProperties DEF Asked
  <1>4. Stream \in Seq(Unit)
    <2>1. Message \in Seq(Unit)
      BY DEF Types
    <2>. QED
      BY <1>3, <2>1, ConcatProperties DEF Stream
  <1>5. InFlight \in Seq(Msgs)
    BY <1>4, FramedIs DEF InFlight
  <1>6. /\ WatchEvents \in Seq(Watches) /\ undelivered \in [Watches -> 0 .. MaxEvents]
        /\ RegisteredWatches \subseteq live /\ live \subseteq Watches
    BY DEF Types, TypeOK
  <1>. QED
    BY <1>1, <1>2, <1>3, <1>4, <1>5, <1>6

\* The counts of the invariant and of EventsAccounted.
LEMMA Counts ==
    /\ \A w, units : EventsOf(w, units) = Ends(w, units)
    /\ \A w : Cardinality({i \in DOMAIN WatchEvents : WatchEvents[i] = w}) = Count(w, WatchEvents)
  BY DEF EventsOf, Ends, Count, Places, MsgLen

\* Nothing is on its way.
LEMMA NothingInFlight ==
    ASSUME Types, Message = <<>>, Filled(rsp) = 0, server.out = <<>>
    PROVE  Stream = <<>> /\ InFlight = <<>> /\ Framed(Stream, InFlight)
  <1>1. InRing(rsp) = <<>>
    BY InRingIs DEF Types
  <1>2. Stream = <<>>
    BY <1>1 DEF Stream
  <1>3. Stream \in Seq(Unit)
    BY Facts
  <1>. QED
    BY <1>2, <1>3, FramedIs DEF InFlight

\* A unit of the stream is a unit of one of its messages.
LEMMA FramedUnit ==
    ASSUME NEW s \in Seq(Unit), NEW ms \in Seq(Msgs), Framed(s, ms), NEW i \in DOMAIN s
    PROVE  \E j \in DOMAIN ms : s[i][1] = ms[j]
  <1>. DEFINE j == (i + 2) \div 3
              k == i - 3 * (j - 1)
  <1>1. /\ Len(s) = 3 * Len(ms)
        /\ \A y \in 1 .. Len(ms), z \in 1 .. 3 : s[3 * (y - 1) + z] = <<ms[y], z>>
    BY DEF Framed, MsgLen, HeaderLen
  <1>2. i \in Int /\ 1 <= i /\ i <= 3 * Len(ms)
    BY <1>1
  <1>3. j \in Int /\ 1 <= j /\ j <= Len(ms) /\ k \in Int /\ 1 <= k /\ k <= 3 /\ 3 * (j - 1) + k = i
    <2>1. j \in Int /\ 3 * j <= i + 2 /\ i <= 3 * j
      BY <1>2
    <2>. HIDE DEF j
    <2>2. Len(ms) \in Int
      OBVIOUS
    <2>. QED
      BY <1>2, <2>1, <2>2
  <1>. HIDE DEF j, k
  <1>4. j \in 1 .. Len(ms) /\ k \in 1 .. 3
    BY <1>3
  <1>5. s[3 * (j - 1) + k] = <<ms[j], k>>
    BY <1>1, <1>4
  <1>. QED
    BY <1>3, <1>4, <1>5

\* A watch of which nothing was heard.
LEMMA NoEventOf ==
    ASSUME Types, Up, Streaming, Accounting, NEW w \in Watches,
           w \notin server.watches, ~Leaving(w)
    PROVE  undelivered[w] = 0 /\ Ends(w, Stream) = 0 /\ Count(w, WatchEvents) = 0
  <1>1. undelivered[w] = 0
    BY DEF Accounting
  <1>2. Count(w, WatchEvents) = 0
    <2>1. \A i \in DOMAIN WatchEvents : WatchEvents[i] # w
      BY DEF Accounting
    <2>. QED
      BY <2>1, Facts, CountIs
  <1>3. Count(<<EventFor(w), MsgLen>>, Stream) = 0
    <2>1. ASSUME NEW i \in DOMAIN Stream, Stream[i] = <<EventFor(w), MsgLen>> PROVE FALSE
      <3>1. Stream \in Seq(Unit) /\ InFlight \in Seq(Msgs) /\ Framed(Stream, InFlight)
        BY Facts DEF Streaming
      <3>2. PICK j \in DOMAIN InFlight : Stream[i][1] = InFlight[j]
        BY <3>1, FramedUnit
      <3>3. InFlight[j] = EventFor(w)
        BY <2>1, <3>2
      <3>4. IsEvent(InFlight[j]) /\ InFlight[j].watch = w
        BY <3>3 DEF IsEvent, EventFor, Msg
      <3>. QED
        BY <3>4 DEF Streaming
    <2>2. Stream \in Seq(Unit)
      BY Facts
    <2>. QED
      BY <2>1, <2>2, CountIs
  <1>. QED
    BY <1>1, <1>2, <1>3 DEF Ends

-----------------------------------------------------------------------------
(* The calls of the client.                                                *)

\* XenStoreTalkv() starts to write a request.
LEMMA TalkvStarts ==
    ASSUME IInv, pc = "idle", NEW type, NEW watch, NEW parts,
           \/ type = "XS_READ" /\ watch = None /\ parts = 1
           \/ type \in {"XS_WATCH", "XS_UNWATCH"} /\ watch \in Watches /\ parts = 2,
           XenStoreTalkv(type, watch, parts), UNCHANGED <<Message, req, rsp, server, ReplyList>>,
           type = "XS_WATCH" => watch \notin server.watches
    PROVE  /\ pc' = "write" /\ call'.type = type /\ call'.watch = watch
           /\ call' \in Msgs /\ Data' \in Seq(Seq(Unit))
           /\ Stream' = Stream /\ InFlight' = InFlight /\ Asked' = Asked
           /\ Calling'
  <1>. DEFINE m == call'
  <1>1. m = Msg(type, watch, 1 - call.id, parts) /\ pc' = "write"
    BY DEF XenStoreTalkv
  <1>2. m \in Msgs /\ m.type = type /\ m.watch = watch /\ m.len = parts
    BY <1>1 DEF IInv, Types, Msgs, Msg
  <1>3. Stream' = Stream /\ InFlight' = InFlight /\ Asked' = Asked
    BY DEF Stream, InFlight, Asked
  <1>4. Data' = <<SubSeq(Units(m), 1, HeaderLen)>> \o [k \in 1 .. parts |-> <<Units(m)[HeaderLen + k]>>]
    BY <1>1 DEF XenStoreTalkv, Slice
  <1>. HIDE DEF m
  <1>5. Data' = DataLeft(m, 0) /\ Data' \in Seq(Seq(Unit)) /\ Data' # <<>>
    <2>. DEFINE head == SubSeq(Units(m), 1, HeaderLen)
                rest == [k \in 1 .. parts |-> <<Units(m)[HeaderLen + k]>>]
    <2>1. /\ Units(m) \in Seq(Unit) /\ Len(Units(m)) = 2 + parts /\ parts \in 1 .. 2
      BY <1>2, UnitsAre DEF HeaderLen
    <2>2. head \in Seq(Unit)
      BY <2>1 DEF HeaderLen
    <2>3. \A k \in 1 .. parts : Units(m)[HeaderLen + k] \in Unit
      BY <2>1 DEF HeaderLen
    <2>4. rest \in Seq(Seq(Unit))
      <3>. HIDE DEF head
      <3>1. \A k \in 1 .. parts : <<Units(m)[HeaderLen + k]>> \in Seq(Unit)
        BY <2>3
      <3>. QED
        BY <2>1, <3>1
    <2>5. <<head>> \o rest \in Seq(Seq(Unit)) /\ Len(<<head>> \o rest) = 1 + Len(rest)
      <3>. HIDE DEF head, rest
      <3>. QED
        BY <2>2, <2>4, ConcatProperties
    <2>6. <<head>> \o rest # <<>>
      <3>. HIDE DEF head, rest
      <3>. QED
        BY <2>4, <2>5
    <2>7. DataLeft(m, 0) = <<head>> \o rest
      <3>1. HeaderLen + m.len # 0 /\ PartEnd(0) = HeaderLen /\ HeaderLen + m.len - HeaderLen = parts
        BY <1>2, <2>1 DEF HeaderLen, PartEnd
      <3>2. Singles(m, HeaderLen) = rest
        BY <3>1 DEF Singles
      <3>3. SubSeq(Units(m), 0 + 1, HeaderLen) = head
        OBVIOUS
      <3>. HIDE DEF head, rest
      <3>. QED
        BY <3>1, <3>2, <3>3 DEF DataLeft
    <2>. QED
      BY <1>4, <2>5, <2>6, <2>7
  <1>6. ~server.broken => Asked = <<>>
    BY DEF IInv, Calling, Asking
  <1>7. ReplyList' = <<>> /\ \A j \in DOMAIN InFlight' : IsEvent(InFlight'[j])
    BY <1>3 DEF IInv, Calling, Asking, Up
  <1>8. SubSeq(Units(m), 1, 0) = <<>>
    BY SubSeqEmpty
  <1>9. Unanswered'
    <2>1. 0 \in 0 .. HeaderLen + m.len
      BY <1>2, UnitsAre DEF HeaderLen
    <2>2. ~server'.broken => Asked' = SubSeq(Units(m), 1, 0)
      BY <1>3, <1>6, <1>8
    <2>3. \E p \in 0 .. HeaderLen + m.len :
             Data' = DataLeft(m, p) /\ (~server'.broken => Asked' = SubSeq(Units(m), 1, p))
      BY <1>5, <2>1, <2>2
    <2>4. m.type = "XS_WATCH" => m.watch \notin server'.watches
      BY <1>2
    <2>. QED
      BY <1>1, <1>5, <1>7, <2>3, <2>4 DEF Unanswered, m
  <1>10. Request'
    BY <1>2 DEF Request, m
  <1>11. Calling'
    BY <1>1, <1>9, <1>10 DEF Calling, Asking
  <1>. QED
    BY <1>1, <1>2, <1>3, <1>5, <1>11 DEF m

\* XenStoreInit() drops what is left on the response ring.
LEMMA InitStep == ASSUME IInv, XenStoreInit PROVE IInv'
  <1>1. /\ pc = "down" /\ pc' = "idle" /\ rsp' = [rsp EXCEPT !.cons = rsp.prod]
        /\ WatchEvents' = <<>> /\ ReplyList' = <<>> /\ RegisteredWatches' = {}
        /\ UNCHANGED <<call, Data, Message, Token, closing, live, matched, req, connection, server,
                       undelivered>>
    BY DEF XenStoreInit
  <1>2. rsp' \in Ring /\ rsp'.prod = rsp'.cons
    BY <1>1 DEF IInv, Types, Ring
  <1>3. Filled(rsp') = 0
    BY <1>2, RingIsEmpty
  <1>4. Types'
    <2>1. TypeOK'
      BY <1>1, <1>2 DEF IInv, Types, TypeOK, RingOK, Ring, XenStoreInit
    <2>. QED
      BY <1>1, <1>2, <2>1 DEF IInv, Types
  <1>5. Message' = <<>> /\ server'.out = <<>>
    BY <1>1 DEF IInv, Indices, Up
  <1>6. Stream' = <<>> /\ InFlight' = <<>> /\ Framed(Stream', InFlight')
    <2>1. (Types /\ Message = <<>> /\ Filled(rsp) = 0 /\ server.out = <<>> =>
              Stream = <<>> /\ InFlight = <<>> /\ Framed(Stream, InFlight))'
      BY NothingInFlight, PTL
    <2>. QED
      BY <1>3, <1>4, <1>5, <2>1
  <1>7. call.type = None /\ RegisteredWatches = {} /\ live = {} /\ server.watches = {}
    BY <1>1 DEF IInv, Control, Calling, Asking, Up, None
  <1>8. Control'
    BY <1>1, <1>7 DEF IInv, Control, Up, None
  <1>9. Indices'
    BY <1>1, <1>3, <1>5, XenStoreAssumption DEF IInv, Indices, Up
  <1>10. Asked' = Asked
    BY <1>1 DEF Asked
  <1>11. Calling'
    BY <1>1, <1>6, <1>10 DEF IInv, Calling, Asking, Up
  <1>12. Streaming'
    BY <1>5, <1>6 DEF Streaming, HeaderLen
  <1>13. Accounting'
    BY <1>1, <1>7 DEF IInv, Accounting, Leaving, None
  <1>. QED
    BY <1>1, <1>4, <1>8, <1>9, <1>11, <1>12, <1>13 DEF IInv

\* Read, Write, Remove and the others that send one request.
LEMMA SingleStep == ASSUME IInv, XenStoreSingle PROVE IInv'
  <1>1. /\ pc = "idle" /\ XenStoreTalkv("XS_READ", None, 1)
        /\ UNCHANGED <<Message, Token, closing, lists, matched, EventChannelEvent, req, rsp,
                       connection, server, undelivered>>
    BY DEF XenStoreSingle
  <1>2. /\ pc' = "write" /\ call'.type = "XS_READ" /\ call' \in Msgs /\ Data' \in Seq(Seq(Unit))
        /\ Stream' = Stream /\ InFlight' = InFlight /\ Calling'
    <2>1. UNCHANGED <<Message, req, rsp, server, ReplyList>>
      BY <1>1 DEF lists
    <2>. QED
      BY <1>1, <2>1, TalkvStarts
  <1>3. call.type = None /\ \A j \in DOMAIN InFlight : IsEvent(InFlight[j])
    BY <1>1 DEF IInv, Calling, Asking, Up
  <1>4. Types'
    BY <1>1, <1>2 DEF IInv, Types, TypeOK, RingOK, lists
  <1>5. Control'
    BY <1>1, <1>2, <1>3 DEF IInv, Control, Up, lists, None
  <1>6. Indices'
    BY <1>1, <1>2 DEF IInv, Indices, Up, lists
  <1>7. Streaming'
    BY <1>1, <1>2, <1>3 DEF IInv, Streaming, Up, Leaving, None
  <1>8. Accounting'
    BY <1>1, <1>2, <1>3 DEF IInv, Accounting, Leaving, None, lists
  <1>. QED
    BY <1>1, <1>2, <1>4, <1>5, <1>6, <1>7, <1>8 DEF IInv

\* A new watch is on the list before the service knows of it.
LEMMA RegisterStep == ASSUME IInv, NEW w \in Watches, XenStoreRegisterWatch(w) PROVE IInv'
  <1>1. /\ pc = "idle" /\ w \notin live /\ live' = live \cup {w}
        /\ RegisteredWatches' = RegisteredWatches \cup {w}
        /\ XenStoreTalkv("XS_WATCH", w, 2)
        /\ UNCHANGED <<Message, Token, closing, WatchEvents, ReplyList, matched, EventChannelEvent,
                       req, rsp, connection, server, undelivered>>
    BY DEF XenStoreRegisterWatch
  <1>2. call.type = None /\ \A j \in DOMAIN InFlight : IsEvent(InFlight[j])
    BY <1>1 DEF IInv, Calling, Asking, Up
  <1>3. w \notin server.watches /\ live = RegisteredWatches
    BY <1>1, <1>2 DEF IInv, Control, None
  <1>4. /\ pc' = "write" /\ call'.type = "XS_WATCH" /\ call'.watch = w
        /\ call' \in Msgs /\ Data' \in Seq(Seq(Unit))
        /\ Stream' = Stream /\ InFlight' = InFlight /\ Calling'
    BY <1>1, <1>3, TalkvStarts
  <1>5. Types'
    BY <1>1, <1>4 DEF IInv, Types, TypeOK, RingOK
  <1>6. Control'
    BY <1>1, <1>2, <1>3, <1>4 DEF IInv, Control, Up, None
  <1>7. Indices'
    BY <1>1, <1>4 DEF IInv, Indices, Up
  <1>8. Streaming'
    BY <1>1, <1>2, <1>4 DEF IInv, Streaming, Up, Leaving, None
  <1>9. Accounting'
    <2>1. undelivered[w] = 0 /\ Ends(w, Stream) = 0 /\ Count(w, WatchEvents) = 0
      BY <1>1, <1>2, <1>3, NoEventOf DEF IInv, Up, Leaving, None
    <2>2. \A v \in RegisteredWatches' :
             undelivered'[v] = Ends(v, Stream') + Count(v, WatchEvents')
      BY <1>1, <1>4, <2>1 DEF IInv, Accounting
    <2>. QED
      BY <1>1, <1>2, <1>4, <2>2 DEF IInv, Accounting, Leaving, None
  <1>. QED
    BY <1>1, <1>4, <1>5, <1>6, <1>7, <1>8, <1>9 DEF IInv

\* A watch is off the list before the service is told, and freed after.
LEMMA UnregisterStep == ASSUME IInv, NEW w \in Watches, XenStoreUnregisterWatch(w) PROVE IInv'
  <1>1. /\ pc = "idle" /\ w \in RegisteredWatches
        /\ RegisteredWatches' = RegisteredWatches \ {w}
        /\ XenStoreTalkv("XS_UNWATCH", w, 2)
        /\ UNCHANGED <<Message, Token, closing, live, WatchEvents, ReplyList, matched,
                       EventChannelEvent, req, rsp, connection, server, undelivered>>
    BY DEF XenStoreUnregisterWatch
  <1>2. call.type = None /\ \A j \in DOMAIN InFlight : IsEvent(InFlight[j])
    BY <1>1 DEF IInv, Calling, Asking, Up
  <1>3. live = RegisteredWatches
    BY <1>1, <1>2 DEF IInv, Control, None
  <1>4. /\ pc' = "write" /\ call'.type = "XS_UNWATCH" /\ call'.watch = w
        /\ call' \in Msgs /\ Data' \in Seq(Seq(Unit))
        /\ Stream' = Stream /\ InFlight' = InFlight /\ Calling'
    BY <1>1, <1>3, TalkvStarts
  <1>5. Types'
    BY <1>1, <1>4 DEF IInv, Types, TypeOK, RingOK
  <1>6. Control'
    BY <1>1, <1>2, <1>3, <1>4 DEF IInv, Control, Up, None
  <1>7. Indices'
    BY <1>1, <1>4 DEF IInv, Indices, Up
  <1>8. Streaming'
    BY <1>1, <1>2, <1>4 DEF IInv, Streaming, Up, Leaving, None
  <1>9. Accounting'
    BY <1>1, <1>2, <1>4 DEF IInv, Accounting, Leaving, None
  <1>. QED
    BY <1>1, <1>4, <1>5, <1>6, <1>7, <1>8, <1>9 DEF IInv

\* A step that changes nothing.
LEMMA StutterStep == ASSUME IInv, UNCHANGED vars PROVE IInv'
  <1>1. /\ UNCHANGED <<pc, call, Data, Message, Token, closing, live, RegisteredWatches, WatchEvents,
                       ReplyList, matched, EventChannelEvent, req, rsp, connection, server,
                       undelivered>>
    BY DEF vars, client, lists
  <1>2. Stream' = Stream /\ InFlight' = InFlight /\ Asked' = Asked
    BY <1>1 DEF Stream, InFlight, Asked
  <1>3. Types' /\ Control' /\ Indices'
    BY <1>1 DEF IInv, Types, TypeOK, RingOK, Control, Indices, Up
  <1>4. Calling' /\ Streaming' /\ Accounting'
    BY <1>1, <1>2 DEF IInv, Calling, Asking, Request, Unanswered, Answered, Outcome, Streaming,
                      Accounting, Leaving, Up
  <1>. QED
    BY <1>1, <1>3, <1>4 DEF IInv

\* XenStoreWaitWatch() waits for a registered watch.
LEMMA WaitWatchStep == ASSUME IInv, NEW w \in Watches, XenStoreWaitWatch(w) PROVE IInv'
  <1>1. /\ pc = "idle" /\ w \in RegisteredWatches /\ pc' = "waitwatch" /\ Token' = w
        /\ UNCHANGED <<call, Data, Message, closing, live, RegisteredWatches, WatchEvents, ReplyList,
                       matched, EventChannelEvent, req, rsp, connection, server, undelivered>>
    BY DEF XenStoreWaitWatch, lists
  <1>2. Stream' = Stream /\ InFlight' = InFlight /\ Asked' = Asked
    BY <1>1 DEF Stream, InFlight, Asked
  <1>3. Types' /\ Control' /\ Indices'
    BY <1>1 DEF IInv, Types, TypeOK, RingOK, Control, Indices, Up
  <1>4. Calling' /\ Streaming' /\ Accounting'
    BY <1>1, <1>2 DEF IInv, Calling, Asking, Streaming, Accounting, Leaving, Up
  <1>. QED
    BY <1>1, <1>3, <1>4 DEF IInv

\* It returns with the first event of its watch.
LEMMA WaitReturnsStep == ASSUME IInv, WaitWatchReturns PROVE IInv'
  <1>1. PICK i \in DOMAIN WatchEvents : WatchEvents[i] = Token /\ WatchEvents' = RemoveAt(WatchEvents, i)
    BY DEF WaitWatchReturns
  <1>2. /\ pc = "waitwatch" /\ pc' = "idle" /\ Token' = None
        /\ undelivered' = [undelivered EXCEPT ![Token] = @ - 1]
        /\ UNCHANGED <<call, Data, Message, closing, live, RegisteredWatches, ReplyList, matched,
                       EventChannelEvent, req, rsp, connection, server>>
    BY DEF WaitWatchReturns
  <1>3. Token \in RegisteredWatches /\ Token \in Watches
    BY <1>2, Facts DEF IInv, Control
  <1>4. WatchEvents \in Seq(Watches) /\ i \in 1 .. Len(WatchEvents)
    BY Facts DEF IInv
  <1>5. /\ WatchEvents' \in Seq(Watches) /\ Count(Token, WatchEvents) > 0
        /\ Count(Token, WatchEvents') = Count(Token, WatchEvents) - 1
        /\ \A y : y # Token => Count(y, WatchEvents') = Count(y, WatchEvents)
    BY <1>1, <1>4, RemoveAtIs
  <1>6. Stream' = Stream /\ InFlight' = InFlight /\ Asked' = Asked
    BY <1>2 DEF Stream, InFlight, Asked
  <1>7. \A y : Count(y, WatchEvents) \in Nat /\ Count(y, WatchEvents') \in Nat
    BY <1>4, <1>5, CountIs, Zenon
  <1>8. \A y : Ends(y, Stream) \in Nat
    <2>1. Stream \in Seq(Unit)
      BY Facts DEF IInv
    <2>. QED
      BY <2>1, CountIs, Zenon DEF Ends
  <1>9. undelivered \in [Watches -> 0 .. MaxEvents] /\ MaxEvents \in Nat
    BY Facts, XenStoreAssumption DEF IInv
  <1>10. undelivered[Token] = Ends(Token, Stream) + Count(Token, WatchEvents)
    BY <1>3 DEF IInv, Accounting
  <1>11. undelivered[Token] \in 1 .. MaxEvents
    BY <1>3, <1>5, <1>7, <1>8, <1>9, <1>10
  <1>12. undelivered' \in [Watches -> 0 .. MaxEvents]
    <2>1. undelivered[Token] - 1 \in 0 .. MaxEvents
      BY <1>9, <1>11
    <2>. QED
      BY <1>2, <1>3, <1>9, <2>1
  <1>13. Types'
    BY <1>2, <1>5, <1>12 DEF IInv, Types, TypeOK, RingOK
  <1>14. Control' /\ Indices'
    BY <1>2 DEF IInv, Control, Indices, Up
  <1>15. Calling' /\ Streaming'
    BY <1>2, <1>6 DEF IInv, Calling, Asking, Streaming, Leaving, Up
  <1>16. Accounting'
    <2>1. ASSUME NEW j \in DOMAIN WatchEvents'
          PROVE  (WatchEvents[j] \in server.watches \/ Leaving(WatchEvents[j]))'
      <3>. DEFINE y == WatchEvents'[j]
      <3>1. Count(y, WatchEvents') # 0
        BY <1>5, CountIs
      <3>2. Count(y, WatchEvents) # 0
        <4>1. CASE y = Token
          BY <1>5, <1>7, <4>1
        <4>2. CASE y # Token
          BY <1>5, <3>1, <4>2
        <4>. QED
          BY <4>1, <4>2
      <3>. HIDE DEF y
      <3>3. PICK k \in DOMAIN WatchEvents : WatchEvents[k] = y
        BY <1>4, <3>2, CountIs
      <3>4. y \in server.watches \/ Leaving(y)
        BY <3>3 DEF IInv, Accounting
      <3>. QED
        BY <1>2, <3>4 DEF Leaving, y
    <2>2. ASSUME NEW w \in Watches, undelivered'[w] # 0 PROVE (w \in server.watches \/ Leaving(w))'
      <3>1. undelivered[w] # 0
        BY <1>2, <1>9, <1>11, <2>2
      <3>. QED
        BY <1>2, <3>1 DEF IInv, Accounting, Leaving
    <2>3. ASSUME NEW w \in RegisteredWatches'
          PROVE  undelivered'[w] = Ends(w, Stream') + Count(w, WatchEvents')
      <3>1. w \in Watches /\ w \in RegisteredWatches
        BY <1>2, Facts DEF IInv
      <3>2. undelivered[w] = Ends(w, Stream) + Count(w, WatchEvents)
        BY <3>1 DEF IInv, Accounting
      <3>3. undelivered'[w] = IF w = Token THEN undelivered[w] - 1 ELSE undelivered[w]
        BY <1>2, <1>9, <3>1
      <3>. QED
        BY <1>5, <1>6, <1>7, <1>8, <3>2, <3>3
    <2>. QED
      BY <2>1, <2>2, <2>3 DEF Accounting
  <1>. QED
    BY <1>2, <1>13, <1>14, <1>15, <1>16 DEF IInv

\* XenStoreDeinit() begins.
LEMMA DeinitStep == ASSUME IInv, XenStoreDeinit PROVE IInv'
  <1>1. /\ pc = "idle" /\ closing' \in {"TPL_APPLICATION", "TPL_CALLBACK"}
        /\ UNCHANGED <<pc, call, Data, Message, Token, live, RegisteredWatches, WatchEvents, ReplyList,
                       matched, EventChannelEvent, req, rsp, connection, server, undelivered>>
    BY DEF XenStoreDeinit, lists
  <1>2. Stream' = Stream /\ InFlight' = InFlight /\ Asked' = Asked
    BY <1>1 DEF Stream, InFlight, Asked
  <1>3. Types' /\ Control' /\ Indices'
    BY <1>1 DEF IInv, Types, TypeOK, RingOK, Control, Indices, Up
  <1>4. Calling' /\ Streaming' /\ Accounting'
    BY <1>1, <1>2 DEF IInv, Calling, Asking, Streaming, Accounting, Leaving, Up
  <1>. QED
    BY <1>1, <1>3, <1>4 DEF IInv

\* When no watch is left, nothing is on its way to the client.
LEMMA NoWatchNoEvent ==
    ASSUME IInv, pc = "idle", RegisteredWatches = {}
    PROVE  /\ live = {} /\ server.watches = {} /\ Filled(rsp) = 0
           /\ Message = <<>> /\ server.out = <<>>
  <1>1. call.type = None /\ \A j \in DOMAIN InFlight : IsEvent(InFlight[j])
    BY DEF IInv, Calling, Asking, Up
  <1>2. live = {} /\ server.watches = {}
    BY <1>1 DEF IInv, Control, None
  <1>3. InFlight \in Seq(Msgs) /\ Stream \in Seq(Unit) /\ Framed(Stream, InFlight)
    BY Facts DEF IInv, Streaming, Up
  <1>4. \A j \in DOMAIN InFlight : FALSE
    BY <1>1, <1>2 DEF IInv, Streaming, Up, Leaving, None
  <1>5. InFlight = <<>>
    BY <1>3, <1>4
  <1>6. Stream = <<>>
    BY <1>3, <1>5, FramedIs DEF InFlight
  <1>7. /\ Message \in Seq(Unit) /\ InRing(rsp) \in Seq(Unit) /\ server.out \in Seq(Unit)
        /\ InRing(rsp) \o server.out \in Seq(Unit)
    BY Facts DEF IInv, Types
  <1>8. Message = <<>> /\ InRing(rsp) \o server.out = <<>>
    BY <1>6, <1>7, ConcatEmptySeq DEF Stream
  <1>9. InRing(rsp) = <<>> /\ server.out = <<>>
    BY <1>7, <1>8, ConcatEmptySeq
  <1>10. Filled(rsp) = 0
    BY <1>9, InRingIs DEF IInv, Types
  <1>. QED
    BY <1>2, <1>8, <1>9, <1>10

\* The lists are emptied; the service is asked to reconnect, or the rings are erased.
LEMMA DeinitListsStep == ASSUME IInv, DeinitLists PROVE IInv'
  <1>1. /\ pc = "idle" /\ RegisteredWatches = {}
        /\ WatchEvents' = <<>> /\ ReplyList' = <<>> /\ EventChannelEvent' = "closed"
        /\ UNCHANGED <<call, Data, Message, Token, closing, live, RegisteredWatches, matched,
                       undelivered>>
    BY DEF DeinitLists
  <1>2. /\ live = {} /\ server.watches = {} /\ Filled(rsp) = 0
        /\ Message = <<>> /\ server.out = <<>>
    BY <1>1, NoWatchNoEvent
  <1>3. /\ call.type = None /\ Data = <<>> /\ (~server.broken => Asked = <<>>)
    BY <1>1 DEF IInv, Calling, Asking
  <1>4. ~server.broken => server.in = <<>>
    <2>1. server.in \in Seq(Unit) /\ InRing(req) \in Seq(Unit)
      BY Facts DEF IInv
    <2>. QED
      BY <1>3, <2>1, ConcatEmptySeq DEF Asked
  <1>5. server \in Service /\ req \in Ring /\ rsp \in Ring
    BY DEF IInv, Types
  <1>6. /\ server' \in Service /\ server'.watches = {} /\ server'.out = <<>>
        /\ server'.broken = server.broken /\ server'.in = server.in
        /\ server'.reconnects = server.reconnects
    <2>1. CASE server' = server
      BY <1>2, <1>5, <2>1
    <2>2. CASE server' = Notify
      BY <1>2, <1>5, <2>2 DEF Notify, Service
    <2>. QED
      BY <2>1, <2>2 DEF DeinitLists
  <1>7. CASE server.reconnects
    <2>1. pc' = "reconnect" /\ connection' = TRUE /\ UNCHANGED <<req, rsp>>
      BY <1>7 DEF DeinitLists
    <2>2. Types'
      BY <1>1, <1>5, <1>6, <2>1 DEF IInv, Types, TypeOK, RingOK
    <2>3. Control'
      BY <1>1, <1>2, <1>3, <1>6, <2>1 DEF IInv, Control, Up, None
    <2>4. Indices'
      BY <1>1, <1>2, <1>4, <1>6, <2>1 DEF IInv, Indices, Up
    <2>5. Calling'
      <3>1. Asked' = Asked
        BY <1>6, <2>1 DEF Asked
      <3>. QED
        BY <1>1, <1>3, <1>6, <2>1, <3>1 DEF Calling, Asking, Up
    <2>6. Streaming'
      BY <2>1 DEF Streaming, Up
    <2>7. Accounting'
      BY <1>1, <1>6, <1>2 DEF IInv, Accounting, Leaving
    <2>. QED
      BY <1>1, <2>2, <2>3, <2>4, <2>5, <2>6, <2>7 DEF IInv
  <1>8. CASE ~server.reconnects
    <2>1. /\ pc' = "erase" /\ UNCHANGED connection
          /\ req' = [req EXCEPT !.data = EmptyRing.data, !.prod = 0]
          /\ rsp' = [rsp EXCEPT !.data = EmptyRing.data]
      BY <1>8 DEF DeinitLists
    <2>2. EmptyRing.data = [i \in 0 .. RING_SIZE - 1 |-> Garbage] /\ Garbage \in Unit
      BY DEF EmptyRing, Garbage, Unit, Msgs, Msg, None
    <2>3. /\ req' \in Ring /\ rsp' \in Ring /\ rsp'.prod = rsp.prod /\ rsp'.cons = rsp.cons
          /\ req'.prod = 0 /\ \A i \in 0 .. RING_SIZE - 1 : req'.data[i] = Garbage
      <3>1. EmptyRing.data \in [0 .. RING_SIZE - 1 -> Unit] /\ 0 \in 0 .. IdxMod - 1
        BY <2>2, XenStoreAssumption
      <3>2. /\ req' \in Ring /\ rsp' \in Ring /\ rsp'.prod = rsp.prod /\ rsp'.cons = rsp.cons
            /\ req'.prod = 0 /\ req'.data = EmptyRing.data
        BY <1>5, <2>1, <3>1 DEF Ring
      <3>. QED
        BY <2>2, <3>2
    <2>4. Filled(rsp') = 0
      BY <1>2, <2>3 DEF Filled
    <2>5. Types'
      <3>1. RingOK(req') /\ RingOK(rsp')
        BY <2>3 DEF RingOK, Ring
      <3>. QED
        BY <1>1, <1>6, <2>1, <2>3, <3>1 DEF IInv, Types, TypeOK
    <2>6. Control'
      BY <1>1, <1>2, <1>3, <1>6, <1>8, <2>1 DEF IInv, Control, Up, None
    <2>7. Indices'
      BY <1>1, <1>2, <1>4, <1>6, <2>1, <2>3, <2>4 DEF Indices, Up
    <2>8. Calling' /\ Streaming'
      BY <1>1, <1>3, <2>1 DEF Calling, Asking, Streaming, Up
    <2>9. Accounting'
      BY <1>1, <1>6, <1>2 DEF IInv, Accounting, Leaving
    <2>. QED
      BY <1>1, <2>5, <2>6, <2>7, <2>8, <2>9 DEF IInv
  <1>. QED
    BY <1>7, <1>8

\* The indices are cleared one after the other.
LEMMA DeinitEraseStep == ASSUME IInv, DeinitErase PROVE IInv'
  <1>1. /\ UNCHANGED <<call, Data, Message, Token, live, RegisteredWatches, WatchEvents, ReplyList,
                       matched, EventChannelEvent, connection, server, undelivered>>
        /\ closing' \in {None, closing} /\ pc \in {"erase", "erase2", "erase3"}
        /\ pc' \in {"erase2", "erase3", "down"}
    BY DEF DeinitErase, lists
  <1>2. req \in Ring /\ rsp \in Ring /\ 0 \in 0 .. IdxMod - 1 /\ RING_SIZE \in Nat
    BY XenStoreAssumption DEF IInv, Types
  <1>3. /\ req' \in Ring /\ rsp' \in Ring /\ Filled(req') <= RING_SIZE
        /\ pc' = "erase2" => Filled(rsp') = 0
        /\ ~server.broken => InRing(req') = <<>> /\ server.in = <<>>
    <2>1. ~server.broken => server.in = <<>>
      BY <1>1 DEF IInv, Indices, Up
    <2>2. CASE pc = "erase"
      <3>1. req' = [req EXCEPT !.cons = 0] /\ rsp' = rsp
        BY <2>2 DEF DeinitErase
      <3>2. req.prod = 0 /\ Filled(rsp) = 0
        BY <2>2 DEF IInv, Indices, Up
      <3>3. req' \in Ring /\ req'.prod = req'.cons
        BY <1>2, <3>1, <3>2 DEF Ring
      <3>4. Filled(req') = 0 /\ InRing(req') = <<>>
        BY <3>3, RingIsEmpty
      <3>. QED
        BY <1>2, <2>1, <3>1, <3>2, <3>3, <3>4
    <2>3. CASE pc # "erase"
      <3>1. req' = req /\ pc' # "erase2"
        BY <1>1, <2>3 DEF DeinitErase
      <3>2. rsp' \in Ring
        <4>1. rsp' = [rsp EXCEPT !.prod = 0] \/ rsp' = [rsp EXCEPT !.cons = 0]
          BY <1>1, <2>3 DEF DeinitErase
        <4>. QED
          BY <1>2, <4>1 DEF Ring
      <3>3. Filled(req) <= RING_SIZE
        BY <2>3 DEF IInv, Indices
      <3>4. ~server.broken => Asked = <<>>
        BY <1>1, <2>3 DEF IInv, Calling, Asking
      <3>5. ~server.broken => InRing(req) = <<>>
        <4>1. server.in \in Seq(Unit) /\ InRing(req) \in Seq(Unit)
          BY Facts DEF IInv
        <4>. QED
          BY <3>4, <4>1, ConcatEmptySeq DEF Asked
      <3>. QED
        BY <1>2, <2>1, <3>1, <3>2, <3>3, <3>5
    <2>. QED
      BY <2>2, <2>3
  <1>4. ~server.broken => Asked' = <<>>
    <2>1. Asked' = server.in \o InRing(req')
      BY <1>1 DEF Asked, InRing, Peek, Filled
    <2>2. <<>> \o <<>> = <<>>
      OBVIOUS
    <2>. QED
      BY <1>3, <2>1, <2>2
  <1>5. Types'
    <2>1. RingOK(req') /\ RingOK(rsp')
      BY <1>3 DEF RingOK, Ring
    <2>. QED
      BY <1>1, <1>3, <2>1 DEF IInv, Types, TypeOK
  <1>6. Control'
    BY <1>1 DEF IInv, Control, Up
  <1>7. Indices'
    BY <1>1, <1>3 DEF IInv, Indices, Up
  <1>8. Calling' /\ Streaming' /\ Accounting'
    <2>1. Calling' /\ Streaming'
      BY <1>1, <1>4 DEF IInv, Calling, Asking, Streaming, Up
    <2>2. Accounting'
      BY <1>1 DEF IInv, Accounting, Leaving, Control, Up
    <2>. QED
      BY <2>1, <2>2
  <1>. QED
    BY <1>1, <1>5, <1>6, <1>7, <1>8 DEF IInv

\* The loop of XenStoreDeinit() that waits for the service, and its end.
LEMMA DeinitWaitStep == ASSUME IInv, DeinitWait \/ DeinitDone PROVE IInv'
  <1>1. /\ UNCHANGED <<call, Data, Message, Token, live, RegisteredWatches, WatchEvents, ReplyList,
                       matched, EventChannelEvent, req, rsp, connection, server, undelivered>>
        /\ closing' \in {None, closing} /\ pc \in {"reconnect", "wait"}
        /\ pc' \in {"reconnect", "wait", "down"} /\ (pc' = "down" => ~connection)
    BY DEF DeinitWait, DeinitDone, lists
  <1>2. Asked' = Asked
    BY <1>1 DEF Asked
  <1>3. Types' /\ Control' /\ Indices'
    BY <1>1 DEF IInv, Types, TypeOK, RingOK, Control, Indices, Up
  <1>4. Calling' /\ Streaming'
    BY <1>1, <1>2 DEF IInv, Calling, Asking, Streaming, Up
  <1>5. Accounting'
    BY <1>1 DEF IInv, Accounting, Leaving, Control, Up
  <1>. QED
    BY <1>1, <1>3, <1>4, <1>5 DEF IInv

-----------------------------------------------------------------------------
(* The service.                                                            *)

\* It starts over, which is what XenStoreDeinit() waits for.
LEMMA ReconnectStep == ASSUME IInv, ServerReconnect PROVE IInv'
  <1>1. /\ connection /\ connection' = FALSE /\ req' = EmptyRing /\ rsp' = EmptyRing
        /\ server' = [server EXCEPT !.in = <<>>, !.out = <<>>, !.watches = {}]
        /\ UNCHANGED <<pc, call, Data, Message, Token, closing, live, RegisteredWatches, WatchEvents,
                       ReplyList, matched, EventChannelEvent, undelivered>>
    BY DEF ServerReconnect, client, lists
  <1>2. pc \in {"reconnect", "wait"}
    BY <1>1 DEF IInv, Control
  <1>3. EmptyRing \in Ring
    BY EmptyIs
  <1>4. Filled(EmptyRing) = 0 /\ InRing(EmptyRing) = <<>>
    BY EmptyIs
  <1>5. /\ server' \in Service /\ server'.in = <<>> /\ server'.out = <<>> /\ server'.watches = {}
        /\ server'.broken = server.broken /\ server'.reconnects = server.reconnects
    <2>1. <<>> \in Seq(Unit) /\ {} \in SUBSET Watches
      OBVIOUS
    <2>. QED
      BY <1>1, <2>1 DEF IInv, Types, Service
  <1>6. Types'
    <2>1. RingOK(req') /\ RingOK(rsp')
      BY <1>1, <1>3 DEF RingOK, Ring
    <2>. QED
      BY <1>1, <1>3, <1>5, <2>1 DEF IInv, Types, TypeOK
  <1>7. Control'
    BY <1>1, <1>5 DEF IInv, Control, Up
  <1>8. Indices'
    BY <1>1, <1>2, <1>4, <1>5, XenStoreAssumption DEF IInv, Indices, Up
  <1>9. Asked' = <<>>
    <2>1. Asked' = server'.in \o InRing(req')
      BY DEF Asked, InRing, Peek, Filled
    <2>2. <<>> \o <<>> = <<>>
      OBVIOUS
    <2>. QED
      BY <1>1, <1>4, <1>5, <2>1, <2>2
  <1>10. Calling' /\ Streaming'
    BY <1>1, <1>2, <1>9 DEF IInv, Calling, Asking, Streaming, Up
  <1>11. Accounting'
    <2>1. WatchEvents = <<>> /\ server.watches = {} /\ RegisteredWatches = {}
      BY <1>2 DEF IInv, Indices, Control, Up
    <2>. QED
      BY <1>1, <1>5, <2>1 DEF IInv, Accounting, Leaving
  <1>. QED
    BY <1>1, <1>6, <1>7, <1>8, <1>10, <1>11 DEF IInv

\* It goes to sleep, or gives up on indices that are out of range.
LEMMA SleepStep == ASSUME IInv, ServerSleep \/ ServerBreaks PROVE IInv'
  <1>1. /\ \/ server' = [server EXCEPT !.awake = FALSE]
           \/ server' = [server EXCEPT !.broken = TRUE] /\ ~CheckIndexes(req)
        /\ UNCHANGED <<pc, call, Data, Message, Token, closing, live, RegisteredWatches, WatchEvents,
                       ReplyList, matched, EventChannelEvent, req, rsp, connection, undelivered>>
    BY DEF ServerSleep, ServerBreaks, client, lists
  <1>2. /\ server' \in Service /\ server'.in = server.in /\ server'.out = server.out
        /\ server'.watches = server.watches /\ server'.reconnects = server.reconnects
        /\ \/ server'.broken = server.broken
           \/ pc = "erase" /\ server'.broken = TRUE
    <2>1. CASE server' = [server EXCEPT !.awake = FALSE]
      BY <2>1 DEF IInv, Types, Service
    <2>2. CASE server' = [server EXCEPT !.broken = TRUE] /\ ~CheckIndexes(req)
      <3>1. pc = "erase"
        BY <2>2 DEF IInv, Indices, CheckIndexes
      <3>. QED
        BY <2>2, <3>1 DEF IInv, Types, Service
    <2>. QED
      BY <1>1, <2>1, <2>2
  <1>3. Stream' = Stream /\ InFlight' = InFlight /\ Asked' = Asked
    BY <1>1, <1>2 DEF Stream, InFlight, Asked
  <1>4. Types'
    BY <1>1, <1>2 DEF IInv, Types, TypeOK, RingOK
  <1>5. Control' /\ Indices'
    BY <1>1, <1>2 DEF IInv, Control, Indices, Up
  <1>6. Calling'
    BY <1>1, <1>2, <1>3 DEF IInv, Calling, Asking, Request, Unanswered, Answered, Outcome, Up
  <1>7. Streaming' /\ Accounting'
    BY <1>1, <1>2, <1>3 DEF IInv, Streaming, Accounting, Leaving, Up
  <1>. QED
    BY <1>1, <1>4, <1>5, <1>6, <1>7 DEF IInv

\* A message with a body of one unit ends an event iff it is one.
LEMMA UnitsEnd ==
    ASSUME NEW m \in Msgs, m.len = 1, NEW w
    PROVE  Ends(w, Units(m)) = IF m = EventFor(w) THEN 1 ELSE 0
  <1>. DEFINE e == EventFor(w)
  <1>1. /\ Units(m) \in Seq(Unit) /\ Len(Units(m)) = 3
        /\ \A k \in 1 .. 3 : Units(m)[k] = <<m, k>>
    <2>1. HeaderLen + m.len = 3
      BY DEF HeaderLen
    <2>. QED
      BY <2>1, UnitsAre
  <1>2. Ends(w, Units(m)) = Cardinality(Places(<<e, 3>>, Units(m)))
    BY DEF Ends, Count, MsgLen, HeaderLen
  <1>. HIDE DEF e
  <1>3. DOMAIN Units(m) = 1 .. 3
    BY <1>1
  <1>4. CASE m = e
    <2>1. Places(<<e, 3>>, Units(m)) = {3}
      BY <1>1, <1>3, <1>4 DEF Places
    <2>. QED
      BY <1>2, <1>4, <2>1, FS_Singleton DEF e
  <1>5. CASE m # e
    <2>1. Places(<<e, 3>>, Units(m)) = {}
      BY <1>1, <1>3, <1>5 DEF Places
    <2>. QED
      BY <1>2, <1>5, <2>1, FS_EmptySet DEF e
  <1>. QED
    BY <1>4, <1>5

\* What Send() does to the stream.
LEMMA Sent ==
    ASSUME NEW s \in Seq(Unit), Framed(s, Carried(s)), NEW m \in Msgs, m.len = 1,
           NEW u, Split(u, s, Units(m))
    PROVE  /\ u \in Seq(Unit) /\ Carried(u) = Append(Carried(s), m) /\ Framed(u, Carried(u))
           /\ \A w : Ends(w, u) = Ends(w, s) + (IF m = EventFor(w) THEN 1 ELSE 0)
  <1>1. Units(m) \in Seq(Unit)
    BY UnitsAre
  <1>2. \A w : Ends(w, s \o Units(m)) = Ends(w, s) + Ends(w, Units(m))
    BY <1>1, CountConcat, Zenon DEF Ends
  <1>3. \A w : Ends(w, Units(m)) = IF m = EventFor(w) THEN 1 ELSE 0
    BY UnitsEnd, Zenon
  <1>4. \A w : Ends(w, u) = Ends(w, s) + (IF m = EventFor(w) THEN 1 ELSE 0)
    BY <1>2, <1>3, Zenon DEF Split
  <1>5. /\ s \o Units(m) \in Seq(Unit)
        /\ Carried(s \o Units(m)) = Append(Carried(s), m)
        /\ Framed(s \o Units(m), Carried(s \o Units(m)))
    BY FramedSend
  <1>. QED
    BY <1>4, <1>5, Zenon DEF Split

\* Units are put together in any order.
LEMMA Associative ==
    \A a, b, c \in Seq(Unit) : a \o (b \o c) = (a \o b) \o c
  <1>. SUFFICES ASSUME NEW a \in Seq(Unit), NEW b \in Seq(Unit), NEW c \in Seq(Unit)
               PROVE  (a \o b) \o c = a \o (b \o c)
    OBVIOUS
  <1>. QED
    BY ConcatAssociative

\* What is added to the service's output is added to the stream.
LEMMA OutGrows ==
    ASSUME Types, NEW t \in Seq(Unit), server'.out = server.out \o t, UNCHANGED <<Message, rsp>>
    PROVE  Split(Stream', Stream, t)
  <1>. DEFINE r == InRing(rsp)
              o == server.out
  <1>1. Message \in Seq(Unit) /\ r \in Seq(Unit) /\ o \in Seq(Unit) /\ r \o o \in Seq(Unit)
    BY Facts DEF Types
  <1>2. Stream = Message \o (r \o o) /\ Stream' = Message \o (r \o (o \o t))
    BY DEF Stream
  <1>. HIDE DEF r, o
  <1>3. r \o (o \o t) = (r \o o) \o t
    BY <1>1, Associative, Zenon
  <1>4. Message \o ((r \o o) \o t) = (Message \o (r \o o)) \o t
    BY <1>1, Associative, Zenon
  <1>. QED
    BY <1>2, <1>3, <1>4, Zenon DEF Split

\* Another domain changes a watched node.
LEMMA FireStep == ASSUME IInv, NEW w \in Watches, ServerFire(w) PROVE IInv'
  <1>. DEFINE e == EventFor(w)
  <1>1. /\ w \in server.watches /\ undelivered[w] < MaxEvents
        /\ undelivered' = [undelivered EXCEPT ![w] = @ + 1]
        /\ server' = [server EXCEPT !.out = server.out \o Units(e), !.awake = TRUE]
        /\ UNCHANGED <<pc, call, Data, Message, Token, closing, live, RegisteredWatches, WatchEvents,
                       ReplyList, matched, EventChannelEvent, req, rsp, connection>>
    BY DEF ServerFire, Send, client, lists
  <1>2. Up /\ ~server.broken
    BY <1>1 DEF IInv, Indices
  <1>3. e \in Msgs /\ e.len = 1 /\ IsEvent(e) /\ e.watch = w
    BY DEF EventFor, Msg, Msgs, IsEvent
  <1>4. \A v : e = EventFor(v) <=> v = w
    BY DEF EventFor, Msg
  <1>. HIDE DEF e
  <1>5. /\ server.out \in Seq(Unit) /\ Units(e) \in Seq(Unit) /\ server.out \o Units(e) \in Seq(Unit)
    BY <1>3, Facts, UnitsAre, ConcatProperties DEF IInv
  <1>6. /\ server' \in Service /\ server'.out = server.out \o Units(e) /\ server'.in = server.in
        /\ server'.watches = server.watches /\ server'.reconnects = server.reconnects
        /\ server'.broken = server.broken
    <2>. DEFINE o == server.out \o Units(e)
    <2>1. o \in Seq(Unit) /\ server' = [server EXCEPT !.out = o, !.awake = TRUE]
      BY <1>1, <1>5
    <2>. HIDE DEF o
    <2>2. /\ server' \in Service /\ server'.out = o /\ server'.in = server.in
          /\ server'.watches = server.watches /\ server'.reconnects = server.reconnects
          /\ server'.broken = server.broken
      BY <2>1 DEF IInv, Types, Service
    <2>. QED
      BY <2>2 DEF o
  <1>7. Split(Stream', Stream, Units(e))
    BY <1>1, <1>5, <1>6, OutGrows DEF IInv
  <1>8. /\ InFlight' = Append(InFlight, e) /\ Framed(Stream', InFlight')
        /\ \A v : Ends(v, Stream') = Ends(v, Stream) + (IF e = EventFor(v) THEN 1 ELSE 0)
    <2>1. Stream \in Seq(Unit) /\ Framed(Stream, Carried(Stream))
      BY <1>2, Facts DEF IInv, Streaming, InFlight
    <2>2. InFlight' = Carried(Stream')
      BY DEF InFlight
    <2>3. /\ Carried(Stream') = Append(Carried(Stream), e) /\ Framed(Stream', Carried(Stream'))
          /\ \A v : Ends(v, Stream') = Ends(v, Stream) + (IF e = EventFor(v) THEN 1 ELSE 0)
      <3>1. e \in Msgs /\ e.len = 1
        BY <1>3
      <3>. QED
        BY <1>7, <2>1, <3>1, Sent
    <2>. QED
      BY <2>2, <2>3, Zenon DEF InFlight
  <1>9. /\ InFlight \in Seq(Msgs) /\ Len(InFlight') = Len(InFlight) + 1
        /\ DOMAIN InFlight = 1 .. Len(InFlight) /\ DOMAIN InFlight' = 1 .. Len(InFlight) + 1
        /\ \A j \in DOMAIN InFlight : InFlight'[j] = InFlight[j]
        /\ InFlight'[Len(InFlight) + 1] = e /\ Len(InFlight) \in Nat
    <2>1. InFlight \in Seq(Msgs)
      BY Facts DEF IInv
    <2>. QED
      BY <1>3, <1>8, <2>1
  <1>10. Types'
    <2>1. undelivered \in [Watches -> 0 .. MaxEvents] /\ MaxEvents \in Nat
      BY Facts, XenStoreAssumption DEF IInv
    <2>2. undelivered[w] + 1 \in 0 .. MaxEvents
      BY <1>1, <2>1
    <2>3. undelivered' \in [Watches -> 0 .. MaxEvents]
      BY <1>1, <2>1, <2>2
    <2>. QED
      BY <1>1, <1>6, <2>3 DEF IInv, Types, TypeOK, RingOK
  <1>11. Control' /\ Indices'
    BY <1>1, <1>2, <1>6 DEF IInv, Control, Indices, Up
  <1>12. Asked' = Asked
    BY <1>1, <1>6 DEF Asked
  <1>13. ASSUME \A j \in DOMAIN InFlight : IsEvent(InFlight[j])
         PROVE  \A j \in DOMAIN InFlight' : IsEvent(InFlight'[j])
    BY <1>3, <1>9, <1>13
  <1>14. Calling'
    <2>1. CASE ~Asking
      BY <1>1, <1>6, <1>12, <1>13, <2>1 DEF IInv, Calling, Asking, Up
    <2>2. CASE Asking /\ Unanswered
      <3>1. Unanswered'
        BY <1>1, <1>6, <1>12, <1>13, <2>2 DEF Unanswered
      <3>. QED
        BY <1>1, <2>2, <3>1 DEF IInv, Calling, Asking, Request
    <2>3. CASE Asking /\ Answered
      <3>1. \A r : Outcome(r)' <=> Outcome(r)
        BY <1>1, <1>6 DEF Outcome
      <3>2. Answered'
        <4>1. CASE \E r \in Msgs : ReplyList = <<r>> /\ Outcome(r)
          <5>1. \A j \in DOMAIN InFlight : IsEvent(InFlight[j])
            BY <2>3, <4>1 DEF Answered
          <5>2. \A j \in DOMAIN InFlight' : IsEvent(InFlight'[j])
            BY <1>13, <5>1
          <5>3. \E r \in Msgs : ReplyList' = <<r>> /\ Outcome(r)'
            BY <1>1, <3>1, <4>1
          <5>. QED
            BY <1>1, <1>6, <1>12, <2>3, <5>2, <5>3 DEF Answered
        <4>2. CASE ~ \E r \in Msgs : ReplyList = <<r>> /\ Outcome(r)
          <5>1. PICK j \in DOMAIN InFlight :
                   Outcome(InFlight[j]) /\ \A i \in DOMAIN InFlight \ {j} : IsEvent(InFlight[i])
            BY <2>3, <4>2 DEF Answered
          <5>2. j \in DOMAIN InFlight' /\ InFlight'[j] = InFlight[j]
            BY <1>9
          <5>3. \A i \in DOMAIN InFlight' \ {j} : IsEvent(InFlight'[i])
            BY <1>3, <1>9, <5>1
          <5>4. (Outcome(InFlight[j]))'
            BY <1>1, <1>6, <5>1, <5>2 DEF Outcome
          <5>. QED
            BY <1>1, <1>6, <1>12, <2>3, <4>2, <5>2, <5>3, <5>4 DEF Answered
        <4>. QED
          BY <4>1, <4>2
      <3>. QED
        BY <1>1, <2>3, <3>2 DEF IInv, Calling, Asking, Request
    <2>. QED
      BY <2>1, <2>2, <2>3 DEF IInv, Calling
  <1>15. Streaming'
    <2>1. ASSUME NEW j \in DOMAIN InFlight', IsEvent(InFlight'[j])
          PROVE  (/\ InFlight[j] = EventFor(InFlight[j].watch)
                  /\ \/ InFlight[j].watch \in server.watches
                     \/ /\ Leaving(InFlight[j].watch)
                        /\ \E i \in DOMAIN InFlight : i > j /\ ~IsEvent(InFlight[i]))'
      <3>1. CASE j \in DOMAIN InFlight
        <4>1. InFlight'[j] = InFlight[j]
          BY <1>9, <3>1
        <4>2. /\ InFlight[j] = EventFor(InFlight[j].watch)
              /\ \/ InFlight[j].watch \in server.watches
                 \/ /\ Leaving(InFlight[j].watch)
                    /\ \E i \in DOMAIN InFlight : i > j /\ ~IsEvent(InFlight[i])
          BY <1>2, <2>1, <3>1, <4>1 DEF IInv, Streaming
        <4>3. CASE InFlight[j].watch \in server.watches
          BY <1>6, <4>1, <4>2, <4>3
        <4>4. CASE Leaving(InFlight[j].watch) /\ \E i \in DOMAIN InFlight : i > j /\ ~IsEvent(InFlight[i])
          <5>1. \E i \in DOMAIN InFlight' : i > j /\ ~IsEvent(InFlight'[i])
            BY <1>9, <4>4
          <5>. QED
            BY <1>1, <4>1, <4>2, <4>4, <5>1 DEF Leaving
        <4>. QED
          BY <4>2, <4>3, <4>4
      <3>2. CASE j \notin DOMAIN InFlight
        <4>1. InFlight'[j] = e
          BY <1>9, <3>2
        <4>. QED
          BY <1>1, <1>3, <1>6, <4>1 DEF e
      <3>. QED
        BY <3>1, <3>2
    <2>2. Len(Message') <= HeaderLen
      BY <1>1, <1>2 DEF IInv, Streaming
    <2>. QED
      BY <1>8, <2>1, <2>2 DEF Streaming
  <1>16. Accounting'
    <2>1. \A i \in DOMAIN WatchEvents' : (WatchEvents[i] \in server.watches \/ Leaving(WatchEvents[i]))'
      BY <1>1, <1>6 DEF IInv, Accounting, Leaving
    <2>2. undelivered \in [Watches -> 0 .. MaxEvents] /\ MaxEvents \in Nat
      BY Facts, XenStoreAssumption DEF IInv
    <2>3. \A v \in Watches : undelivered'[v] = IF v = w THEN undelivered[v] + 1 ELSE undelivered[v]
      BY <1>1, <2>2
    <2>4. \A v \in Watches : (undelivered[v] # 0 => v \in server.watches \/ Leaving(v))'
      BY <1>1, <1>6, <2>3 DEF IInv, Accounting, Leaving
    <2>5. ASSUME NEW v \in RegisteredWatches'
          PROVE  undelivered'[v] = Ends(v, Stream') + Count(v, WatchEvents')
      <3>1. v \in Watches /\ v \in RegisteredWatches
        BY <1>1, Facts DEF IInv
      <3>2. undelivered[v] = Ends(v, Stream) + Count(v, WatchEvents)
        BY <3>1 DEF IInv, Accounting
      <3>3. Ends(v, Stream) \in Nat /\ Count(v, WatchEvents) \in Nat
        <4>1. Stream \in Seq(Unit) /\ WatchEvents \in Seq(Watches)
          BY Facts DEF IInv
        <4>. QED
          BY <4>1, CountIs, Zenon DEF Ends
      <3>4. Ends(v, Stream') = Ends(v, Stream) + (IF v = w THEN 1 ELSE 0)
        BY <1>4, <1>8
      <3>. QED
        BY <1>1, <2>3, <3>1, <3>2, <3>3, <3>4
    <2>. QED
      BY <2>1, <2>4, <2>5 DEF Accounting
  <1>. QED
    BY <1>1, <1>10, <1>11, <1>14, <1>15, <1>16 DEF IInv

\* A step of the service that leaves the request, the stream and the watches as they are.
LEMMA CarryOn ==
    ASSUME IInv, Types', Up, ~server'.broken, ~server.broken,
           UNCHANGED <<pc, call, Data, live, RegisteredWatches, WatchEvents, ReplyList,
                       matched, connection, Token, undelivered>>,
           Message' = Message \/ Len(Message') <= HeaderLen,
           server'.watches = server.watches, server'.reconnects = server.reconnects,
           Stream' = Stream, Asked' = Asked, Filled(req') <= RING_SIZE, Filled(rsp') <= RING_SIZE
    PROVE  IInv'
  <1>1. InFlight' = InFlight
    BY DEF InFlight
  <1>2. Control' /\ Indices'
    BY DEF IInv, Control, Indices, Up
  <1>3. Calling'
    BY <1>1 DEF IInv, Calling, Asking, Request, Unanswered, Answered, Outcome, Up
  <1>4. Streaming'
    BY <1>1 DEF IInv, Streaming, Leaving, Up
  <1>5. Accounting'
    BY DEF IInv, Accounting, Leaving
  <1>. QED
    BY <1>2, <1>3, <1>4, <1>5 DEF IInv

\* A sequence is its first n units and the rest.
LEMMA CutInTwo ==
    ASSUME NEW s \in Seq(Unit), NEW n \in 0 .. Len(s)
    PROVE  SubSeq(s, 1, n) \o SubSeq(s, n + 1, Len(s)) = s
  <1>1. 1 \in 1 .. Len(s) + 1 /\ n \in 1 - 1 .. Len(s) /\ Len(s) \in n .. Len(s)
    OBVIOUS
  <1>2. SubSeq(s, 1, n) \o SubSeq(s, n + 1, Len(s)) = SubSeq(s, 1, Len(s))
    BY <1>1, ConcatAdjacentSubSeq, Zenon
  <1>3. SubSeq(s, 1, Len(s)) = s
    BY SubSeqFull
  <1>. QED
    BY <1>2, <1>3, Zenon

\* It writes as much of its output as there is room for.
LEMMA WriteStep == ASSUME IInv, ServerWrite PROVE IInv'
  <1>. DEFINE n == Smaller(RING_SIZE - Filled(rsp), Len(server.out))
              a == Slice(server.out, n)
              b == SubSeq(server.out, n + 1, Len(server.out))
  <1>1. /\ ~server.broken /\ server.out # <<>>
        /\ rsp' = Produce(rsp, a) /\ server' = [server EXCEPT !.out = b]
        /\ UNCHANGED <<pc, call, Data, Message, Token, closing, live, RegisteredWatches, WatchEvents,
                       ReplyList, matched, EventChannelEvent, req, connection, undelivered>>
    BY DEF ServerWrite, CanWrite, client, lists
  <1>2. Up /\ Filled(rsp) <= RING_SIZE
    BY <1>1 DEF IInv, Indices
  <1>3. /\ server.out \in Seq(Unit) /\ Filled(rsp) \in Nat /\ RING_SIZE \in Nat
        /\ Len(server.out) \in Nat /\ Message \in Seq(Unit) /\ InRing(rsp) \in Seq(Unit)
    BY Facts, XenStoreAssumption DEF IInv, Types
  <1>4. n \in Nat /\ n <= Len(server.out) /\ Filled(rsp) + n <= RING_SIZE
    BY <1>2, <1>3 DEF Smaller
  <1>. HIDE DEF n
  <1>5. a \in Seq(Unit) /\ Len(a) = n /\ b \in Seq(Unit)
    BY <1>3, <1>4 DEF Slice
  <1>6. a \o b = server.out
    <2>1. n \in 0 .. Len(server.out)
      BY <1>3, <1>4
    <2>2. SubSeq(server.out, 1, n) \o SubSeq(server.out, n + 1, Len(server.out)) = server.out
      BY <1>3, <2>1, CutInTwo, Zenon
    <2>. QED
      BY <2>2 DEF Slice
  <1>. HIDE DEF a, b
  <1>7. /\ Produce(rsp, a) \in Ring /\ Filled(Produce(rsp, a)) = Filled(rsp) + Len(a)
        /\ InRing(Produce(rsp, a)) = InRing(rsp) \o a
    BY <1>4, <1>5, ProduceIs DEF IInv, Types
  <1>8. rsp' \in Ring /\ Filled(rsp') <= RING_SIZE
    BY <1>1, <1>4, <1>5, <1>7
  <1>9. /\ server' \in Service /\ server'.out = b /\ server'.in = server.in
        /\ server'.watches = server.watches /\ server'.reconnects = server.reconnects
        /\ server'.broken = server.broken
    BY <1>1, <1>5 DEF IInv, Types, Service
  <1>10. Types'
    <2>1. RingOK(rsp')
      BY <1>8 DEF RingOK, Ring
    <2>. QED
      BY <1>1, <1>8, <1>9, <2>1 DEF IInv, Types, TypeOK, RingOK
  <1>11. Stream' = Stream
    <2>1. Stream' = Message' \o (InRing(rsp') \o server'.out)
      BY DEF Stream, InRing, Peek, Filled
    <2>2. Stream' = Message \o ((InRing(rsp) \o a) \o b)
      BY <1>1, <1>7, <1>9, <2>1, Zenon
    <2>3. InRing(rsp) \o (a \o b) = (InRing(rsp) \o a) \o b
      BY <1>3, <1>5, Associative, Zenon
    <2>. QED
      BY <1>6, <2>2, <2>3, Zenon DEF Stream
  <1>12. Asked' = Asked /\ Filled(req') <= RING_SIZE
    BY <1>1, <1>2, <1>9 DEF Asked, IInv, Indices, Up
  <1>. QED
    BY <1>1, <1>2, <1>8, <1>9, <1>10, <1>11, <1>12, CarryOn

\* What is left to read of a message that begins as a request does.
LEMMA WantedIs ==
    ASSUME NEW m \in Msgs, NEW p \in 0 .. HeaderLen + m.len, NEW s \in Seq(Unit), NEW t \in Seq(Unit),
           Split(SubSeq(Units(m), 1, p), s, t)
    PROVE  /\ Len(s) + Len(t) = p /\ Wanted(s) \in Nat
           /\ \A k \in 1 .. Len(s) : s[k] = <<m, k>>
           /\ \A k \in 1 .. Len(t) : t[k] = <<m, Len(s) + k>>
           /\ Complete(s) => s[1][1] = m /\ Len(s) = HeaderLen + m.len
           /\ ~Complete(s) => Wanted(s) > 0
  <1>. DEFINE u == SubSeq(Units(m), 1, p)
  <1>1. /\ Units(m) \in Seq(Unit) /\ Len(Units(m)) = 2 + m.len /\ m.len \in 0 .. 2
        /\ \A k \in 1 .. 2 + m.len : Units(m)[k] = <<m, k>>
    BY UnitsAre DEF HeaderLen
  <1>2. u \in Seq(Unit) /\ Len(u) = p /\ \A k \in 1 .. p : u[k] = <<m, k>>
    <2>1. p \in 0 .. 2 + m.len
      BY DEF HeaderLen
    <2>. QED
      BY <1>1, <2>1
  <1>. HIDE DEF u
  <1>3. /\ Len(u) = Len(s) + Len(t)
        /\ \A i \in 1 .. Len(s) + Len(t) : u[i] = IF i <= Len(s) THEN s[i] ELSE t[i - Len(s)]
    BY ConcatProperties DEF Split, u
  <1>4. Len(s) \in Nat /\ Len(t) \in Nat /\ p \in Nat /\ p <= 2 + m.len
    BY <1>1 DEF HeaderLen
  <1>5. Len(s) + Len(t) = p
    BY <1>2, <1>3
  <1>6. ASSUME NEW k \in 1 .. Len(s) PROVE s[k] = <<m, k>>
    BY <1>2, <1>3, <1>4, <1>5
  <1>7. ASSUME NEW k \in 1 .. Len(t) PROVE t[k] = <<m, Len(s) + k>>
    <2>1. Len(s) + k \in 1 .. p /\ ~(Len(s) + k <= Len(s)) /\ Len(s) + k - Len(s) = k
      BY <1>4, <1>5
    <2>2. u[Len(s) + k] = t[k]
      BY <1>3, <1>5, <2>1
    <2>. QED
      BY <1>2, <2>1, <2>2
  <1>8. CASE Len(s) < 2
    <2>1. Wanted(s) = 2 - Len(s) /\ ~Complete(s)
      BY <1>8 DEF Wanted, Complete, HeaderLen
    <2>. QED
      BY <1>4, <1>5, <1>6, <1>7, <1>8, <2>1
  <1>9. CASE ~(Len(s) < 2)
    <2>1. s[1] = <<m, 1>>
      BY <1>4, <1>6, <1>9
    <2>2. s[1][1] = m
      BY <2>1
    <2>3. Wanted(s) = 2 + m.len - Len(s) /\ (Complete(s) <=> Wanted(s) = 0)
      BY <1>4, <1>9, <2>2 DEF Wanted, Complete, HeaderLen
    <2>4. Wanted(s) \in Nat /\ (~Complete(s) => Wanted(s) > 0) /\ (Complete(s) => Len(s) = 2 + m.len)
      <3>1. 2 + m.len - Len(s) \in Nat /\ m.len \in Nat
        BY <1>1, <1>4, <1>5
      <3>2. Wanted(s) \in Nat /\ (Wanted(s) = 0 => Len(s) = 2 + m.len) /\ (Wanted(s) # 0 => Wanted(s) > 0)
        BY <1>4, <2>3, <3>1
      <3>. QED
        BY <2>3, <3>2
    <2>. QED
      BY <1>5, <1>6, <1>7, <2>2, <2>4 DEF HeaderLen
  <1>. QED
    BY <1>8, <1>9

\* While the service is working on a request, the client is waiting for it.
LEMMA ServiceBusy ==
    ASSUME IInv, ~server.broken, pc # "erase", Filled(req) > 0 \/ Complete(server.in)
    PROVE  /\ Up /\ Asking /\ Unanswered /\ call \in Msgs
           /\ server.in \in Seq(Unit) /\ InRing(req) \in Seq(Unit)
           /\ \E p \in 0 .. HeaderLen + call.len :
                 Data = DataLeft(call, p) /\ Split(SubSeq(Units(call), 1, p), server.in, InRing(req))
  <1>1. server.in \in Seq(Unit) /\ InRing(req) \in Seq(Unit) /\ Filled(req) \in Nat /\ call \in Msgs
    BY Facts DEF IInv, Types
  <1>2. Asked # <<>>
    <2>1. SUFFICES ASSUME Asked = <<>> PROVE FALSE
      OBVIOUS
    <2>2. server.in = <<>> /\ InRing(req) = <<>>
      BY <1>1, <2>1, ConcatEmptySeq DEF Asked
    <2>3. Filled(req) = 0
      BY <2>2, InRingIs DEF IInv, Types
    <2>4. Complete(server.in)
      BY <2>3
    <2>. QED
      BY <2>2, <2>4 DEF Complete, HeaderLen
  <1>3. Asking /\ Unanswered
    BY <1>2 DEF IInv, Calling, Answered
  <1>4. Up
    BY <1>3 DEF Asking, Up
  <1>5. PICK p \in 0 .. HeaderLen + call.len : Data = DataLeft(call, p) /\ Asked = SubSeq(Units(call), 1, p)
    BY <1>3 DEF Unanswered
  <1>6. Split(SubSeq(Units(call), 1, p), server.in, InRing(req))
    BY <1>5, Zenon DEF Asked, Split
  <1>. QED
    BY <1>1, <1>3, <1>4, <1>5, <1>6

\* The service reads on; what it reads while the rings are being erased breaks it.
LEMMA ReadStep == ASSUME IInv, ServerRead PROVE IInv'
  <1>. DEFINE n == Smaller(Filled(req), Wanted(server.in))
              a == Peek(req, n)
              new == server.in \o a
              bad == \E k \in 1 .. n : a[k] = Garbage
  <1>1. /\ ~server.broken /\ Filled(req) > 0 /\ Filled(req) <= RING_SIZE /\ ~Complete(server.in)
        /\ req' = Consume(req, n) /\ server' = [server EXCEPT !.in = new, !.broken = bad]
        /\ UNCHANGED <<pc, call, Data, Message, Token, closing, live, RegisteredWatches, WatchEvents,
                       ReplyList, matched, EventChannelEvent, rsp, connection, undelivered>>
    BY DEF ServerRead, CanRead, CheckIndexes, client, lists
  <1>2. /\ server.in \in Seq(Unit) /\ InRing(req) \in Seq(Unit) /\ Filled(req) \in Nat
        /\ req \in Ring /\ server \in Service /\ RING_SIZE \in Nat
    BY Facts, XenStoreAssumption DEF IInv, Types
  <1>3. pc = "erase" => server.in = <<>>
    BY <1>1 DEF IInv, Indices, Up
  <1>4. /\ Wanted(server.in) \in Nat /\ Wanted(server.in) > 0
        /\ pc # "erase" => Up /\ \A k \in 1 .. Len(InRing(req)) :
                                    InRing(req)[k] = <<call, Len(server.in) + k>>
    <2>1. CASE pc = "erase"
      BY <1>3, <2>1 DEF Wanted, HeaderLen
    <2>2. CASE pc # "erase"
      <3>1. /\ Up /\ call \in Msgs
            /\ \E p \in 0 .. HeaderLen + call.len :
                  Split(SubSeq(Units(call), 1, p), server.in, InRing(req))
        BY <1>1, <2>2, ServiceBusy
      <3>2. PICK p \in 0 .. HeaderLen + call.len :
               Split(SubSeq(Units(call), 1, p), server.in, InRing(req))
        BY <3>1
      <3>. QED
        BY <1>1, <1>2, <3>1, <3>2, WantedIs
    <2>. QED
      BY <2>1, <2>2
  <1>5. n \in Nat /\ n > 0 /\ n <= Filled(req)
    BY <1>1, <1>2, <1>4 DEF Smaller
  <1>. HIDE DEF n
  <1>6. a \in Seq(Unit) /\ Len(a) = n /\ \A k \in 1 .. n : a[k] = req.data[Slot(req.cons + k - 1)]
    BY <1>2, <1>5, PeekIs
  <1>7. /\ req' \in Ring /\ Filled(req') = Filled(req) - n /\ a \o InRing(req') = InRing(req)
    <2>1. /\ Consume(req, n) \in Ring /\ Filled(Consume(req, n)) = Filled(req) - n
          /\ Peek(req, n) \o InRing(Consume(req, n)) = InRing(req)
      BY <1>1, <1>2, <1>5, ConsumeIs
    <2>. QED
      BY <1>1, <2>1
  <1>8. new \in Seq(Unit) /\ bad \in BOOLEAN
    <2>. HIDE DEF a
    <2>. QED
      BY <1>2, <1>6, ConcatProperties
  <1>9. /\ server' \in Service /\ server'.in = new /\ server'.broken = bad
        /\ server'.out = server.out
        /\ server'.watches = server.watches /\ server'.reconnects = server.reconnects
    <2>. HIDE DEF new, bad
    <2>. QED
      BY <1>1, <1>2, <1>8 DEF Service
  <1>10. Types'
    <2>1. RingOK(req')
      BY <1>7 DEF RingOK, Ring
    <2>. HIDE DEF new, bad
    <2>. QED
      BY <1>1, <1>7, <1>9, <2>1 DEF IInv, Types, TypeOK, RingOK
  <1>11. Filled(req') <= RING_SIZE
    BY <1>1, <1>2, <1>5, <1>7
  <1>12. CASE pc = "erase"
    <2>1. server'.broken
      <3>1. a[1] = req.data[Slot(req.cons + 1 - 1)]
        BY <1>5, <1>6
      <3>2. Slot(req.cons + 1 - 1) \in 0 .. RING_SIZE - 1
        <4>1. req.cons + 1 - 1 \in Int
          BY <1>2, XenStoreAssumption DEF Ring
        <4>. QED
          BY <4>1, XenStoreAssumption DEF Slot
      <3>3. a[1] = Garbage
        BY <1>12, <3>1, <3>2 DEF IInv, Indices
      <3>. HIDE DEF a
      <3>4. bad
        BY <1>5, <3>3
      <3>. QED
        BY <1>9, <3>4
    <2>2. req'.prod = 0 /\ \A i \in 0 .. RING_SIZE - 1 : req'.data[i] = Garbage
      <3>1. req.prod = 0 /\ \A i \in 0 .. RING_SIZE - 1 : req.data[i] = Garbage
        BY <1>12 DEF IInv, Indices
      <3>2. /\ req'.prod = req.prod
            /\ req'.data = [i \in DOMAIN req.data |->
                               IF (i - req.cons) % RING_SIZE < n THEN Garbage ELSE req.data[i]]
        BY <1>1, <1>2 DEF Consume, Ring
      <3>3. DOMAIN req.data = 0 .. RING_SIZE - 1
        BY <1>2 DEF Ring
      <3>. QED
        BY <3>1, <3>2, <3>3
    <2>. HIDE DEF new, bad
    <2>3. Control'
      BY <1>1, <1>9, <1>12 DEF IInv, Control, Up
    <2>4. Indices'
      BY <1>1, <1>9, <1>12, <2>1, <2>2 DEF IInv, Indices, Up
    <2>5. Calling' /\ Streaming'
      BY <1>1, <1>12 DEF IInv, Calling, Asking, Streaming, Up
    <2>6. Accounting'
      BY <1>1, <1>9, <1>12 DEF IInv, Accounting, Leaving, Control, Up
    <2>. QED
      BY <1>1, <1>10, <2>3, <2>4, <2>5, <2>6 DEF IInv
  <1>13. CASE pc # "erase"
    <2>1. ~server'.broken
      <3>1. SUFFICES ASSUME NEW k \in 1 .. n, a[k] = Garbage PROVE FALSE
        BY <1>9
      <3>. HIDE DEF a
      <3>2. InRing(req') \in Seq(Unit)
        BY <1>7, InRingIs
      <3>3. /\ Len(InRing(req)) = Len(a) + Len(InRing(req')) /\ InRing(req)[k] = a[k]
        BY <1>6, <1>7, <3>2, ConcatProperties
      <3>4. InRing(req)[k] = <<call, Len(server.in) + k>>
        BY <1>4, <1>6, <1>13, <3>2, <3>3
      <3>5. Len(server.in) + k # 0
        BY <1>2
      <3>. QED
        BY <3>1, <3>3, <3>4, <3>5 DEF Garbage
    <2>2. Asked' = Asked
      <3>. HIDE DEF a, bad
      <3>1. InRing(req') \in Seq(Unit)
        BY <1>7, InRingIs
      <3>2. Asked' = server'.in \o InRing(req')
        BY DEF Asked, InRing, Peek, Filled
      <3>3. server.in \o (a \o InRing(req')) = (server.in \o a) \o InRing(req')
        BY <1>2, <1>6, <3>1, Associative, Zenon
      <3>4. Asked' = (server.in \o a) \o InRing(req')
        BY <1>9, <3>2
      <3>. QED
        BY <1>7, <3>3, <3>4, Zenon DEF Asked
    <2>3. Stream' = Stream
      BY <1>1, <1>9 DEF Stream
    <2>4. Up /\ Filled(rsp') <= RING_SIZE
      BY <1>1, <1>4, <1>13 DEF IInv, Indices
    <2>. HIDE DEF new, bad
    <2>. QED
      BY <1>1, <1>9, <1>10, <1>11, <2>1, <2>2, <2>3, <2>4, CarryOn
  <1>. QED
    BY <1>12, <1>13

\* The service has all of the request.
LEMMA RequestComplete ==
    ASSUME IInv, ~server.broken, Complete(server.in)
    PROVE  /\ pc = "reply" /\ Up /\ Unanswered /\ Request /\ call \in Msgs /\ Data = <<>>
           /\ server.in[1][1] = call /\ InRing(req) = <<>>
  <1>1. pc # "erase"
    <2>1. server.in # <<>>
      BY DEF Complete, HeaderLen
    <2>. QED
      BY <2>1 DEF IInv, Indices, Up
  <1>2. /\ Up /\ Asking /\ Unanswered /\ call \in Msgs
        /\ server.in \in Seq(Unit) /\ InRing(req) \in Seq(Unit)
        /\ \E p \in 0 .. HeaderLen + call.len :
              Data = DataLeft(call, p) /\ Split(SubSeq(Units(call), 1, p), server.in, InRing(req))
    BY <1>1, ServiceBusy
  <1>3. PICK p \in 0 .. HeaderLen + call.len :
           Data = DataLeft(call, p) /\ Split(SubSeq(Units(call), 1, p), server.in, InRing(req))
    BY <1>2
  <1>4. /\ Len(server.in) + Len(InRing(req)) = p
        /\ server.in[1][1] = call /\ Len(server.in) = HeaderLen + call.len
    BY <1>2, <1>3, WantedIs
  <1>5. call.len \in 0 .. 2
    BY <1>2, UnitsAre
  <1>6. Len(InRing(req)) = 0 /\ p = HeaderLen + call.len
    <2>1. Len(InRing(req)) \in Nat
      BY <1>2
    <2>. QED
      BY <1>4, <1>5, <2>1 DEF HeaderLen
  <1>7. InRing(req) = <<>>
    BY <1>2, <1>6, EmptySeq
  <1>8. Data = <<>>
    BY <1>3, <1>6 DEF DataLeft
  <1>9. pc = "reply"
    BY <1>2, <1>8 DEF Unanswered, Asking
  <1>. QED
    BY <1>2, <1>4, <1>7, <1>8, <1>9 DEF IInv, Calling

\* An answer without an event.
LEMMA AnswerOnly ==
    ASSUME IInv, ~server.broken, Complete(server.in), NEW r,
           \/ r = Msg(call.type, call.watch, call.id, 1) /\ call.type # "XS_WATCH"
           \/ r = Msg("XS_ERROR", call.watch, call.id, 1) /\ call.type # "XS_UNWATCH",
           server' \in Service, server'.in = <<>>, server'.out = server.out \o Units(r),
           server'.watches = IF call.type = "XS_UNWATCH" THEN server.watches \ {call.watch}
                                                         ELSE server.watches,
           server'.reconnects = server.reconnects, ~server'.broken,
           UNCHANGED <<pc, call, Data, Message, Token, closing, live, RegisteredWatches, WatchEvents,
                       ReplyList, matched, EventChannelEvent, req, rsp, connection, undelivered>>
    PROVE  IInv'
  <1>1. /\ pc = "reply" /\ Up /\ Unanswered /\ Request /\ call \in Msgs /\ Data = <<>>
        /\ InRing(req) = <<>>
    BY RequestComplete
  <1>2. r \in Msgs /\ r.len = 1 /\ ~IsEvent(r) /\ \A v : r # EventFor(v)
    BY <1>1 DEF Msg, Msgs, IsEvent, Request, EventFor
  <1>3. Types'
    BY DEF IInv, Types, TypeOK, RingOK, Service
  <1>4. Units(r) \in Seq(Unit)
    BY <1>2, UnitsAre
  <1>5. Split(Stream', Stream, Units(r))
    BY <1>4, OutGrows DEF IInv
  <1>6. /\ InFlight' = Append(InFlight, r) /\ Framed(Stream', InFlight')
        /\ \A v : Ends(v, Stream') = Ends(v, Stream) + (IF r = EventFor(v) THEN 1 ELSE 0)
    <2>1. Stream \in Seq(Unit) /\ Framed(Stream, Carried(Stream))
      BY <1>1, Facts DEF IInv, Streaming, InFlight
    <2>2. InFlight' = Carried(Stream')
      BY DEF InFlight
    <2>3. /\ Carried(Stream') = Append(Carried(Stream), r) /\ Framed(Stream', Carried(Stream'))
          /\ \A v : Ends(v, Stream') = Ends(v, Stream) + (IF r = EventFor(v) THEN 1 ELSE 0)
      <3>1. r \in Msgs /\ r.len = 1
        BY <1>2
      <3>. QED
        BY <1>5, <2>1, <3>1, Sent
    <2>. QED
      BY <2>2, <2>3, Zenon DEF InFlight
  <1>7. \A v : Ends(v, Stream') = Ends(v, Stream)
    <2>1. Stream \in Seq(Unit)
      BY Facts DEF IInv
    <2>2. \A v : Ends(v, Stream) \in Nat
      BY <2>1, CountIs, Zenon DEF Ends
    <2>. QED
      BY <1>2, <1>6, <2>2
  <1>8. /\ InFlight \in Seq(Msgs) /\ Len(InFlight) \in Nat
        /\ DOMAIN InFlight = 1 .. Len(InFlight) /\ DOMAIN InFlight' = 1 .. Len(InFlight) + 1
        /\ \A j \in DOMAIN InFlight : InFlight'[j] = InFlight[j] /\ IsEvent(InFlight[j])
        /\ InFlight'[Len(InFlight) + 1] = r
    <2>1. InFlight \in Seq(Msgs)
      BY Facts DEF IInv
    <2>2. \A j \in DOMAIN InFlight : IsEvent(InFlight[j])
      BY <1>1 DEF Unanswered
    <2>. QED
      BY <1>2, <1>6, <2>1, <2>2
  <1>9. Control'
    BY <1>1 DEF IInv, Control, Up
  <1>10. Indices'
    BY <1>1 DEF IInv, Indices, Up
  <1>11. Asked' = <<>>
    <2>1. Asked' = server'.in \o InRing(req)
      BY DEF Asked
    <2>2. <<>> \o <<>> = <<>>
      OBVIOUS
    <2>. QED
      BY <1>1, <2>1, <2>2
  <1>12. Calling'
    <2>1. Outcome(r)'
      BY <1>1 DEF Outcome, Unanswered, Msg
    <2>2. PICK j \in DOMAIN InFlight' : j = Len(InFlight) + 1 /\ InFlight'[j] = r
      BY <1>8
    <2>3. \A i \in DOMAIN InFlight' \ {j} : IsEvent(InFlight'[i])
      BY <1>8, <2>2
    <2>4. (Outcome(InFlight[j]))'
      BY <2>1, <2>2 DEF Outcome
    <2>5. ReplyList' = <<>>
      BY <1>1 DEF Unanswered
    <2>6. Answered'
      BY <1>1, <1>11, <2>2, <2>3, <2>4, <2>5 DEF Answered
    <2>. QED
      BY <1>1, <2>6 DEF Calling, Asking, Request
  <1>13. Streaming'
    <2>1. ASSUME NEW j \in DOMAIN InFlight', IsEvent(InFlight'[j])
          PROVE  (/\ InFlight[j] = EventFor(InFlight[j].watch)
                  /\ \/ InFlight[j].watch \in server.watches
                     \/ /\ Leaving(InFlight[j].watch)
                        /\ \E i \in DOMAIN InFlight : i > j /\ ~IsEvent(InFlight[i]))'
      <3>1. j \in DOMAIN InFlight
        BY <1>2, <1>8, <2>1
      <3>2. InFlight'[j] = InFlight[j] /\ IsEvent(InFlight[j])
        BY <1>8, <3>1
      <3>3. /\ InFlight[j] = EventFor(InFlight[j].watch)
            /\ InFlight[j].watch \in server.watches
        BY <1>1, <1>8, <3>1, <3>2 DEF IInv, Streaming
      <3>4. \E i \in DOMAIN InFlight' : i > j /\ ~IsEvent(InFlight'[i])
        <4>1. Len(InFlight) + 1 \in DOMAIN InFlight' /\ Len(InFlight) + 1 > j
          BY <1>8, <3>1
        <4>. QED
          BY <1>2, <1>8, <4>1
      <3>. QED
        BY <3>2, <3>3, <3>4 DEF Leaving
    <2>2. Len(Message') <= HeaderLen
      BY <1>1 DEF IInv, Streaming
    <2>. QED
      BY <1>6, <2>1, <2>2 DEF Streaming
  <1>14. Accounting'
    <2>1. \A i \in DOMAIN WatchEvents' : (WatchEvents[i] \in server.watches \/ Leaving(WatchEvents[i]))'
      BY DEF IInv, Accounting, Leaving
    <2>2. \A v \in Watches : (undelivered[v] # 0 => v \in server.watches \/ Leaving(v))'
      BY DEF IInv, Accounting, Leaving
    <2>3. \A v \in RegisteredWatches' : undelivered'[v] = Ends(v, Stream') + Count(v, WatchEvents')
      BY <1>7 DEF IInv, Accounting
    <2>. QED
      BY <2>1, <2>2, <2>3 DEF Accounting
  <1>. QED
    BY <1>3, <1>9, <1>10, <1>12, <1>13, <1>14 DEF IInv

\* A new watch fires at once: its first event comes after the answer.
LEMMA AnswerAndFire ==
    ASSUME IInv, ~server.broken, Complete(server.in), call.type = "XS_WATCH", NEW r, NEW e,
           r = Msg(call.type, call.watch, call.id, 1), e = EventFor(call.watch),
           server' \in Service, server'.in = <<>>,
           server'.out = (server.out \o Units(r)) \o Units(e),
           server'.watches = server.watches \cup {call.watch},
           server'.reconnects = server.reconnects, ~server'.broken,
           undelivered' = [undelivered EXCEPT ![call.watch] = 1],
           UNCHANGED <<pc, call, Data, Message, Token, closing, live, RegisteredWatches, WatchEvents,
                       ReplyList, matched, EventChannelEvent, req, rsp, connection>>
    PROVE  IInv'
  <1>1. /\ pc = "reply" /\ Up /\ Unanswered /\ Request /\ call \in Msgs /\ Data = <<>>
        /\ InRing(req) = <<>>
    BY RequestComplete
  <1>2. r \in Msgs /\ r.len = 1 /\ ~IsEvent(r) /\ \A v : r # EventFor(v)
    BY <1>1 DEF Msg, Msgs, IsEvent, Request, EventFor
  <1>3. call.watch \in Watches /\ call.watch \notin server.watches
    BY <1>1 DEF Request, Unanswered
  <1>4. e \in Msgs /\ e.len = 1 /\ IsEvent(e) /\ e.watch = call.watch
        /\ \A v : e = EventFor(v) <=> v = call.watch
    BY <1>3 DEF Msg, Msgs, IsEvent, EventFor
  <1>5. undelivered \in [Watches -> 0 .. MaxEvents] /\ MaxEvents \in Nat \ {0}
    BY Facts, XenStoreAssumption DEF IInv
  <1>6. Types'
    <2>1. undelivered' \in [Watches -> 0 .. MaxEvents]
      <3>1. 1 \in 0 .. MaxEvents
        BY <1>5
      <3>. QED
        BY <1>3, <1>5, <3>1
    <2>. QED
      BY <2>1 DEF IInv, Types, TypeOK, RingOK, Service
  <1>7. Units(r) \in Seq(Unit) /\ Units(e) \in Seq(Unit) /\ Units(r) \o Units(e) \in Seq(Unit)
    BY <1>2, <1>4, UnitsAre, ConcatProperties
  <1>. DEFINE mid == Stream \o Units(r)
  <1>8. Split(Stream', mid, Units(e)) /\ Split(mid, Stream, Units(r)) /\ Stream \in Seq(Unit)
    <2>1. server.out \in Seq(Unit) /\ Stream \in Seq(Unit)
      BY Facts DEF IInv
    <2>. DEFINE o == server.out
                a == Units(r)
                b == Units(e)
    <2>2. o \in Seq(Unit) /\ a \in Seq(Unit) /\ b \in Seq(Unit) /\ a \o b \in Seq(Unit)
      BY <1>7, <2>1
    <2>3. server'.out = (o \o a) \o b
      OBVIOUS
    <2>. HIDE DEF a, b
    <2>4. Split(Stream', Stream, a \o b)
      <3>1. o \o (a \o b) = (o \o a) \o b
        <4>. HIDE DEF o
        <4>. QED
          BY <2>2, Associative, Zenon
      <3>2. server'.out = server.out \o (a \o b)
        BY <2>3, <3>1
      <3>. QED
        BY <2>2, <3>2, OutGrows DEF IInv
    <2>. HIDE DEF o
    <2>5. Stream \o (a \o b) = (Stream \o a) \o b
      BY <2>1, <2>2, Associative, Zenon
    <2>6. Split(Stream', Stream \o a, b)
      BY <2>4, <2>5, Zenon DEF Split
    <2>. QED
      BY <2>1, <2>6 DEF Split, a, b
  <1>. HIDE DEF mid
  <1>9. /\ mid \in Seq(Unit) /\ Framed(mid, Carried(mid)) /\ Carried(mid) = Append(InFlight, r)
        /\ \A v : Ends(v, mid) = Ends(v, Stream) + (IF r = EventFor(v) THEN 1 ELSE 0)
    <2>1. Framed(Stream, Carried(Stream))
      BY <1>1 DEF IInv, Streaming, InFlight
    <2>2. r \in Msgs /\ r.len = 1
      BY <1>2
    <2>. QED
      BY <1>8, <2>1, <2>2, Sent DEF InFlight
  <1>10. /\ InFlight' = Append(Append(InFlight, r), e) /\ Framed(Stream', InFlight')
         /\ \A v : Ends(v, Stream') = Ends(v, mid) + (IF e = EventFor(v) THEN 1 ELSE 0)
    <2>1. InFlight' = Carried(Stream')
      BY DEF InFlight
    <2>2. e \in Msgs /\ e.len = 1
      BY <1>4
    <2>3. /\ Carried(Stream') = Append(Carried(mid), e) /\ Framed(Stream', Carried(Stream'))
          /\ \A v : Ends(v, Stream') = Ends(v, mid) + (IF e = EventFor(v) THEN 1 ELSE 0)
      <3>1. Split(Stream', mid, Units(e)) /\ mid \in Seq(Unit) /\ Framed(mid, Carried(mid))
        BY <1>8, <1>9
      <3>. QED
        BY <2>2, <3>1, Sent
    <2>. QED
      BY <1>9, <2>1, <2>3
  <1>11. \A v : Ends(v, Stream') = Ends(v, Stream) + (IF v = call.watch THEN 1 ELSE 0)
    <2>1. \A v : Ends(v, Stream) \in Nat
      BY <1>8, CountIs, Zenon DEF Ends
    <2>. QED
      BY <1>2, <1>4, <1>9, <1>10, <2>1
  <1>12. /\ InFlight \in Seq(Msgs) /\ Len(InFlight) \in Nat
         /\ DOMAIN InFlight = 1 .. Len(InFlight) /\ DOMAIN InFlight' = 1 .. Len(InFlight) + 2
         /\ \A j \in DOMAIN InFlight : InFlight'[j] = InFlight[j] /\ IsEvent(InFlight[j])
         /\ InFlight'[Len(InFlight) + 1] = r /\ InFlight'[Len(InFlight) + 2] = e
    <2>1. InFlight \in Seq(Msgs)
      BY Facts DEF IInv
    <2>2. \A j \in DOMAIN InFlight : IsEvent(InFlight[j])
      BY <1>1 DEF Unanswered
    <2>. QED
      BY <1>2, <1>4, <1>10, <2>1, <2>2
  <1>13. Control'
    BY <1>1, <1>3 DEF IInv, Control, Up
  <1>14. Indices'
    BY <1>1 DEF IInv, Indices, Up
  <1>15. Asked' = <<>>
    <2>1. Asked' = server'.in \o InRing(req)
      BY DEF Asked
    <2>2. <<>> \o <<>> = <<>>
      OBVIOUS
    <2>. QED
      BY <1>1, <2>1, <2>2
  <1>16. Calling'
    <2>1. Outcome(r)'
      BY <1>1 DEF Outcome, Unanswered, Msg
    <2>2. PICK j \in DOMAIN InFlight' : j = Len(InFlight) + 1 /\ InFlight'[j] = r
      BY <1>12
    <2>3. \A i \in DOMAIN InFlight' \ {j} : IsEvent(InFlight'[i])
      <3>. SUFFICES ASSUME NEW i \in DOMAIN InFlight' \ {j} PROVE IsEvent(InFlight'[i])
        OBVIOUS
      <3>1. i \in DOMAIN InFlight \/ i = Len(InFlight) + 2
        BY <1>12, <2>2
      <3>. QED
        BY <1>4, <1>12, <3>1
    <2>4. (Outcome(InFlight[j]))'
      BY <2>1, <2>2 DEF Outcome
    <2>5. ReplyList' = <<>>
      BY <1>1 DEF Unanswered
    <2>6. Answered'
      BY <1>1, <1>15, <2>2, <2>3, <2>4, <2>5 DEF Answered
    <2>. QED
      BY <1>1, <2>6 DEF Calling, Asking, Request
  <1>17. Streaming'
    <2>1. ASSUME NEW j \in DOMAIN InFlight', IsEvent(InFlight'[j])
          PROVE  (InFlight[j] = EventFor(InFlight[j].watch) /\ InFlight[j].watch \in server.watches)'
      <3>1. CASE j \in DOMAIN InFlight
        <4>1. InFlight'[j] = InFlight[j] /\ IsEvent(InFlight[j])
          BY <1>12, <3>1
        <4>2. InFlight[j] = EventFor(InFlight[j].watch) /\ InFlight[j].watch \in server.watches
          BY <1>1, <1>12, <3>1, <4>1 DEF IInv, Streaming
        <4>. QED
          BY <4>1, <4>2
      <3>2. CASE j \notin DOMAIN InFlight
        <4>1. InFlight'[j] = e
          BY <1>2, <1>12, <2>1, <3>2
        <4>. QED
          BY <1>4, <4>1
      <3>. QED
        BY <3>1, <3>2
    <2>2. Len(Message') <= HeaderLen
      BY <1>1 DEF IInv, Streaming
    <2>. QED
      BY <1>10, <2>1, <2>2 DEF Streaming
  <1>18. Accounting'
    <2>1. \A i \in DOMAIN WatchEvents' : (WatchEvents[i] \in server.watches \/ Leaving(WatchEvents[i]))'
      BY DEF IInv, Accounting, Leaving
    <2>2. \A v \in Watches : undelivered'[v] = IF v = call.watch THEN 1 ELSE undelivered[v]
      BY <1>5
    <2>3. \A v \in Watches : (undelivered[v] # 0 => v \in server.watches \/ Leaving(v))'
      BY <2>2 DEF IInv, Accounting, Leaving
    <2>4. /\ undelivered[call.watch] = 0 /\ Ends(call.watch, Stream) = 0
          /\ Count(call.watch, WatchEvents) = 0
      BY <1>1, <1>3, NoEventOf DEF IInv, Leaving
    <2>5. ASSUME NEW v \in RegisteredWatches'
          PROVE  undelivered'[v] = Ends(v, Stream') + Count(v, WatchEvents')
      <3>1. v \in Watches /\ v \in RegisteredWatches
        BY Facts DEF IInv
      <3>2. undelivered[v] = Ends(v, Stream) + Count(v, WatchEvents)
        BY <3>1 DEF IInv, Accounting
      <3>3. Ends(v, Stream) \in Nat /\ Count(v, WatchEvents) \in Nat
        <4>1. Stream \in Seq(Unit) /\ WatchEvents \in Seq(Watches)
          BY Facts DEF IInv
        <4>. QED
          BY <4>1, CountIs, Zenon DEF Ends
      <3>4. Ends(v, Stream') = Ends(v, Stream) + (IF v = call.watch THEN 1 ELSE 0)
        BY <1>11
      <3>. QED
        BY <2>2, <2>4, <3>1, <3>2, <3>3, <3>4
    <2>. QED
      BY <2>1, <2>3, <2>5 DEF Accounting
  <1>. QED
    BY <1>6, <1>13, <1>14, <1>16, <1>17, <1>18 DEF IInv

\* A complete request is executed and answered.
LEMMA ReplyStep == ASSUME IInv, ServerReply PROVE IInv'
  <1>. DEFINE answer == Msg(call.type, call.watch, call.id, 1)
              error  == Msg("XS_ERROR", call.watch, call.id, 1)
              event  == EventFor(call.watch)
  <1>1. /\ Complete(server.in) /\ ~server.broken
        /\ UNCHANGED <<pc, call, Data, Message, Token, closing, live, RegisteredWatches, WatchEvents,
                       ReplyList, matched, EventChannelEvent, req, rsp, connection>>
    BY DEF ServerReply, client, lists
  <1>2. server.in[1][1] = call /\ Request /\ call \in Msgs
    BY <1>1, RequestComplete
  <1>3. server \in Service /\ <<>> \in Seq(Unit) /\ server.out \in Seq(Unit) /\ server.watches \subseteq Watches
    BY Facts DEF IInv, Types
  <1>4. /\ answer \in Msgs /\ error \in Msgs
        /\ call.type = "XS_WATCH" => event \in Msgs /\ call.watch \in Watches
    BY <1>2 DEF Msg, Msgs, Request, EventFor
  <1>5. \/ /\ call.type = "XS_READ"
           /\ \E r \in {answer, error} :
                 server' = [server EXCEPT !.in = <<>>, !.out = server.out \o Units(r)]
           /\ UNCHANGED undelivered
        \/ /\ call.type = "XS_WATCH"
           /\ server' = [server EXCEPT !.in = <<>>, !.watches = server.watches \cup {call.watch},
                            !.out = (server.out \o Units(answer)) \o Units(event)]
           /\ undelivered' = [undelivered EXCEPT ![call.watch] = 1]
        \/ /\ call.type = "XS_WATCH"
           /\ server' = [server EXCEPT !.in = <<>>, !.out = server.out \o Units(error)]
           /\ UNCHANGED undelivered
        \/ /\ call.type = "XS_UNWATCH"
           /\ server' = [server EXCEPT !.in = <<>>, !.watches = server.watches \ {call.watch},
                                       !.out = server.out \o Units(answer)]
           /\ UNCHANGED undelivered
    BY <1>2 DEF ServerReply, Send
  <1>. HIDE DEF answer, error, event
  <1>6. ASSUME NEW r \in Msgs PROVE server.out \o Units(r) \in Seq(Unit)
    BY <1>3, UnitsAre, ConcatProperties
  <1>7. ASSUME NEW r \in Msgs, NEW W, W \subseteq Watches, W = server.watches \/ call.type = "XS_UNWATCH",
               server' = [server EXCEPT !.in = <<>>, !.watches = W, !.out = server.out \o Units(r)],
               \/ r = answer /\ call.type # "XS_WATCH"
               \/ r = error /\ call.type # "XS_UNWATCH",
               call.type = "XS_UNWATCH" => W = server.watches \ {call.watch},
               UNCHANGED undelivered
        PROVE  IInv'
    <2>. DEFINE o == server.out \o Units(r)
    <2>1. o \in Seq(Unit) /\ server' = [server EXCEPT !.in = <<>>, !.watches = W, !.out = o]
      BY <1>6, <1>7
    <2>. HIDE DEF o
    <2>2. /\ server' \in Service /\ server'.in = <<>> /\ server'.out = o /\ server'.watches = W
          /\ server'.reconnects = server.reconnects /\ server'.broken = server.broken
      BY <1>3, <1>7, <2>1 DEF Service
    <2>3. server'.out = server.out \o Units(r)
      BY <2>2 DEF o
    <2>4. server'.watches = IF call.type = "XS_UNWATCH" THEN server.watches \ {call.watch}
                                                        ELSE server.watches
      BY <1>7, <2>2
    <2>. QED
      BY <1>1, <1>7, <2>2, <2>3, <2>4, AnswerOnly DEF answer, error
  <1>8. ASSUME NEW r \in Msgs,
               server' = [server EXCEPT !.in = <<>>, !.out = server.out \o Units(r)]
        PROVE  server' = [server EXCEPT !.in = <<>>, !.watches = server.watches,
                                        !.out = server.out \o Units(r)]
    <2>. DEFINE o == server.out \o Units(r)
    <2>. HIDE DEF o
    <2>1. [server EXCEPT !.in = <<>>, !.out = o] = [server EXCEPT !.in = <<>>, !.watches = server.watches, !.out = o]
      BY <1>3 DEF Service
    <2>. QED
      BY <1>8, <2>1 DEF o
  <1>9. CASE /\ call.type = "XS_READ"
             /\ \E r \in {answer, error} :
                   server' = [server EXCEPT !.in = <<>>, !.out = server.out \o Units(r)]
             /\ UNCHANGED undelivered
    <2>1. PICK r \in {answer, error} : server' = [server EXCEPT !.in = <<>>, !.out = server.out \o Units(r)]
      BY <1>9
    <2>2. r \in Msgs
      BY <1>4, <2>1
    <2>3. server' = [server EXCEPT !.in = <<>>, !.watches = server.watches, !.out = server.out \o Units(r)]
      BY <1>8, <2>1, <2>2, Zenon
    <2>4. \/ r = answer /\ call.type # "XS_WATCH"
          \/ r = error /\ call.type # "XS_UNWATCH"
      BY <1>9, <2>1
    <2>5. call.type # "XS_UNWATCH"
      BY <1>9
    <2>. QED
      BY <1>3, <1>7, <1>9, <2>2, <2>3, <2>4, <2>5, Zenon
  <1>10. CASE /\ call.type = "XS_WATCH"
              /\ server' = [server EXCEPT !.in = <<>>, !.watches = server.watches \cup {call.watch},
                               !.out = (server.out \o Units(answer)) \o Units(event)]
              /\ undelivered' = [undelivered EXCEPT ![call.watch] = 1]
    <2>. DEFINE o == (server.out \o Units(answer)) \o Units(event)
                W == server.watches \cup {call.watch}
    <2>1. o \in Seq(Unit) /\ W \in SUBSET Watches
      BY <1>3, <1>4, <1>6, <1>10, UnitsAre, ConcatProperties
    <2>2. server' = [server EXCEPT !.in = <<>>, !.watches = W, !.out = o]
      BY <1>10
    <2>. HIDE DEF o, W
    <2>3. /\ server' \in Service /\ server'.in = <<>> /\ server'.out = o /\ server'.watches = W
          /\ server'.reconnects = server.reconnects /\ server'.broken = server.broken
      BY <1>3, <2>1, <2>2 DEF Service
    <2>4. /\ server'.out = (server.out \o Units(answer)) \o Units(event)
          /\ server'.watches = server.watches \cup {call.watch}
      BY <2>3 DEF o, W
    <2>. QED
      BY <1>1, <1>10, <2>3, <2>4, AnswerAndFire DEF answer, event
  <1>11. CASE /\ call.type = "XS_WATCH"
              /\ server' = [server EXCEPT !.in = <<>>, !.out = server.out \o Units(error)]
              /\ UNCHANGED undelivered
    <2>1. server' = [server EXCEPT !.in = <<>>, !.watches = server.watches, !.out = server.out \o Units(error)]
      BY <1>4, <1>8, <1>11, Zenon
    <2>2. call.type # "XS_UNWATCH"
      BY <1>11
    <2>. QED
      BY <1>3, <1>4, <1>7, <1>11, <2>1, <2>2, Zenon
  <1>12. CASE /\ call.type = "XS_UNWATCH"
              /\ server' = [server EXCEPT !.in = <<>>, !.watches = server.watches \ {call.watch},
                                          !.out = server.out \o Units(answer)]
              /\ UNCHANGED undelivered
    <2>. DEFINE W == server.watches \ {call.watch}
    <2>1. W \subseteq Watches /\ call.type # "XS_WATCH"
      BY <1>3, <1>12
    <2>2. W = server.watches \ {call.watch}
      OBVIOUS
    <2>3. server' = [server EXCEPT !.in = <<>>, !.watches = W, !.out = server.out \o Units(answer)]
      BY <1>12
    <2>. HIDE DEF W
    <2>. QED
      BY <1>4, <1>7, <1>12, <2>1, <2>2, <2>3, Zenon
  <1>. QED
    BY <1>5, <1>9, <1>10, <1>11, <1>12

-----------------------------------------------------------------------------
(* The client's side of a request.                                         *)

\* XenStoreReadReply() takes the answer to this call, and the watch is dealt with.
LEMMA ReadReplyStep == ASSUME IInv, XenStoreReadReply PROVE IInv'
  <1>1. /\ pc = "reply" /\ ReplyList # <<>> /\ ReplyList' = Tail(ReplyList)
        /\ matched' = (matched /\ ReplyList[1].type \in {"XS_ERROR", call.type}
                               /\ ReplyList[1].watch = call.watch /\ ReplyList[1].id = call.id)
        /\ AfterReply(ReplyList[1])
        /\ pc' = "idle" /\ call' = [NoCall EXCEPT !.id = call.id]
        /\ UNCHANGED <<Data, Message, Token, closing, EventChannelEvent, req, rsp, connection, server>>
    BY DEF XenStoreReadReply
  <1>2. Request /\ Answered /\ call \in Msgs
    BY <1>1 DEF IInv, Types, Calling, Asking, Unanswered
  <1>3. PICK r \in Msgs : ReplyList = <<r>> /\ Outcome(r)
    BY <1>1, <1>2 DEF Answered
  <1>4. \A j \in DOMAIN InFlight : IsEvent(InFlight[j])
    BY <1>1, <1>2 DEF Answered
  <1>5. Data = <<>> /\ ~server.broken /\ Asked = <<>>
    BY <1>2 DEF Answered
  <1>6. ReplyList[1] = r /\ ReplyList' = <<>>
    BY <1>1, <1>3
  <1>7. matched'
    <2>1. r.type \in {"XS_ERROR", call.type} /\ r.watch = call.watch /\ r.id = call.id
      BY <1>3 DEF Outcome, Msg
    <2>. QED
      BY <1>1, <1>6, <2>1 DEF IInv
  <1>8. call' \in Msgs /\ call'.type = None
    BY <1>1, <1>2 DEF NoCall, Msg, Msgs, None
  <1>9. Stream' = Stream /\ InFlight' = InFlight /\ Asked' = Asked
    BY <1>1 DEF Stream, InFlight, Asked
  <1>10. /\ WatchEvents \in Seq(Watches) /\ undelivered \in [Watches -> 0 .. MaxEvents]
         /\ MaxEvents \in Nat /\ RegisteredWatches \subseteq live /\ live \subseteq Watches
    BY Facts, XenStoreAssumption DEF IInv
  <1>11. /\ live = IF call.type = "XS_UNWATCH" THEN RegisteredWatches \cup {call.watch}
                                               ELSE RegisteredWatches
         /\ call.type = "XS_UNWATCH" => call.watch \notin RegisteredWatches
         /\ server.watches \subseteq live
    BY DEF IInv, Control
  <1>12. /\ \A i \in DOMAIN WatchEvents :
               WatchEvents[i] \in server.watches \/ Leaving(WatchEvents[i])
         /\ \A w \in Watches : undelivered[w] # 0 => w \in server.watches \/ Leaving(w)
         /\ \A w \in RegisteredWatches :
               undelivered[w] = Ends(w, Stream) + Count(w, WatchEvents)
    BY DEF IInv, Accounting
  <1>13. /\ live' = RegisteredWatches' /\ server.watches \subseteq live' /\ live' \subseteq Watches
         /\ WatchEvents' \in Seq(Watches) /\ undelivered' \in [Watches -> 0 .. MaxEvents]
         /\ \A i \in DOMAIN WatchEvents' : WatchEvents'[i] \in server.watches
         /\ \A w \in Watches : undelivered'[w] # 0 => w \in server.watches
         /\ \A w \in RegisteredWatches' :
               undelivered'[w] = Ends(w, Stream) + Count(w, WatchEvents')
    <2>1. CASE call.type = "XS_WATCH" /\ r.type = "XS_ERROR"
      <3>1. /\ RegisteredWatches' = RegisteredWatches \ {call.watch} /\ live' = live \ {call.watch}
            /\ WatchEvents' = WatchEvents /\ undelivered' = undelivered
        BY <1>1, <1>6, <2>1 DEF AfterReply
      <3>2. call.watch \notin server.watches
        BY <1>3, <2>1 DEF Outcome
      <3>3. \A w : ~Leaving(w)
        BY <2>1 DEF Leaving
      <3>. QED
        BY <1>10, <1>11, <1>12, <2>1, <3>1, <3>2, <3>3
    <2>2. CASE call.type = "XS_UNWATCH"
      <3>1. /\ RegisteredWatches' = RegisteredWatches /\ live' = live \ {call.watch}
            /\ WatchEvents' = Remove(WatchEvents, call.watch)
            /\ undelivered' = [undelivered EXCEPT ![call.watch] = 0]
        BY <1>1, <1>6, <2>2 DEF AfterReply
      <3>2. call.watch \notin server.watches /\ call.watch \in Watches
        BY <1>2, <1>3, <2>2 DEF Outcome, Request
      <3>3. \A w : Leaving(w) <=> w = call.watch
        BY <2>2 DEF Leaving
      <3>4. /\ WatchEvents' \in Seq(Watches) /\ Count(call.watch, WatchEvents') = 0
            /\ \A y \in Watches : y # call.watch => Count(y, WatchEvents') = Count(y, WatchEvents)
        BY <1>10, <3>1, RemoveIs
      <3>5. ASSUME NEW i \in DOMAIN WatchEvents' PROVE WatchEvents'[i] \in server.watches
        <4>. DEFINE y == WatchEvents'[i]
        <4>1. y \in Watches
          BY <3>4
        <4>2. Count(y, WatchEvents') # 0
          BY <3>4, CountIs
        <4>. HIDE DEF y
        <4>3. y # call.watch
          BY <3>4, <4>2
        <4>4. Count(y, WatchEvents) # 0
          BY <3>4, <4>1, <4>2, <4>3
        <4>5. PICK k \in DOMAIN WatchEvents : WatchEvents[k] = y
          BY <1>10, <4>4, CountIs
        <4>6. y \in server.watches
          BY <1>12, <3>3, <4>3, <4>5
        <4>. QED
          BY <4>6 DEF y
      <3>6. undelivered' \in [Watches -> 0 .. MaxEvents]
        <4>1. 0 \in 0 .. MaxEvents
          BY <1>10
        <4>. QED
          BY <1>10, <3>1, <4>1
      <3>7. \A w \in Watches : undelivered'[w] = IF w = call.watch THEN 0 ELSE undelivered[w]
        BY <1>10, <3>1
      <3>8. \A w \in Watches : undelivered'[w] # 0 => w \in server.watches
        BY <1>12, <3>3, <3>7
      <3>9. ASSUME NEW w \in RegisteredWatches'
            PROVE  undelivered'[w] = Ends(w, Stream) + Count(w, WatchEvents')
        <4>1. w \in Watches /\ w \in RegisteredWatches /\ w # call.watch
          BY <1>10, <1>11, <2>2, <3>1
        <4>. QED
          BY <1>12, <3>4, <3>7, <4>1
      <3>10. /\ live' = RegisteredWatches' /\ server.watches \subseteq live' /\ live' \subseteq Watches
        BY <1>10, <1>11, <2>2, <3>1, <3>2
      <3>. QED
        BY <3>4, <3>5, <3>6, <3>8, <3>9, <3>10
    <2>3. CASE call.type # "XS_UNWATCH" /\ ~(call.type = "XS_WATCH" /\ r.type = "XS_ERROR")
      <3>1. /\ RegisteredWatches' = RegisteredWatches /\ live' = live
            /\ WatchEvents' = WatchEvents /\ undelivered' = undelivered
        BY <1>1, <1>6, <2>3 DEF AfterReply
      <3>2. \A w : ~Leaving(w)
        BY <2>3 DEF Leaving
      <3>. QED
        BY <1>10, <1>11, <1>12, <2>3, <3>1, <3>2
    <2>. QED
      BY <2>1, <2>2, <2>3
  <1>14. Types'
    <2>1. TypeOK'
      BY <1>1, <1>7, <1>13 DEF IInv, Types, TypeOK, RingOK
    <2>2. ReplyList' \in Seq(Msgs)
      BY <1>6
    <2>. QED
      BY <1>1, <1>8, <2>1, <2>2 DEF IInv, Types
  <1>15. Control'
    BY <1>1, <1>8, <1>13 DEF IInv, Control, Up, None
  <1>16. Indices'
    BY <1>1, <1>5 DEF IInv, Indices, Up
  <1>17. Calling'
    BY <1>1, <1>4, <1>5, <1>6, <1>8, <1>9 DEF Calling, Asking
  <1>18. Streaming'
    BY <1>1, <1>4, <1>9 DEF IInv, Streaming, Up
  <1>19. Accounting'
    BY <1>1, <1>9, <1>13 DEF Accounting
  <1>. QED
    BY <1>7, <1>14, <1>15, <1>16, <1>17, <1>18, <1>19 DEF IInv

\* The body of a request goes out one part after the other.
LEMMA SinglesAre ==
    ASSUME NEW m \in Msgs, NEW p \in 0 .. HeaderLen + m.len
    PROVE  /\ Singles(m, p) \in Seq(Seq(Unit))
           /\ p = HeaderLen + m.len => Singles(m, p) = <<>>
           /\ p # HeaderLen + m.len =>
                 Singles(m, p) = <<SubSeq(Units(m), p + 1, p + 1)>> \o Singles(m, p + 1)
  <1>. DEFINE N == HeaderLen + m.len
              U == Units(m)
  <1>1. U \in Seq(Unit) /\ Len(U) = N /\ N \in Nat /\ p \in 0 .. N
    BY UnitsAre DEF HeaderLen
  <1>2. ASSUME NEW q \in 0 .. N PROVE Singles(m, q) = [k \in 1 .. N - q |-> <<U[q + k]>>]
    <2>1. HeaderLen + m.len - q = N - q
      BY UnitsAre DEF HeaderLen
    <2>2. Singles(m, q) = [k \in 1 .. HeaderLen + m.len - q |-> <<U[q + k]>>]
      BY DEF Singles
    <2>. HIDE DEF N, U
    <2>. QED
      BY <2>1, <2>2
  <1>. HIDE DEF N, U
  <1>3. ASSUME NEW q \in 0 .. N
        PROVE  /\ Singles(m, q) \in Seq(Seq(Unit)) /\ Len(Singles(m, q)) = N - q
               /\ \A k \in 1 .. N - q : Singles(m, q)[k] = <<U[q + k]>>
    <2>1. \A k \in 1 .. N - q : U[q + k] \in Unit
      BY <1>1
    <2>2. \A k \in 1 .. N - q : <<U[q + k]>> \in Seq(Unit)
      BY <2>1
    <2>3. N - q \in Nat
      BY <1>1
    <2>. DEFINE K == N - q
                part(k) == <<U[q + k]>>
                f == [k \in 1 .. K |-> part(k)]
    <2>4. f \in Seq(Seq(Unit)) /\ Len(f) = K /\ \A k \in 1 .. K : f[k] = part(k)
      <3>1. K \in Nat /\ \A k \in 1 .. K : part(k) \in Seq(Unit)
        BY <2>2, <2>3
      <3>. HIDE DEF K, part
      <3>. QED
        BY <3>1
    <2>5. Singles(m, q) = f
      BY <1>2, Zenon
    <2>. HIDE DEF f
    <2>. QED
      BY <2>4, <2>5
  <1>4. p = N => Singles(m, p) = <<>>
    <2>1. p = N => Len(Singles(m, p)) = 0
      BY <1>1, <1>3
    <2>. QED
      BY <1>1, <1>3, <2>1, EmptySeq
  <1>5. ASSUME p # N PROVE Singles(m, p) = <<SubSeq(U, p + 1, p + 1)>> \o Singles(m, p + 1)
    <2>. DEFINE one == SubSeq(U, p + 1, p + 1)
                s == Singles(m, p)
                t == Singles(m, p + 1)
    <2>1. p + 1 \in 0 .. N /\ p + 1 \in 1 .. Len(U) /\ p \in Nat
      BY <1>1, <1>5
    <2>2. one = <<U[p + 1]>> /\ one \in Seq(Unit)
      <3>1. one \in Seq(Unit) /\ Len(one) = 1 /\ one[1] = U[p + 1]
        BY <1>1, <2>1
      <3>. HIDE DEF one
      <3>. QED
        BY <3>1
    <2>3. /\ s \in Seq(Seq(Unit)) /\ Len(s) = N - p /\ \A k \in 1 .. N - p : s[k] = <<U[p + k]>>
      BY <1>1, <1>3
    <2>4. /\ t \in Seq(Seq(Unit)) /\ Len(t) = N - (p + 1)
          /\ \A k \in 1 .. N - (p + 1) : t[k] = <<U[p + 1 + k]>>
      BY <1>3, <2>1
    <2>. HIDE DEF one, s, t
    <2>. DEFINE both == <<one>> \o t
    <2>5. /\ both \in Seq(Seq(Unit)) /\ Len(both) = 1 + Len(t)
          /\ \A k \in 1 .. 1 + Len(t) : both[k] = IF k <= 1 THEN one ELSE t[k - 1]
      <3>1. <<one>> \in Seq(Seq(Unit)) /\ Len(<<one>>) = 1 /\ <<one>>[1] = one
        BY <2>2
      <3>. QED
        BY <2>4, <3>1, ConcatProperties
    <2>. HIDE DEF both
    <2>6. Len(both) = Len(s)
      BY <1>1, <2>1, <2>3, <2>4, <2>5
    <2>7. ASSUME NEW k \in 1 .. Len(s) PROVE both[k] = s[k]
      <3>1. k \in 1 .. N - p /\ N - p \in Nat
        BY <1>1, <2>3
      <3>2. s[k] = <<U[p + k]>>
        BY <2>3, <3>1
      <3>3. CASE k = 1
        BY <2>2, <2>5, <2>6, <3>2, <3>3
      <3>4. CASE k # 1
        <4>1. k - 1 \in 1 .. N - (p + 1) /\ p + 1 + (k - 1) = p + k
          BY <1>1, <2>1, <3>1, <3>4
        <4>2. both[k] = t[k - 1]
          BY <2>5, <2>6, <3>4
        <4>. QED
          BY <2>4, <3>2, <4>1, <4>2
      <3>. QED
        BY <3>3, <3>4
    <2>8. both = s
      BY <2>3, <2>5, <2>6, <2>7, SeqEqual
    <2>. QED
      BY <2>8 DEF both, s, t, one
  <1>. QED
    BY <1>1, <1>3, <1>4, <1>5 DEF N, U

\* The part that is being written, and the others.
LEMMA PartsLeft ==
    ASSUME NEW m \in Msgs, NEW p \in 0 .. HeaderLen + m.len, p # HeaderLen + m.len,
           NEW D, D = DataLeft(m, p)
    PROVE  /\ D \in Seq(Seq(Unit)) /\ D # <<>>
           /\ D[1] = SubSeq(Units(m), p + 1, PartEnd(p)) /\ D[1] \in Seq(Unit)
           /\ Len(D[1]) = PartEnd(p) - p
           /\ Tail(D) = Singles(m, PartEnd(p))
           /\ PartEnd(p) \in p + 1 .. HeaderLen + m.len /\ PartEnd(p) >= HeaderLen
  <1>. DEFINE q == PartEnd(p)
              head == SubSeq(Units(m), p + 1, q)
              rest == Singles(m, q)
  <1>1. /\ Units(m) \in Seq(Unit) /\ Len(Units(m)) = 2 + m.len /\ m.len \in 0 .. 2
        /\ p \in 0 .. 2 + m.len /\ p # 2 + m.len
    BY UnitsAre DEF HeaderLen
  <1>2. q \in p + 1 .. 2 + m.len /\ q >= 2 /\ q \in 0 .. 2 + m.len
    BY <1>1 DEF PartEnd, HeaderLen
  <1>3. D = <<head>> \o rest
    BY DEF DataLeft
  <1>. HIDE DEF q
  <1>4. head \in Seq(Unit) /\ Len(head) = q - p
    BY <1>1, <1>2
  <1>5. rest \in Seq(Seq(Unit))
    BY <1>2, SinglesAre DEF HeaderLen
  <1>. HIDE DEF head, rest
  <1>6. <<head>> \in Seq(Seq(Unit)) /\ Len(<<head>>) = 1 /\ <<head>>[1] = head
    BY <1>4
  <1>7. /\ D \in Seq(Seq(Unit)) /\ Len(D) = 1 + Len(rest)
        /\ \A k \in 1 .. 1 + Len(rest) : D[k] = IF k <= 1 THEN head ELSE rest[k - 1]
    BY <1>3, <1>5, <1>6, ConcatProperties
  <1>8. D # <<>> /\ D[1] = head
    BY <1>5, <1>7
  <1>9. Tail(D) = rest
    <2>1. Tail(D) \in Seq(Seq(Unit)) /\ Len(Tail(D)) = Len(rest)
      BY <1>5, <1>7, <1>8
    <2>2. ASSUME NEW k \in 1 .. Len(rest) PROVE Tail(D)[k] = rest[k]
      <3>1. Tail(D)[k] = D[k + 1]
        BY <1>5, <1>7, <1>8
      <3>2. k + 1 \in 1 .. 1 + Len(rest) /\ ~(k + 1 <= 1) /\ k + 1 - 1 = k
        BY <1>5
      <3>. QED
        BY <1>7, <3>1, <3>2
    <2>. QED
      BY <1>5, <2>1, <2>2, SeqEqual
  <1>. QED
    BY <1>2, <1>4, <1>7, <1>8, <1>9 DEF head, rest, q, HeaderLen

\* The length of a part.
LEMMA SubSeqLen ==
    ASSUME NEW s \in Seq(Unit), NEW a \in Int, NEW b \in Int, a >= 1, a <= b + 1, b >= 0, b <= Len(s)
    PROVE  SubSeq(s, a, b) \in Seq(Unit) /\ Len(SubSeq(s, a, b)) = b + 1 - a
  OBVIOUS

\* n units more are written.
RestOf(D, n) == SubSeq(D[1], n + 1, Len(D[1]))
Then(D, n, E) == E = IF RestOf(D, n) = <<>> THEN Tail(D) ELSE <<RestOf(D, n)>> \o Tail(D)

\* XenStoreWriteStore() has written the units of the request up to p, and then up to p + n.
LEMMA PartWritten ==
    ASSUME NEW m \in Msgs, NEW p \in 0 .. HeaderLen + m.len, p # HeaderLen + m.len,
           NEW D, D = DataLeft(m, p), NEW n \in 1 .. Len(D[1]), NEW E, Then(D, n, E)
    PROVE  /\ p + n \in 0 .. HeaderLen + m.len
           /\ Slice(D[1], n) = SubSeq(Units(m), p + 1, p + n)
           /\ E = DataLeft(m, p + n) /\ E \in Seq(Seq(Unit))
           /\ E = <<>> <=> p + n = HeaderLen + m.len
  <1>. DEFINE q == PartEnd(p)
              U == Units(m)
              rest == RestOf(D, n)
  <1>1. /\ D[1] = SubSeq(U, p + 1, q) /\ D[1] \in Seq(Unit) /\ Len(D[1]) = q - p
        /\ Tail(D) = Singles(m, q) /\ q \in p + 1 .. HeaderLen + m.len /\ q >= HeaderLen
    BY PartsLeft
  <1>2. /\ U \in Seq(Unit) /\ Len(U) = 2 + m.len /\ m.len \in 0 .. 2
        /\ p \in 0 .. 2 + m.len /\ p # 2 + m.len
    BY UnitsAre DEF HeaderLen
  <1>3. /\ q \in p + 1 .. 2 + m.len /\ q >= 2 /\ n \in 1 .. q - p /\ p + n \in 0 .. 2 + m.len
    <2>1. q \in p + 1 .. 2 + m.len /\ q >= 2
      BY <1>1 DEF HeaderLen
    <2>. HIDE DEF q
    <2>. QED
      BY <1>1, <1>2, <2>1
  <1>4. p < 2 => q = 2
    BY DEF PartEnd, HeaderLen
  <1>5. p >= 2 => q = p + 1
    BY <1>2 DEF PartEnd, HeaderLen
  <1>6. E = IF rest = <<>> THEN Tail(D) ELSE <<rest>> \o Tail(D)
    BY DEF Then
  <1>. HIDE DEF q, U, rest
  <1>7. ASSUME NEW a \in 1 .. q - p + 1, NEW b \in 0 .. q - p
        PROVE  SubSeq(SubSeq(U, p + 1, q), a, b) = SubSeq(U, p + a, p + b)
    <2>. DEFINE s == SubSeq(U, p + 1, q)
    <2>1. /\ s \in Seq(Unit) /\ Len(s) = q - p /\ \A k \in 1 .. q - p : s[k] = U[p + k]
      BY <1>2, <1>3
    <2>. HIDE DEF s
    <2>. DEFINE x == SubSeq(s, a, b)
                y == SubSeq(U, p + a, p + b)
    <2>2. /\ x \in Seq(Unit) /\ Len(x) = IF a <= b THEN b - a + 1 ELSE 0
          /\ \A k \in 1 .. b - a + 1 : x[k] = s[a + k - 1]
      <3>. DEFINE L == q - p
      <3>1. L \in Nat /\ a \in 1 .. L + 1 /\ b \in 0 .. L /\ Len(s) = L /\ s \in Seq(Unit)
        BY <1>2, <1>3, <2>1
      <3>. HIDE DEF L
      <3>. QED
        BY <3>1
    <2>3. /\ y \in Seq(Unit) /\ Len(y) = IF a <= b THEN b - a + 1 ELSE 0
          /\ \A k \in 1 .. b - a + 1 : y[k] = U[p + a + k - 1]
      BY <1>2, <1>3
    <2>. HIDE DEF x, y
    <2>4. ASSUME NEW k \in 1 .. Len(x) PROVE x[k] = y[k]
      <3>1. k \in 1 .. b - a + 1 /\ a + k - 1 \in 1 .. q - p /\ p + (a + k - 1) = p + a + k - 1
        BY <1>2, <1>3, <2>2
      <3>. QED
        BY <2>1, <2>2, <2>3, <3>1
    <2>5. x = y
      BY <2>2, <2>3, <2>4, SeqEqual
    <2>. QED
      BY <2>5 DEF x, y, s
  <1>8. Slice(D[1], n) = SubSeq(U, p + 1, p + n)
    <2>1. 1 \in 1 .. q - p + 1 /\ n \in 0 .. q - p
      BY <1>2, <1>3
    <2>. QED
      BY <1>1, <1>7, <2>1 DEF Slice
  <1>9. rest = SubSeq(U, p + n + 1, q)
    <2>1. n + 1 \in 1 .. q - p + 1 /\ q - p \in 0 .. q - p /\ p + (n + 1) = p + n + 1 /\ p + (q - p) = q
      BY <1>2, <1>3
    <2>2. rest = SubSeq(SubSeq(U, p + 1, q), n + 1, q - p)
      BY <1>1 DEF rest, RestOf
    <2>3. SubSeq(SubSeq(U, p + 1, q), n + 1, q - p) = SubSeq(U, p + (n + 1), p + (q - p))
      BY <1>7, <2>1
    <2>. QED
      BY <2>1, <2>2, <2>3
  <1>10. rest \in Seq(Unit) /\ (rest = <<>> <=> p + n = q)
    <2>. DEFINE c == p + n + 1
    <2>1. c \in Int /\ c >= 1 /\ c <= q + 1 /\ q \in Int /\ q >= 0 /\ q <= Len(U) /\ q - (p + n) = q + 1 - c
      BY <1>2, <1>3
    <2>2. rest = SubSeq(U, c, q)
      BY <1>9
    <2>3. p + n = q <=> q + 1 - c = 0
      BY <1>2, <1>3
    <2>. HIDE DEF c
    <2>4. rest \in Seq(Unit) /\ Len(rest) = q + 1 - c
      BY <1>2, <2>1, <2>2, SubSeqLen, Zenon
    <2>. QED
      BY <2>3, <2>4, EmptySeq
  <1>11. E = DataLeft(m, p + n)
    <2>1. CASE p + n = q
      <3>1. E = Singles(m, q)
        BY <1>1, <1>6, <1>10, <2>1
      <3>2. CASE q = HeaderLen + m.len
        <4>1. Singles(m, q) = <<>>
          <5>1. q \in 0 .. HeaderLen + m.len
            BY <1>2, <1>3 DEF HeaderLen
          <5>. QED
            BY <3>2, <5>1, SinglesAre
        <4>. QED
          BY <2>1, <3>1, <3>2, <4>1 DEF DataLeft
      <3>3. CASE q # HeaderLen + m.len
        <4>1. q \in 0 .. HeaderLen + m.len
          BY <1>2, <1>3 DEF HeaderLen
        <4>2. Singles(m, q) = <<SubSeq(Units(m), q + 1, q + 1)>> \o Singles(m, q + 1)
          BY <3>3, <4>1, SinglesAre
        <4>3. PartEnd(q) = q + 1
          BY <1>3 DEF PartEnd, HeaderLen
        <4>4. DataLeft(m, q) = <<SubSeq(Units(m), q + 1, q + 1)>> \o Singles(m, q + 1)
          BY <3>3, <4>3 DEF DataLeft
        <4>. QED
          BY <2>1, <3>1, <4>2, <4>4
      <3>. QED
        BY <3>2, <3>3
    <2>2. CASE p + n # q
      <3>1. p < 2 /\ p + n < 2 /\ q = 2
        <4>1. p \in Int /\ n \in Int /\ q \in Int /\ n >= 1 /\ n <= q - p
          BY <1>2, <1>3
        <4>2. p < 2
          BY <1>5, <2>2, <4>1
        <4>. QED
          BY <1>4, <2>2, <4>1, <4>2
      <3>2. PartEnd(p + n) = q /\ p + n # HeaderLen + m.len
        BY <1>2, <3>1 DEF PartEnd, HeaderLen
      <3>3. E = <<rest>> \o Singles(m, q)
        BY <1>1, <1>6, <1>10, <2>2
      <3>. QED
        BY <1>9, <3>2, <3>3 DEF DataLeft, U
    <2>. QED
      BY <2>1, <2>2
  <1>12. p + n \in 0 .. HeaderLen + m.len
    BY <1>3 DEF HeaderLen
  <1>13. E \in Seq(Seq(Unit)) /\ (E = <<>> <=> p + n = HeaderLen + m.len)
    <2>1. CASE p + n = HeaderLen + m.len
      <3>1. E = <<>>
        BY <1>11, <2>1 DEF DataLeft
      <3>. QED
        BY <2>1, <3>1, EmptySeq
    <2>2. CASE p + n # HeaderLen + m.len
      BY <1>11, <1>12, <2>2, PartsLeft
    <2>. QED
      BY <2>1, <2>2
  <1>. QED
    BY <1>8, <1>11, <1>12, <1>13 DEF U

\* One turn of XenStoreWriteStore().
LEMMA WriteStoreStep == ASSUME IInv, XenStoreWriteStore PROVE IInv'
  <1>1. /\ pc = "write" /\ Filled(req) < RING_SIZE /\ server' = Notify
        /\ pc' = IF Data' = <<>> THEN "reply" ELSE "write"
        /\ UNCHANGED <<call, Message, Token, closing, live, RegisteredWatches, WatchEvents, ReplyList,
                       matched, EventChannelEvent, rsp, connection, undelivered>>
    BY DEF XenStoreWriteStore, lists
  <1>2. PICK n \in 1 .. Smaller(GetOutputChunk(req), Len(Data[1])) :
           /\ req' = Produce(req, Slice(Data[1], n))
           /\ Data' = IF SubSeq(Data[1], n + 1, Len(Data[1])) = <<>> THEN Tail(Data)
                      ELSE <<SubSeq(Data[1], n + 1, Len(Data[1]))>> \o Tail(Data)
    BY DEF XenStoreWriteStore
  <1>3. Request /\ Unanswered /\ call \in Msgs /\ server \in Service /\ req \in Ring
    BY <1>1 DEF IInv, Types, Calling, Asking, Answered
  <1>4. PICK p \in 0 .. HeaderLen + call.len :
           Data = DataLeft(call, p) /\ (~server.broken => Asked = SubSeq(Units(call), 1, p))
    BY <1>3 DEF Unanswered
  <1>5. p # HeaderLen + call.len
    <2>1. Data # <<>>
      BY <1>1, <1>3 DEF Unanswered
    <2>. QED
      BY <1>4, <2>1 DEF DataLeft
  <1>6. Data[1] \in Seq(Unit) /\ Len(Data[1]) \in Nat
    BY <1>3, <1>4, <1>5, PartsLeft
  <1>7. n \in 1 .. Len(Data[1]) /\ n <= RING_SIZE - Filled(req) /\ Filled(req) \in Nat /\ RING_SIZE \in Nat
    <2>1. Filled(req) \in Nat /\ RING_SIZE \in Nat \ {0} /\ req.prod \in Int
      BY Facts, XenStoreAssumption, <1>3 DEF IInv, Ring
    <2>2. GetOutputChunk(req) \in Int /\ GetOutputChunk(req) <= RING_SIZE - Filled(req)
      BY <2>1 DEF GetOutputChunk, Smaller
    <2>. QED
      BY <1>6, <2>1, <2>2 DEF Smaller
  <1>. DEFINE a == Slice(Data[1], n)
  <1>8. /\ p + n \in 0 .. HeaderLen + call.len
        /\ a = SubSeq(Units(call), p + 1, p + n)
        /\ Data' = DataLeft(call, p + n) /\ Data' \in Seq(Seq(Unit))
        /\ Data' = <<>> <=> p + n = HeaderLen + call.len
    <2>1. Then(Data, n, Data')
      BY <1>2 DEF Then, RestOf
    <2>2. Data = DataLeft(call, p) /\ n \in 1 .. Len(Data[1]) /\ call \in Msgs
      BY <1>3, <1>4, <1>7
    <2>. QED
      BY <1>5, <2>1, <2>2, PartWritten
  <1>9. a \in Seq(Unit) /\ Len(a) = n
    BY <1>6, <1>7 DEF Slice
  <1>. HIDE DEF a
  <1>10. /\ req' \in Ring /\ Filled(req') = Filled(req) + n /\ InRing(req') = InRing(req) \o a
    <2>1. Filled(req) + Len(a) <= RING_SIZE
      BY <1>7, <1>9
    <2>2. /\ Produce(req, a) \in Ring /\ Filled(Produce(req, a)) = Filled(req) + Len(a)
          /\ InRing(Produce(req, a)) = InRing(req) \o a
      BY <1>3, <1>9, <2>1, ProduceIs
    <2>3. req' = Produce(req, a)
      BY <1>2 DEF a
    <2>. QED
      BY <1>9, <2>2, <2>3
  <1>11. Filled(req') <= RING_SIZE
    BY <1>7, <1>10
  <1>12. /\ server' \in Service /\ server'.in = server.in /\ server'.out = server.out
         /\ server'.watches = server.watches /\ server'.reconnects = server.reconnects
         /\ server'.broken = server.broken
    BY <1>1, <1>3 DEF Notify, Service
  <1>13. Types'
    <2>1. RingOK(req') /\ pc' \in {"reply", "write"}
      BY <1>1, <1>10 DEF RingOK, Ring
    <2>. QED
      BY <1>1, <1>8, <1>10, <1>12, <2>1 DEF IInv, Types, TypeOK, RingOK
  <1>14. Stream' = Stream /\ InFlight' = InFlight
    BY <1>1, <1>12 DEF Stream, InFlight
  <1>15. ~server.broken => Asked' = SubSeq(Units(call), 1, p + n)
    <2>1. Asked' = server'.in \o InRing(req')
      BY DEF Asked, InRing, Peek, Filled
    <2>2. server.in \in Seq(Unit) /\ InRing(req) \in Seq(Unit)
      BY Facts DEF IInv
    <2>3. server.in \o (InRing(req) \o a) = (server.in \o InRing(req)) \o a
      BY <1>9, <2>2, Associative, Zenon
    <2>4. Asked' = Asked \o a
      BY <1>10, <1>12, <2>1, <2>3 DEF Asked
    <2>5. SubSeq(Units(call), 1, p) \o SubSeq(Units(call), p + 1, p + n) = SubSeq(Units(call), 1, p + n)
      <3>. DEFINE U == Units(call)
      <3>1. U \in Seq(Unit) /\ Len(U) = HeaderLen + call.len
        BY <1>3, UnitsAre
      <3>. HIDE DEF U
      <3>2. 1 \in 1 .. Len(U) + 1 /\ p \in 1 - 1 .. Len(U) /\ p + n \in p .. Len(U)
        BY <1>7, <1>8, <3>1
      <3>3. SubSeq(U, 1, p) \o SubSeq(U, p + 1, p + n) = SubSeq(U, 1, p + n)
        BY <3>1, <3>2, ConcatAdjacentSubSeq, Zenon
      <3>. QED
        BY <3>3 DEF U
    <2>. QED
      BY <1>4, <1>8, <2>4, <2>5
  <1>16. Unanswered' /\ Request'
    <2>1. pc' = "write" <=> Data' # <<>>
      BY <1>1
    <2>2. \E k \in 0 .. HeaderLen + call.len :
             Data' = DataLeft(call, k) /\ (~server.broken => Asked' = SubSeq(Units(call), 1, k))
      BY <1>8, <1>15
    <2>. QED
      BY <1>1, <1>3, <1>12, <1>14, <2>1, <2>2 DEF Unanswered, Request
  <1>17. Calling'
    BY <1>1, <1>16 DEF Calling, Asking
  <1>18. Control' /\ Indices'
    <2>1. pc' \in {"write", "reply"}
      BY <1>1
    <2>. QED
      BY <1>1, <1>11, <1>12, <2>1 DEF IInv, Control, Indices, Up
  <1>19. Streaming' /\ Accounting'
    <2>1. Up
      BY <1>1 DEF Up
    <2>. QED
      BY <1>1, <1>12, <1>14, <2>1 DEF IInv, Streaming, Accounting, Leaving
  <1>. QED
    BY <1>1, <1>13, <1>17, <1>18, <1>19 DEF IInv

\* Every message on its way to the client has a body of one unit.
LEMMA InFlightLen ==
    ASSUME IInv, Up, NEW j \in DOMAIN InFlight
    PROVE  InFlight[j].len = 1
  <1>1. CASE IsEvent(InFlight[j])
    <2>1. InFlight[j] = EventFor(InFlight[j].watch)
      BY <1>1 DEF IInv, Streaming
    <2>2. \A w : EventFor(w).len = 1
      BY DEF EventFor, Msg
    <2>. QED
      BY <2>1, <2>2
  <1>2. CASE ~IsEvent(InFlight[j])
    <2>1. Asking /\ Answered
      BY <1>2 DEF IInv, Calling, Unanswered
    <2>2. Outcome(InFlight[j])
      BY <1>2, <2>1 DEF Answered
    <2>. QED
      BY <2>2 DEF Outcome, Msg
  <1>. QED
    BY <1>1, <1>2

\* What is read continues the message, and what is left follows it.
ReadOff(n) == Message \o Peek(rsp, n)
Behind(n)  == InRing(Consume(rsp, n)) \o server.out

\* What XenStoreReadStore() reads, with what it had, are the first units of the next message.
LEMMA StreamRead ==
    ASSUME IInv, ReadsRing, Filled(rsp) > 0,
           NEW n \in 1 .. Smaller(GetInputChunk(rsp), Wanted(Message)), NEW units, units = ReadOff(n)
    PROVE  /\ Up /\ ~server.broken
           /\ Consume(rsp, n) \in Ring /\ Filled(Consume(rsp, n)) <= RING_SIZE
           /\ units \in Seq(Unit) /\ Behind(n) \in Seq(Unit)
           /\ Split(Stream, units, Behind(n))
           /\ Len(units) >= 1 /\ Len(units) <= MsgLen
           /\ InFlight # <<>> /\ InFlight[1] \in Msgs
           /\ \A k \in 1 .. Len(units) : units[k] = <<InFlight[1], k>>
           /\ Len(units) = MsgLen => /\ Carried(Behind(n)) = Tail(InFlight)
                                     /\ Framed(Behind(n), Carried(Behind(n)))
           /\ Complete(units) <=> Len(units) = MsgLen
  <1>1. Up
    BY DEF ReadsRing, Up
  <1>2. ~server.broken /\ Filled(rsp) <= RING_SIZE
    BY <1>1 DEF IInv, Indices, Up
  <1>. DEFINE b == InRing(rsp) \o server.out
  <1>3. /\ Message \in Seq(Unit) /\ rsp \in Ring /\ server.out \in Seq(Unit) /\ Stream \in Seq(Unit)
        /\ b \in Seq(Unit) /\ InRing(rsp) \in Seq(Unit)
    BY Facts DEF IInv, Types
  <1>4. Framed(Stream, Carried(Stream)) /\ Len(Message) <= 2 /\ Len(Message) \in Nat
    BY <1>1, <1>3 DEF IInv, Streaming, InFlight, HeaderLen
  <1>5. Split(Stream, Message, b)
    BY DEF Split, Stream
  <1>. HIDE DEF b
  <1>6. Wanted(Message) = IF Len(Message) < 2 THEN 2 - Len(Message) ELSE 1
    <2>1. CASE Len(Message) < 2
      BY <2>1 DEF Wanted, HeaderLen
    <2>2. CASE ~(Len(Message) < 2)
      <3>1. Len(Message) = 2 /\ Message # <<>> /\ Len(Message) <= MsgLen
        <4>1. Len(Message) = 2
          <5>. DEFINE l == Len(Message)
          <5>1. l \in Nat /\ l <= 2 /\ ~(l < 2)
            BY <1>4, <2>2
          <5>. HIDE DEF l
          <5>2. l = 2
            BY <5>1
          <5>. QED
            BY <5>2 DEF l
        <4>2. Message # <<>>
          BY <4>1
        <4>. QED
          BY <4>1, <4>2 DEF MsgLen, HeaderLen
      <3>2. /\ Carried(Stream) # <<>>
            /\ \A k \in 1 .. Len(Message) : Message[k] = <<Carried(Stream)[1], k>>
        <4>. DEFINE x == Message
                    y == Stream
        <4>1. /\ x \in Seq(Unit) /\ b \in Seq(Unit) /\ Split(y, x, b) /\ Framed(y, Carried(y))
              /\ x # <<>> /\ Len(x) <= MsgLen
          BY <1>3, <1>4, <1>5, <3>1
        <4>. HIDE DEF x, y
        <4>2. Carried(y) # <<>> /\ \A k \in 1 .. Len(x) : x[k] = <<Carried(y)[1], k>>
          BY <4>1, FramedFirst
        <4>. QED
          BY <4>2 DEF x, y
      <3>3. Message[1] = <<InFlight[1], 1>>
        BY <3>1, <3>2 DEF InFlight
      <3>4. InFlight[1].len = 1
        <4>1. InFlight \in Seq(Msgs) /\ InFlight # <<>>
          BY <3>2, Facts DEF IInv, InFlight
        <4>2. 1 \in DOMAIN InFlight
          BY <4>1
        <4>. QED
          BY <1>1, <4>2, InFlightLen
      <3>5. Message[1][1].len = 1
        BY <3>3, <3>4
      <3>. QED
        BY <2>2, <3>1, <3>5 DEF Wanted, HeaderLen
    <2>. QED
      BY <2>1, <2>2
  <1>7. n \in Nat /\ n >= 1 /\ n <= Filled(rsp) /\ n <= Wanted(Message)
    <2>1. /\ Filled(rsp) \in Nat /\ RING_SIZE \in Nat \ {0} /\ rsp.cons \in Int
          /\ Wanted(Message) \in Int
      BY <1>3, <1>4, <1>6, Facts, XenStoreAssumption DEF IInv, Ring
    <2>2. GetInputChunk(rsp) \in Int /\ GetInputChunk(rsp) <= Filled(rsp)
      BY <2>1 DEF GetInputChunk, Smaller
    <2>. QED
      BY <2>1, <2>2 DEF Smaller
  <1>. DEFINE a == Peek(rsp, n)
              r == InRing(Consume(rsp, n))
              o == server.out
  <1>8. a \in Seq(Unit) /\ Len(a) = n
    BY <1>3, <1>7, PeekIs
  <1>9. /\ Consume(rsp, n) \in Ring /\ Filled(Consume(rsp, n)) = Filled(rsp) - n
        /\ a \o r = InRing(rsp)
    BY <1>2, <1>3, <1>7, ConsumeIs
  <1>10. r \in Seq(Unit)
    BY <1>9, InRingIs
  <1>11. Filled(Consume(rsp, n)) <= RING_SIZE
    <2>1. Filled(rsp) \in Nat /\ RING_SIZE \in Nat
      BY Facts, XenStoreAssumption DEF IInv
    <2>. QED
      BY <1>2, <1>7, <1>9, <2>1
  <1>12. units = Message \o a /\ Behind(n) = r \o o /\ o \in Seq(Unit)
    BY <1>3 DEF ReadOff, Behind
  <1>13. Stream = Message \o (InRing(rsp) \o o)
    BY DEF Stream
  <1>. HIDE DEF a, r, o
  <1>14. units \in Seq(Unit) /\ Len(units) = Len(Message) + n /\ Behind(n) \in Seq(Unit)
    <2>1. Message \o a \in Seq(Unit) /\ Len(Message \o a) = Len(Message) + Len(a)
      BY <1>3, <1>8, ConcatProperties
    <2>2. r \o o \in Seq(Unit)
      BY <1>10, <1>12, ConcatProperties
    <2>. QED
      BY <1>8, <1>12, <2>1, <2>2
  <1>15. Split(Stream, units, Behind(n))
    <2>. DEFINE c == r \o o
    <2>1. c \in Seq(Unit)
      BY <1>12, <1>14
    <2>2. a \o (r \o o) = (a \o r) \o o
      BY <1>8, <1>10, <1>12, Associative, Zenon
    <2>3. Message \o (a \o c) = (Message \o a) \o c
      <3>. DEFINE x == Message
      <3>1. x \in Seq(Unit) /\ a \in Seq(Unit) /\ c \in Seq(Unit)
        BY <1>3, <1>8, <2>1
      <3>. HIDE DEF c, x
      <3>2. x \o (a \o c) = (x \o a) \o c
        BY <3>1, Associative, Zenon
      <3>. QED
        BY <3>2 DEF x
    <2>4. Stream = (Message \o a) \o (r \o o)
      BY <1>9, <1>13, <2>2, <2>3, Zenon
    <2>. QED
      BY <1>12, <2>4, Zenon DEF Split
  <1>16. Len(units) >= 1 /\ Len(units) <= 3 /\ units # <<>> /\ Len(units) <= MsgLen
    <2>1. Len(units) >= 1 /\ Len(units) <= 3
      BY <1>4, <1>6, <1>7, <1>14
    <2>. QED
      BY <1>14, <2>1 DEF MsgLen, HeaderLen
  <1>17. /\ Carried(Stream) # <<>> /\ Carried(Stream)[1] \in Msgs
         /\ \A k \in 1 .. Len(units) : units[k] = <<Carried(Stream)[1], k>>
         /\ Len(units) = MsgLen => /\ Carried(Behind(n)) = Tail(Carried(Stream))
                                   /\ Framed(Behind(n), Carried(Behind(n)))
    BY <1>4, <1>14, <1>15, <1>16, FramedFirst
  <1>18. InFlight[1].len = 1
    <2>1. InFlight \in Seq(Msgs) /\ InFlight # <<>>
      BY <1>17, Facts DEF IInv, InFlight
    <2>2. 1 \in DOMAIN InFlight
      BY <2>1
    <2>. QED
      BY <1>1, <2>2, InFlightLen
  <1>19. Complete(units) <=> Len(units) = MsgLen
    <2>1. units[1] = <<InFlight[1], 1>>
      BY <1>14, <1>16, <1>17 DEF InFlight
    <2>2. units[1][1].len = 1
      BY <1>18, <2>1
    <2>. QED
      BY <1>14, <1>16, <2>2 DEF Complete, Wanted, MsgLen, HeaderLen
  <1>. QED
    BY <1>1, <1>2, <1>9, <1>11, <1>14, <1>15, <1>16, <1>17, <1>19 DEF InFlight

\* A turn of XenStoreReadStore(), without what becomes of a complete message.
Turn(n) ==
    /\ ReadsRing /\ Filled(rsp) > 0 /\ n \in 1 .. Smaller(GetInputChunk(rsp), Wanted(Message))
    /\ rsp' = Consume(rsp, n) /\ server' = Notify
    /\ UNCHANGED <<pc, call, Data, Token, closing, live, RegisteredWatches, EventChannelEvent, req,
                   connection, undelivered>>

\* A turn moves units from the ring to the client and leaves the request alone.
LEMMA TurnIs ==
    ASSUME IInv, NEW n, Turn(n)
    PROVE  /\ rsp' \in Ring /\ Filled(rsp') <= RING_SIZE /\ Filled(req') <= RING_SIZE
           /\ server' \in Service /\ server'.in = server.in /\ server'.out = server.out
           /\ server'.watches = server.watches /\ server'.reconnects = server.reconnects
           /\ server'.broken = server.broken /\ Asked' = Asked
           /\ Stream' = Message' \o Behind(n)
  <1>1. rsp' \in Ring /\ Filled(rsp') <= RING_SIZE /\ Up
    BY StreamRead DEF Turn
  <1>2. Filled(req') <= RING_SIZE
    BY <1>1 DEF IInv, Indices, Up, Turn
  <1>3. /\ server' \in Service /\ server'.in = server.in /\ server'.out = server.out
        /\ server'.watches = server.watches /\ server'.reconnects = server.reconnects
        /\ server'.broken = server.broken
    BY DEF IInv, Types, Service, Turn, Notify
  <1>4. Asked' = Asked
    BY <1>3 DEF Asked, Turn
  <1>5. Stream' = Message' \o Behind(n)
    <2>1. Stream' = Message' \o (InRing(rsp') \o server'.out)
      BY DEF Stream, InRing, Peek, Filled
    <2>. QED
      BY <1>3, <2>1 DEF Turn, Behind
  <1>. QED
    BY <1>1, <1>2, <1>3, <1>4, <1>5

\* The message is not complete yet.
LEMMA ReadPart ==
    ASSUME IInv, NEW n, Turn(n), ~Complete(ReadOff(n)), Message' = ReadOff(n),
           UNCHANGED <<WatchEvents, ReplyList, matched>>
    PROVE  IInv'
  <1>. DEFINE units == ReadOff(n)
  <1>1. /\ Up /\ ~server.broken /\ units \in Seq(Unit) /\ Split(Stream, units, Behind(n))
        /\ Len(units) <= MsgLen /\ (Complete(units) <=> Len(units) = MsgLen)
    BY StreamRead DEF Turn
  <1>2. /\ rsp' \in Ring /\ Filled(rsp') <= RING_SIZE /\ Filled(req') <= RING_SIZE
        /\ server' \in Service
        /\ server'.watches = server.watches /\ server'.reconnects = server.reconnects
        /\ server'.broken = server.broken /\ Asked' = Asked
        /\ Stream' = Message' \o Behind(n)
    BY TurnIs
  <1>3. Message' = units
    OBVIOUS
  <1>. HIDE DEF units
  <1>4. Stream' = Stream
    BY <1>1, <1>2, <1>3 DEF Split
  <1>5. Len(Message') <= HeaderLen
    <2>. DEFINE l == Len(units)
    <2>1. l \in Nat /\ l <= 3 /\ l # 3
      BY <1>1 DEF MsgLen, HeaderLen, units
    <2>. HIDE DEF l
    <2>2. l <= 2
      BY <2>1
    <2>. QED
      BY <1>3, <2>2 DEF l, HeaderLen
  <1>6. Types'
    <2>1. RingOK(rsp')
      BY <1>2 DEF RingOK, Ring
    <2>. QED
      BY <1>1, <1>2, <1>3, <2>1 DEF IInv, Types, TypeOK, RingOK, Turn
  <1>. QED
    BY <1>1, <1>2, <1>4, <1>5, <1>6, CarryOn DEF Turn

\* The message is complete: it was the first of the stream.
LEMMA ReadWhole ==
    ASSUME IInv, NEW n, Turn(n), Complete(ReadOff(n)), Message' = <<>>, NEW m, m = InFlight[1]
    PROVE  /\ Up /\ ~server.broken /\ m \in Msgs /\ ReadOff(n)[1][1] = m /\ WellFormed(ReadOff(n))
           /\ InFlight \in Seq(Msgs) /\ InFlight # <<>> /\ 1 \in DOMAIN InFlight
           /\ InFlight' = Tail(InFlight) /\ Framed(Stream', InFlight') /\ Stream' \in Seq(Unit)
           /\ \A w : Ends(w, Stream) = (IF m = EventFor(w) THEN 1 ELSE 0) + Ends(w, Stream')
  <1>. DEFINE units == ReadOff(n)
              rest == Behind(n)
  <1>1. /\ Up /\ ~server.broken /\ units \in Seq(Unit) /\ rest \in Seq(Unit)
        /\ Split(Stream, units, rest) /\ Len(units) = MsgLen
        /\ InFlight # <<>> /\ m \in Msgs
        /\ \A k \in 1 .. Len(units) : units[k] = <<m, k>>
        /\ Carried(rest) = Tail(InFlight) /\ Framed(rest, Carried(rest))
    BY StreamRead DEF Turn
  <1>2. Stream' = rest
    <2>1. Stream' = Message' \o rest
      BY TurnIs
    <2>. HIDE DEF rest
    <2>2. <<>> \o rest = rest
      BY <1>1, ConcatSimplifications
    <2>. QED
      BY <2>1, <2>2
  <1>3. InFlight \in Seq(Msgs) /\ 1 \in DOMAIN InFlight
    <2>1. InFlight \in Seq(Msgs)
      BY Facts DEF IInv
    <2>. QED
      BY <1>1, <2>1
  <1>4. m.len = 1
    BY <1>1, <1>3, InFlightLen
  <1>5. InFlight' = Tail(InFlight) /\ Framed(Stream', InFlight') /\ Stream' \in Seq(Unit)
    BY <1>1, <1>2 DEF InFlight
  <1>. HIDE DEF units, rest
  <1>6. units[1][1] = m
    BY <1>1 DEF MsgLen, HeaderLen
  <1>7. units = Units(m)
    <2>1. /\ Units(m) \in Seq(Unit) /\ Len(Units(m)) = MsgLen
          /\ \A k \in 1 .. MsgLen : Units(m)[k] = <<m, k>>
      <3>1. HeaderLen + m.len = MsgLen
        BY <1>4 DEF MsgLen
      <3>. QED
        BY <1>1, <3>1, UnitsAre
    <2>. QED
      BY <1>1, <2>1, SeqEqual
  <1>8. WellFormed(units)
    BY <1>6, <1>7 DEF WellFormed
  <1>9. ASSUME NEW w PROVE Ends(w, Stream) = (IF m = EventFor(w) THEN 1 ELSE 0) + Ends(w, Stream')
    <2>1. Ends(w, units) = IF m = EventFor(w) THEN 1 ELSE 0
      BY <1>1, <1>4, <1>7, UnitsEnd
    <2>2. Ends(w, units \o rest) = Ends(w, units) + Ends(w, rest)
      BY <1>1, CountConcat, Zenon DEF Ends
    <2>3. Stream = units \o rest
      BY <1>1 DEF Split
    <2>. QED
      BY <1>2, <2>1, <2>2, <2>3, Zenon
  <1>. QED
    BY <1>1, <1>3, <1>5, <1>6, <1>8, <1>9 DEF units

\* What is left of the stream when its first message is gone.
LEMMA StreamShort ==
    ASSUME NEW s \in Seq(Msgs), s # <<>>, NEW t, t = Tail(s)
    PROVE  /\ t \in Seq(Msgs) /\ \A j \in DOMAIN t : j + 1 \in DOMAIN s /\ t[j] = s[j + 1]
           /\ \A i \in DOMAIN s : i # 1 => i - 1 \in DOMAIN t /\ t[i - 1] = s[i]
           /\ DOMAIN s \subseteq Int /\ DOMAIN t \subseteq Int
  OBVIOUS

\* What the other messages of the stream are when the first is read off.
LEMMA StreamAfter ==
    ASSUME IInv, NEW n, Turn(n), Complete(ReadOff(n)), Message' = <<>>
    PROVE  /\ Control' /\ Indices' /\ ReplyList = <<>> /\ pc \in {"reply", "waitwatch"}
           /\ \A j \in DOMAIN InFlight' : IsEvent(InFlight'[j]) =>
                 /\ InFlight'[j] = EventFor(InFlight'[j].watch)
                 /\ \/ InFlight'[j].watch \in server.watches
                    \/ /\ Leaving(InFlight'[j].watch)
                       /\ \E i \in DOMAIN InFlight' : i > j /\ ~IsEvent(InFlight'[i])
           /\ Streaming'
  <1>1. /\ Up /\ ~server.broken /\ InFlight \in Seq(Msgs) /\ InFlight # <<>>
        /\ InFlight' = Tail(InFlight) /\ Framed(Stream', InFlight')
    BY ReadWhole
  <1>2. /\ Filled(rsp') <= RING_SIZE /\ Filled(req') <= RING_SIZE
        /\ server'.watches = server.watches /\ server'.reconnects = server.reconnects
        /\ server'.broken = server.broken
    BY TurnIs
  <1>3. UNCHANGED <<pc, call, live, RegisteredWatches, connection, Token>>
    BY DEF Turn
  <1>4. Control' /\ Indices'
    BY <1>1, <1>2, <1>3 DEF IInv, Control, Indices, Up
  <1>5. ReplyList = <<>> /\ pc \in {"reply", "waitwatch"}
    BY DEF Turn, ReadsRing, IInv, Calling, Asking
  <1>6. /\ InFlight' \in Seq(Msgs)
        /\ \A j \in DOMAIN InFlight' : j + 1 \in DOMAIN InFlight /\ InFlight'[j] = InFlight[j + 1]
        /\ \A i \in DOMAIN InFlight : i # 1 => i - 1 \in DOMAIN InFlight' /\ InFlight'[i - 1] = InFlight[i]
        /\ DOMAIN InFlight \subseteq Int /\ DOMAIN InFlight' \subseteq Int
    BY <1>1, StreamShort
  <1>7. ASSUME NEW j \in DOMAIN InFlight', IsEvent(InFlight'[j])
        PROVE  /\ InFlight'[j] = EventFor(InFlight'[j].watch)
               /\ \/ InFlight'[j].watch \in server.watches
                  \/ /\ Leaving(InFlight'[j].watch)
                     /\ \E i \in DOMAIN InFlight' : i > j /\ ~IsEvent(InFlight'[i])
    <2>1. j \in Int /\ j + 1 \in DOMAIN InFlight /\ InFlight'[j] = InFlight[j + 1] /\ j >= 1
      BY <1>6
    <2>2. /\ InFlight[j + 1] = EventFor(InFlight[j + 1].watch)
          /\ \/ InFlight[j + 1].watch \in server.watches
             \/ /\ Leaving(InFlight[j + 1].watch)
                /\ \E i \in DOMAIN InFlight : i > j + 1 /\ ~IsEvent(InFlight[i])
      BY <1>1, <1>7, <2>1 DEF IInv, Streaming
    <2>3. CASE InFlight[j + 1].watch \in server.watches
      BY <2>1, <2>2, <2>3
    <2>4. CASE /\ Leaving(InFlight[j + 1].watch)
               /\ \E i \in DOMAIN InFlight : i > j + 1 /\ ~IsEvent(InFlight[i])
      <3>1. PICK i \in DOMAIN InFlight : i > j + 1 /\ ~IsEvent(InFlight[i])
        BY <2>4
      <3>2. i \in Int /\ i # 1 /\ i - 1 > j
        BY <1>6, <2>1, <3>1
      <3>3. i - 1 \in DOMAIN InFlight' /\ InFlight'[i - 1] = InFlight[i]
        BY <1>6, <3>2
      <3>4. \E x \in DOMAIN InFlight' : x > j /\ ~IsEvent(InFlight'[x])
        BY <3>1, <3>2, <3>3
      <3>. QED
        BY <2>1, <2>2, <2>4, <3>4
    <2>. QED
      BY <2>2, <2>3, <2>4
  <1>8. Streaming'
    <2>1. Len(Message') <= HeaderLen
      BY DEF HeaderLen
    <2>2. \A w : Leaving(w)' <=> Leaving(w)
      BY <1>3 DEF Leaving
    <2>3. ASSUME NEW j \in DOMAIN InFlight', IsEvent(InFlight'[j])
          PROVE  (/\ InFlight[j] = EventFor(InFlight[j].watch)
                  /\ \/ InFlight[j].watch \in server.watches
                     \/ /\ Leaving(InFlight[j].watch)
                        /\ \E i \in DOMAIN InFlight : i > j /\ ~IsEvent(InFlight[i]))'
      BY <1>2, <1>3, <1>7, <2>3 DEF Leaving
    <2>. QED
      BY <1>1, <2>1, <2>3 DEF Streaming
  <1>. QED
    BY <1>4, <1>5, <1>7, <1>8

\* It was an event: it goes to the head of the list if its watch is registered.
LEMMA ReadEvent ==
    ASSUME IInv, NEW n, Turn(n), Complete(ReadOff(n)), Message' = <<>>, NEW m, m = InFlight[1],
           IsEvent(m), ReplyList' = ReplyList, matched' = matched,
           WatchEvents' = IF m.watch \in RegisteredWatches THEN <<m.watch>> \o WatchEvents
                                                           ELSE WatchEvents
    PROVE  IInv'
  <1>1. /\ Up /\ ~server.broken /\ m \in Msgs /\ InFlight \in Seq(Msgs) /\ InFlight # <<>>
        /\ 1 \in DOMAIN InFlight /\ InFlight' = Tail(InFlight)
        /\ \A w : Ends(w, Stream) = (IF m = EventFor(w) THEN 1 ELSE 0) + Ends(w, Stream')
        /\ Stream' \in Seq(Unit)
    BY ReadWhole
  <1>2. /\ rsp' \in Ring /\ server' \in Service
        /\ server'.watches = server.watches /\ server'.broken = server.broken /\ Asked' = Asked
    BY TurnIs
  <1>3. UNCHANGED <<pc, call, Data, Token, closing, live, RegisteredWatches, EventChannelEvent, req,
                    connection, undelivered>>
    BY DEF Turn
  <1>4. Control' /\ Indices' /\ Streaming' /\ ReplyList = <<>> /\ pc \in {"reply", "waitwatch"}
    BY StreamAfter
  <1>5. /\ m = EventFor(m.watch) /\ (m.watch \in server.watches \/ Leaving(m.watch))
    BY <1>1 DEF IInv, Streaming
  <1>6. \A w : m = EventFor(w) <=> w = m.watch
    BY <1>5 DEF EventFor, Msg
  <1>7. /\ \A j \in DOMAIN InFlight' : j + 1 \in DOMAIN InFlight /\ InFlight'[j] = InFlight[j + 1]
        /\ \A i \in DOMAIN InFlight : i # 1 => i - 1 \in DOMAIN InFlight' /\ InFlight'[i - 1] = InFlight[i]
        /\ DOMAIN InFlight \subseteq Int /\ DOMAIN InFlight' \subseteq Int
    BY <1>1, StreamShort
  <1>8. WatchEvents \in Seq(Watches) /\ RegisteredWatches \subseteq Watches
    BY Facts DEF IInv
  <1>9. /\ WatchEvents' \in Seq(Watches)
        /\ \A w \in RegisteredWatches :
              Count(w, WatchEvents') = Count(w, WatchEvents) + (IF w = m.watch THEN 1 ELSE 0)
        /\ \A i \in DOMAIN WatchEvents' :
              WatchEvents'[i] = m.watch \/ \E k \in DOMAIN WatchEvents : WatchEvents[k] = WatchEvents'[i]
    <2>1. \A w : Count(w, WatchEvents) \in Nat
      BY <1>8, CountIs, Zenon
    <2>2. CASE m.watch \notin RegisteredWatches
      BY <1>8, <2>1, <2>2
    <2>3. CASE m.watch \in RegisteredWatches
      <3>. DEFINE one == <<m.watch>>
      <3>1. one \in Seq(Watches) /\ Len(one) = 1 /\ one[1] = m.watch
        BY <1>8, <2>3
      <3>2. \A w : Count(w, one) = IF w = m.watch THEN 1 ELSE 0
        BY CountSingle, Zenon
      <3>3. WatchEvents' = one \o WatchEvents
        BY <2>3
      <3>. HIDE DEF one
      <3>4. \A w : Count(w, WatchEvents') = Count(w, one) + Count(w, WatchEvents)
        BY <1>8, <3>1, <3>3, CountConcat, Zenon
      <3>5. /\ WatchEvents' \in Seq(Watches) /\ Len(WatchEvents') = 1 + Len(WatchEvents)
            /\ \A i \in 1 .. 1 + Len(WatchEvents) :
                  WatchEvents'[i] = IF i <= 1 THEN one[i] ELSE WatchEvents[i - 1]
        BY <1>8, <3>1, <3>3, ConcatProperties
      <3>6. ASSUME NEW i \in DOMAIN WatchEvents'
            PROVE  WatchEvents'[i] = m.watch \/ \E k \in DOMAIN WatchEvents : WatchEvents[k] = WatchEvents'[i]
        <4>1. i \in 1 .. 1 + Len(WatchEvents) /\ Len(WatchEvents) \in Nat
          BY <1>8, <3>5
        <4>2. CASE i = 1
          BY <3>1, <3>5, <4>1, <4>2
        <4>3. CASE i # 1
          <5>1. WatchEvents'[i] = WatchEvents[i - 1]
            BY <3>5, <4>1, <4>3
          <5>2. i - 1 \in DOMAIN WatchEvents
            BY <1>8, <4>1, <4>3
          <5>. QED
            BY <5>1, <5>2
        <4>. QED
          BY <4>2, <4>3
      <3>7. \A w : Count(w, WatchEvents') = Count(w, WatchEvents) + (IF w = m.watch THEN 1 ELSE 0)
        BY <2>1, <3>2, <3>4
      <3>. QED
        BY <3>5, <3>6, <3>7
    <2>. QED
      BY <2>2, <2>3
  <1>10. Types'
    <2>1. RingOK(rsp')
      BY <1>2 DEF RingOK, Ring
    <2>. QED
      BY <1>2, <1>3, <1>9, <2>1 DEF IInv, Types, TypeOK, RingOK
  <1>11. ASSUME \A j \in DOMAIN InFlight : IsEvent(InFlight[j])
         PROVE  \A j \in DOMAIN InFlight' : IsEvent(InFlight'[j])
    BY <1>7, <1>11
  <1>12. Calling'
    <2>1. CASE ~Asking
      BY <1>2, <1>3, <1>11, <2>1 DEF IInv, Calling, Asking, Up
    <2>2. CASE Asking /\ Unanswered
      <3>1. Unanswered'
        BY <1>2, <1>3, <1>11, <2>2 DEF Unanswered
      <3>. QED
        BY <1>3, <2>2, <3>1 DEF IInv, Calling, Asking, Request
    <2>3. CASE Asking /\ Answered
      <3>1. PICK j \in DOMAIN InFlight :
               Outcome(InFlight[j]) /\ \A i \in DOMAIN InFlight \ {j} : IsEvent(InFlight[i])
        BY <1>4, <2>3 DEF Answered
      <3>2. ~IsEvent(InFlight[j])
        BY <2>3, <3>1 DEF Outcome, IsEvent, Msg, IInv, Calling, Request
      <3>3. j # 1 /\ j \in Int
        BY <1>7, <3>2
      <3>4. PICK x \in DOMAIN InFlight' : x = j - 1 /\ InFlight'[x] = InFlight[j]
        BY <1>7, <3>3
      <3>5. \A i \in DOMAIN InFlight' \ {x} : IsEvent(InFlight'[i])
        BY <1>7, <3>1, <3>3, <3>4
      <3>6. (Outcome(InFlight[x]))'
        BY <1>2, <1>3, <3>1, <3>4 DEF Outcome
      <3>7. Answered'
        BY <1>2, <1>3, <1>4, <2>3, <3>5, <3>6 DEF Answered
      <3>. QED
        BY <1>3, <2>3, <3>7 DEF IInv, Calling, Asking, Request
    <2>. QED
      BY <2>1, <2>2, <2>3 DEF IInv, Calling
  <1>13. Accounting'
    <2>1. ASSUME NEW i \in DOMAIN WatchEvents'
          PROVE  (WatchEvents[i] \in server.watches \/ Leaving(WatchEvents[i]))'
      <3>1. WatchEvents'[i] \in server.watches \/ Leaving(WatchEvents'[i])
        BY <1>5, <1>9 DEF IInv, Accounting
      <3>. QED
        BY <1>2, <1>3, <3>1 DEF Leaving
    <2>2. \A v \in Watches : (undelivered[v] # 0 => v \in server.watches \/ Leaving(v))'
      BY <1>2, <1>3 DEF IInv, Accounting, Leaving
    <2>3. ASSUME NEW v \in RegisteredWatches'
          PROVE  undelivered'[v] = Ends(v, Stream') + Count(v, WatchEvents')
      <3>1. v \in RegisteredWatches
        BY <1>3
      <3>2. undelivered[v] = Ends(v, Stream) + Count(v, WatchEvents)
        BY <3>1 DEF IInv, Accounting
      <3>3. Ends(v, Stream') \in Nat /\ Count(v, WatchEvents) \in Nat
        BY <1>1, <1>8, CountIs, Zenon DEF Ends
      <3>4. Ends(v, Stream) = (IF v = m.watch THEN 1 ELSE 0) + Ends(v, Stream')
        BY <1>1, <1>6
      <3>. QED
        BY <1>3, <1>9, <3>1, <3>2, <3>3, <3>4
    <2>. QED
      BY <2>1, <2>2, <2>3 DEF Accounting
  <1>. QED
    BY <1>4, <1>10, <1>12, <1>13 DEF IInv

\* It was the answer: it is the only one.
LEMMA ReadAnswer ==
    ASSUME IInv, NEW n, Turn(n), Complete(ReadOff(n)), Message' = <<>>, NEW m, m = InFlight[1],
           ~IsEvent(m), ReplyList' = Append(ReplyList, m), matched' = matched,
           WatchEvents' = WatchEvents
    PROVE  IInv'
  <1>1. /\ Up /\ ~server.broken /\ m \in Msgs /\ InFlight \in Seq(Msgs) /\ InFlight # <<>>
        /\ 1 \in DOMAIN InFlight /\ InFlight' = Tail(InFlight)
        /\ \A w : Ends(w, Stream) = (IF m = EventFor(w) THEN 1 ELSE 0) + Ends(w, Stream')
        /\ Stream' \in Seq(Unit)
    BY ReadWhole
  <1>2. /\ rsp' \in Ring /\ server' \in Service
        /\ server'.watches = server.watches /\ server'.broken = server.broken /\ Asked' = Asked
    BY TurnIs
  <1>3. UNCHANGED <<pc, call, Data, Token, closing, live, RegisteredWatches, EventChannelEvent, req,
                    connection, undelivered>>
    BY DEF Turn
  <1>4. Control' /\ Indices' /\ Streaming' /\ ReplyList = <<>> /\ pc \in {"reply", "waitwatch"}
    BY StreamAfter
  <1>5. Asking /\ Answered
    BY <1>1 DEF IInv, Calling, Unanswered
  <1>6. PICK j \in DOMAIN InFlight :
           Outcome(InFlight[j]) /\ \A i \in DOMAIN InFlight \ {j} : IsEvent(InFlight[i])
    BY <1>4, <1>5 DEF Answered
  <1>7. j = 1
    BY <1>1, <1>6
  <1>8. /\ \A k \in DOMAIN InFlight' : k + 1 \in DOMAIN InFlight /\ InFlight'[k] = InFlight[k + 1]
        /\ DOMAIN InFlight' \subseteq Int /\ InFlight' \in Seq(Msgs)
    BY <1>1, StreamShort
  <1>9. \A k \in DOMAIN InFlight' : IsEvent(InFlight'[k])
    <2>. SUFFICES ASSUME NEW k \in DOMAIN InFlight' PROVE IsEvent(InFlight'[k])
      OBVIOUS
    <2>1. k + 1 # 1
      BY <1>8
    <2>. QED
      BY <1>6, <1>7, <1>8, <2>1
  <1>10. ReplyList' = <<m>> /\ ReplyList' \in Seq(Msgs)
    BY <1>1, <1>4
  <1>11. Types'
    <2>1. RingOK(rsp')
      BY <1>2 DEF RingOK, Ring
    <2>. QED
      BY <1>2, <1>3, <1>10, <2>1 DEF IInv, Types, TypeOK, RingOK
  <1>12. Calling'
    <2>1. Outcome(m)'
      BY <1>2, <1>3, <1>6, <1>7 DEF Outcome
    <2>2. Answered'
      BY <1>1, <1>2, <1>3, <1>5, <1>9, <1>10, <2>1 DEF Answered
    <2>. QED
      BY <1>3, <1>5, <2>2 DEF IInv, Calling, Asking, Request
  <1>13. Accounting'
    <2>1. \A w : m # EventFor(w)
      BY DEF IsEvent, EventFor, Msg
    <2>2. \A w : Ends(w, Stream') \in Nat
      BY <1>1, CountIs, Zenon DEF Ends
    <2>3. \A w : Ends(w, Stream') = Ends(w, Stream)
      BY <1>1, <2>1, <2>2
    <2>. QED
      BY <1>2, <1>3, <2>3 DEF IInv, Accounting, Leaving
  <1>. QED
    BY <1>4, <1>11, <1>12, <1>13 DEF IInv

\* One turn of XenStoreReadStore().
LEMMA ReadStoreStep == ASSUME IInv, XenStoreReadStore PROVE IInv'
  <1>1. PICK n \in 1 .. Smaller(GetInputChunk(rsp), Wanted(Message)) :
           /\ rsp' = Consume(rsp, n)
           /\ IF Complete(ReadOff(n))
              THEN /\ FileMessage(ReadOff(n)) /\ Message' = <<>>
                   /\ matched' = (matched /\ WellFormed(ReadOff(n)))
              ELSE Message' = ReadOff(n) /\ UNCHANGED <<WatchEvents, ReplyList, matched>>
    BY DEF XenStoreReadStore, ReadOff
  <1>2. Turn(n)
    BY <1>1 DEF XenStoreReadStore, Turn
  <1>3. CASE ~Complete(ReadOff(n))
    BY <1>1, <1>2, <1>3, ReadPart
  <1>4. CASE Complete(ReadOff(n))
    <2>. DEFINE m == InFlight[1]
    <2>1. /\ FileMessage(ReadOff(n)) /\ Message' = <<>>
          /\ matched' = (matched /\ WellFormed(ReadOff(n)))
      BY <1>1, <1>4
    <2>2. ReadOff(n)[1][1] = m /\ WellFormed(ReadOff(n))
      BY <1>2, <1>4, <2>1, ReadWhole
    <2>3. matched' = matched
      BY <2>1, <2>2 DEF IInv
    <2>4. CASE IsEvent(m)
      <3>1. /\ ReplyList' = ReplyList
            /\ WatchEvents' = IF m.watch \in RegisteredWatches THEN <<m.watch>> \o WatchEvents
                                                               ELSE WatchEvents
        BY <2>1, <2>2, <2>4 DEF FileMessage, IsEvent
      <3>. QED
        BY <1>2, <1>4, <2>1, <2>3, <2>4, <3>1, ReadEvent
    <2>5. CASE ~IsEvent(m)
      <3>1. ReplyList' = Append(ReplyList, m) /\ WatchEvents' = WatchEvents
        BY <2>1, <2>2, <2>5 DEF FileMessage, IsEvent
      <3>. QED
        BY <1>2, <1>4, <2>1, <2>3, <2>5, <3>1, ReadAnswer
    <2>. QED
      BY <2>4, <2>5
  <1>. QED
    BY <1>3, <1>4

-----------------------------------------------------------------------------
(* The theorems.                                                           *)

\* The client has not started; the response ring may hold anything.
LEMMA Starts == Init => IInv
  <1>. SUFFICES ASSUME Init PROVE IInv
    OBVIOUS
  <1>1. /\ pc = "down" /\ call = NoCall /\ Data = <<>> /\ Message = <<>> /\ Token = None
        /\ closing = None /\ live = {} /\ RegisteredWatches = {} /\ WatchEvents = <<>>
        /\ ReplyList = <<>> /\ matched = TRUE /\ EventChannelEvent = "closed"
        /\ req = EmptyRing /\ rsp \in {EmptyRing, Produce(EmptyRing, <<Garbage>>)}
        /\ connection = FALSE /\ undelivered = [w \in Watches |-> 0]
    BY DEF Init
  <1>2. EmptyRing \in Ring /\ Filled(EmptyRing) = 0 /\ InRing(EmptyRing) = <<>> /\ Garbage \in Unit
    BY EmptyIs
  <1>3. req \in Ring /\ rsp \in Ring
    <2>. DEFINE g == <<Garbage>>
    <2>1. g \in Seq(Unit) /\ Len(g) = 1
      BY <1>2
    <2>2. Filled(EmptyRing) + Len(g) <= RING_SIZE
      BY <1>2, <2>1, XenStoreAssumption
    <2>. HIDE DEF g
    <2>3. Produce(EmptyRing, g) \in Ring
      BY <1>2, <2>1, <2>2, ProduceIs
    <2>. QED
      BY <1>1, <1>2, <2>3 DEF g
  <1>4. PICK f \in Features : server = [in |-> <<>>, out |-> <<>>, watches |-> {}, awake |-> FALSE,
                                        reconnects |-> f, broken |-> FALSE]
    BY DEF Init
  <1>5. /\ server \in Service /\ server.in = <<>> /\ server.out = <<>> /\ server.watches = {}
        /\ server.broken = FALSE
    <2>1. f \in BOOLEAN /\ <<>> \in Seq(Unit) /\ {} \in SUBSET Watches
      BY XenStoreAssumption
    <2>. QED
      BY <1>4, <2>1 DEF Service
  <1>6. Types
    <2>1. TypeOK
      <3>1. undelivered \in [Watches -> 0 .. MaxEvents] /\ WatchEvents \in Seq(Watches)
        BY <1>1, XenStoreAssumption
      <3>2. RingOK(req) /\ RingOK(rsp)
        BY <1>3 DEF RingOK, Ring
      <3>. QED
        BY <1>1, <1>5, <3>1, <3>2 DEF TypeOK
    <2>2. call \in Msgs
      BY <1>1 DEF NoCall, Msg, Msgs, None
    <2>3. Data \in Seq(Seq(Unit)) /\ Message \in Seq(Unit) /\ ReplyList \in Seq(Msgs)
      BY <1>1, EmptySeq
    <2>. QED
      BY <1>3, <1>5, <2>1, <2>2, <2>3 DEF Types
  <1>7. call.type = None
    BY <1>1 DEF NoCall, Msg
  <1>8. Control
    BY <1>1, <1>5, <1>7 DEF Control, Up, None
  <1>9. Indices
    BY <1>1, <1>2, <1>5, XenStoreAssumption DEF Indices, Up
  <1>10. Asked = <<>>
    <2>1. <<>> \o <<>> = <<>>
      OBVIOUS
    <2>. QED
      BY <1>1, <1>2, <1>5, <2>1 DEF Asked
  <1>11. Calling /\ Streaming
    BY <1>1, <1>7, <1>10 DEF Calling, Asking, Streaming, Up
  <1>12. Accounting
    BY <1>1 DEF Accounting
  <1>. QED
    BY <1>1, <1>6, <1>8, <1>9, <1>11, <1>12 DEF IInv

\* Every step preserves the invariant.
LEMMA Inductive == IInv /\ [Next]_vars => IInv'
  <1>. SUFFICES ASSUME IInv, [Next]_vars PROVE IInv'
    OBVIOUS
  <1>1. CASE UNCHANGED vars
    BY <1>1, StutterStep
  <1>2. CASE Calls
    BY <1>2, InitStep, SingleStep, DeinitStep, RegisterStep, WaitWatchStep, UnregisterStep DEF Calls
  <1>3. CASE Steps
    BY <1>3, WriteStoreStep, ReadStoreStep, ReadReplyStep, WaitReturnsStep, DeinitListsStep,
       DeinitEraseStep, DeinitWaitStep, UnregisterStep DEF Steps
  <1>4. CASE ServerSteps
    BY <1>4, ReadStep, ReplyStep, WriteStep, ReconnectStep, SleepStep DEF ServerSteps
  <1>5. CASE \E w \in Watches : ServerFire(w)
    BY <1>5, FireStep
  <1>. QED
    BY <1>1, <1>2, <1>3, <1>4, <1>5 DEF Next

\* The inductive invariant holds in every state of the client and the service.
LEMMA Invariance == Spec => []IInv
  BY Starts, Inductive, PTL DEF Spec

\* The types of all of the client's and the service's state, the indices of both rings in
\* their 32 bits among them.
THEOREM TypeCorrect == Spec => []TypeOK
  <1>1. IInv => TypeOK
    BY DEF IInv, Types
  <1>. QED
    BY <1>1, Invariance, PTL

\* XenStoreTalkv() gets the reply to its own request, and whole, whatever events come in
\* between and wherever the rings wrap.
THEOREM CallsMatched == Spec => []RepliesMatched
  <1>1. IInv => RepliesMatched
    BY DEF IInv, RepliesMatched, Calling, Asking
  <1>. QED
    BY <1>1, Invariance, PTL

\* XenStoreWriteStore() and XenStoreReadStore(): XenStoreCheckIndexes() does not fail.
THEOREM IndexesInRangeTheorem == Spec => []IndexesInRange
  <1>1. IInv => IndexesInRange
    BY DEF IInv, Indices, Up, IndexesInRange, ReadsRing, CheckIndexes
  <1>. QED
    BY <1>1, Invariance, PTL

\* The units of the message that is being read do not end an event.
LEMMA NoEndYet ==
    ASSUME IInv, Up, NEW w
    PROVE  Ends(w, Message) = 0
  <1>. DEFINE x == Message
              y == Stream
              b == InRing(rsp) \o server.out
              e == <<EventFor(w), MsgLen>>
  <1>1. /\ x \in Seq(Unit) /\ b \in Seq(Unit) /\ Framed(y, Carried(y)) /\ Len(x) <= 2 /\ Len(x) \in Nat
    BY Facts DEF IInv, Types, Streaming, InFlight, HeaderLen
  <1>2. Split(y, x, b) /\ Ends(w, Message) = Count(e, x)
    BY DEF Split, Stream, Ends
  <1>. HIDE DEF x, y, b
  <1>3. \A i \in DOMAIN x : x[i] # e
    <2>1. SUFFICES ASSUME NEW i \in DOMAIN x, x[i] = e PROVE FALSE
      OBVIOUS
    <2>2. x # <<>> /\ i \in 1 .. Len(x) /\ Len(x) <= MsgLen /\ i \in Int /\ i <= 2
      BY <1>1, <2>1 DEF MsgLen, HeaderLen
    <2>3. x[i] = <<Carried(y)[1], i>>
      BY <1>1, <1>2, <2>2, FramedFirst
    <2>. QED
      BY <2>1, <2>2, <2>3 DEF MsgLen, HeaderLen
  <1>. QED
    BY <1>1, <1>2, <1>3, CountIs

\* No event of a registered watch is lost between the service, the ring and the list, and
\* the list never holds the handle of a watch that is freed.
THEOREM EventsKept == Spec => []EventsAccounted
  <1>1. IInv => EventsAccounted
    <2>. SUFFICES ASSUME IInv PROVE EventsAccounted
      OBVIOUS
    <2>1. \A i \in DOMAIN WatchEvents : WatchEvents[i] \in live
      BY DEF IInv, Accounting, Control, Leaving
    <2>2. pc = "idle" => \A i \in DOMAIN WatchEvents : WatchEvents[i] \in RegisteredWatches
      BY DEF IInv, Accounting, Control, Leaving, Calling, Asking, None
    <2>3. ASSUME NEW w \in RegisteredWatches
          PROVE  undelivered[w] = EventsOf(w, server.out) + EventsOf(w, InRing(rsp))
                                  + Cardinality({i \in DOMAIN WatchEvents : WatchEvents[i] = w})
      <3>1. Up
        BY DEF IInv, Control
      <3>. DEFINE x == Message
                  r == InRing(rsp)
                  o == server.out
                  b == r \o o
      <3>2. /\ x \in Seq(Unit) /\ r \in Seq(Unit) /\ o \in Seq(Unit) /\ b \in Seq(Unit)
            /\ WatchEvents \in Seq(Watches)
        BY Facts DEF IInv, Types
      <3>3. Stream = x \o b
        BY DEF Stream
      <3>4. undelivered[w] = Ends(w, Stream) + Count(w, WatchEvents)
        BY DEF IInv, Accounting
      <3>5. Ends(w, x) = 0
        BY <3>1, NoEndYet
      <3>. HIDE DEF x, r, o
      <3>6. Ends(w, b) = Ends(w, r) + Ends(w, o)
        BY <3>2, CountConcat, Zenon DEF Ends
      <3>. HIDE DEF b
      <3>7. Ends(w, Stream) = Ends(w, x) + Ends(w, b)
        BY <3>2, <3>3, CountConcat, Zenon DEF Ends
      <3>8. Ends(w, r) \in Nat /\ Ends(w, o) \in Nat /\ Count(w, WatchEvents) \in Nat
        BY <3>2, CountIs, Zenon DEF Ends
      <3>9. /\ EventsOf(w, server.out) = Ends(w, o) /\ EventsOf(w, InRing(rsp)) = Ends(w, r)
            /\ Cardinality({i \in DOMAIN WatchEvents : WatchEvents[i] = w}) = Count(w, WatchEvents)
        BY Counts, Zenon DEF o, r
      <3>10. undelivered[w] = Ends(w, o) + Ends(w, r) + Count(w, WatchEvents)
        BY <3>4, <3>5, <3>6, <3>7, <3>8
      <3>. QED
        BY <3>9, <3>10
    <2>. QED
      BY <2>1, <2>2, <2>3 DEF EventsAccounted
  <1>. QED
    BY <1>1, Invariance, PTL
=============================================================================
