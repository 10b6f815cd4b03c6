------------------------------ MODULE VirtioLib ------------------------------
(***************************************************************************)
(* The virtio ring of Library/VirtioLib, which its users drive in          *)
(* lock-step: one descriptor chain in flight, always built from descriptor *)
(* 0.  A ring is a record; what an address is, its users say.              *)
(***************************************************************************)
EXTENDS Integers

CONSTANTS
    QueueSize,      \* number of descriptors, and of entries of both rings
    IdxMod          \* 2^16: Avail.Idx and Used.Idx are UINT16

ASSUME RingAssumption ==
    /\ QueueSize \in Nat /\ QueueSize >= 3     \* VirtioBlkInit()
    /\ IdxMod \in Nat /\ IdxMod > QueueSize

QueueIdx == 0 .. QueueSize - 1
NoAddr   == [kind |-> "none", gen |-> 0]

\* SetMem (Ring->Base, RingSize, 0x00).
VirtioRingInit ==
    [Desc      |-> [i \in QueueIdx |-> [addr |-> NoAddr, more |-> FALSE, next |-> 0]],
     AvailRing |-> [i \in QueueIdx |-> 0],
     AvailIdx  |-> 0,
     UsedIdx   |-> 0]

\* Both of DESC_INDICES start at descriptor 0.
HeadDescIdx == 0

VirtioAppendDesc(ring, nextDescIdx, addr, more) ==
    [ring EXCEPT !.Desc[nextDescIdx % QueueSize] =
        [addr |-> addr, more |-> more, next |-> (nextDescIdx + 1) % QueueSize]]

\* VirtioFlush(): Avail.Ring[], then, after a fence, Avail.Idx.
VirtioFlushAvailRing(ring) ==
    [ring EXCEPT !.AvailRing[ring.AvailIdx % QueueSize] = HeadDescIdx % QueueSize]

\* Mutant: the index outgrows 16 bits.
FlushWithoutWrap(ring) == [ring EXCEPT !.AvailIdx = @ + 1]

\* Mutant: one chain offered as two.
FlushAdvancesTwice(ring) == [ring EXCEPT !.AvailIdx = (@ + 2) % IdxMod]

VirtioFlushAvailIdx(ring) == [ring EXCEPT !.AvailIdx = (@ + 1) % IdxMod]

\* The polling condition: Used.Idx has reached NextAvailIdx.
VirtioFlushDone(ring) == ring.UsedIdx = ring.AvailIdx

(* The host's side of the ring. *)

\* The addresses of the chain that starts at descriptor "head".
HostChain(ring, head) ==
    LET d0 == ring.Desc[head]
        d1 == ring.Desc[d0.next]
        d2 == ring.Desc[d1.next]
    IN  CASE ~d0.more            -> {d0.addr}
          [] d0.more /\ ~d1.more -> {d0.addr, d1.addr}
          [] d0.more /\ d1.more  -> {d0.addr, d1.addr, d2.addr}

HostPushUsed(ring) == [ring EXCEPT !.UsedIdx = (@ + 1) % IdxMod]
=============================================================================
