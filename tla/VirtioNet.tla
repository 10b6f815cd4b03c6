------------------------------ MODULE VirtioNet ------------------------------
(***************************************************************************)
(* The virtio-net driver (VirtioNetDxe) and its host: the binding of the   *)
(* driver, the Simple Network Protocol calls with their unwinding, and     *)
(* ExitBootServices().  Every call runs at TPL_CALLBACK, so calls do not   *)
(* interleave; the host runs concurrently with all of them, completes      *)
(* packets in any order, and both rings hold many chains in flight.        *)
(*                                                                         *)
(* A chain has two descriptors; it is named by the index of the first one, *)
(* and only the address of the second one varies.                          *)
(***************************************************************************)
EXTENDS Integers, FiniteSets, Sequences

CONSTANTS
    TxQueueSize, RxQueueSize,  \* VRING.QueueSize of the two rings
    VNET_MAX_PENDING,
    IdxMod,          \* 2^16: ring indices are UINT16
    Buffers,         \* the caller's transmit buffers
    Bounce,          \* device addresses of bounce buffers; {} if mapping is the identity
    Packets,         \* what the host receives from the network
    ServiceMayFail,  \* TRUE iff allocations, mappings and other services may fail
    NotifyMayFail    \* TRUE iff SetQueueNotify() may fail

ASSUME NetAssumption ==
    /\ TxQueueSize \in Nat /\ RxQueueSize \in Nat /\ VNET_MAX_PENDING \in Nat \ {0}
    /\ TxQueueSize >= 2 /\ RxQueueSize >= 2      \* VirtioNetInitRing()
    /\ IdxMod \in Nat \ {0} /\ IdxMod % TxQueueSize = 0 /\ IdxMod % RxQueueSize = 0
    \* no two objects of the driver and its caller share memory
    /\ (Buffers \cup Bounce) \cap {"RxRing", "TxRing", "TxSharedReq", "RxBuf"} = {}
    /\ {ServiceMayFail, NotifyMayFail} \subseteq BOOLEAN

VARIABLES
    pc,              \* the driver: the step of the call in progress
    held,            \* what the driver instance owns
    mapped,          \* addresses the device may access
    State,           \* Snm.State
    TxRing, RxRing,
    TxFreeStack, TxCurPending, TxLastUsed, TxBufCollection, RxLastUsed,
    cur,             \* locals of Transmit(): the buffer, its address, the chain
    owned,           \* buffers that the caller may use
    asserted,        \* TRUE iff an ASSERT() has failed
    dev,             \* the device's status register
    kicked,          \* queues with a notification the host has not acted on
    hostTx, hostRx,  \* chains taken by the host: their Avail index and contents
    rxbuf,           \* RxBuf, by chain
    wire             \* packets stored by the host that Receive() has not returned

binding == <<pc, held, mapped, State>>
tx      == <<TxRing, TxFreeStack, TxCurPending, TxLastUsed, TxBufCollection, cur, owned>>
rx      == <<RxRing, RxLastUsed>>
host    == <<dev, kicked, hostTx, hostRx, rxbuf, wire>>
vars    == <<binding, tx, rx, asserted, host>>

Least(a, b)     == IF a < b THEN a ELSE b
TxMaxPending    == Least(TxQueueSize \div 2, VNET_MAX_PENDING)
RxAlwaysPending == Least(RxQueueSize \div 2, VNET_MAX_PENDING)
TxChains        == {2 * i : i \in 0 .. TxMaxPending - 1}
RxChains        == {2 * i : i \in 0 .. RxAlwaysPending - 1}

None            == "none"
ZeroRxBuf       == [c \in RxChains |-> None]
NoCall          == [buf |-> None, addr |-> None]

\* Device addresses: the identity mapping, or a bounce buffer not in use.
Identity        == Bounce = {}
TxAddresses     == IF Identity THEN Buffers ELSE Bounce
Map(b)          == IF Identity THEN {b} ELSE Bounce \ mapped
Unmap(a)        == IF Identity /\ a \in DOMAIN TxBufCollection THEN mapped ELSE mapped \ {a}

\* VirtioRingInit(): the ring is zeroed.
EmptyRing(size, chains) ==
    [AvailRing |-> [i \in 0 .. size - 1 |-> 0], AvailIdx |-> 0,
     UsedElem  |-> [i \in 0 .. size - 1 |-> 0], UsedIdx  |-> 0,
     Desc      |-> [c \in chains |-> None]]

Supply(ring, size, chain) == [ring EXCEPT !.AvailRing[ring.AvailIdx % size] = chain]

Publish(ring)             == [ring EXCEPT !.AvailIdx = (@ + 1) % IdxMod]
Used(ring, size, lastUsed) == ring.UsedElem[lastUsed % size]

Init ==
    /\ pc = "unbound" /\ held = {} /\ mapped = {} /\ State = "Stopped"
    /\ TxRing = EmptyRing(TxQueueSize, TxChains) /\ RxRing = EmptyRing(RxQueueSize, RxChains)
    /\ TxFreeStack = <<>> /\ TxCurPending = 0 /\ TxLastUsed = 0
    /\ TxBufCollection = <<>> /\ RxLastUsed = 0
    /\ cur = NoCall /\ owned = Buffers
    /\ asserted = FALSE
    /\ dev = "reset" /\ kicked = {}
    /\ hostTx = [idx |-> 0, chains |-> {}] /\ hostRx = [idx |-> 0, chains |-> {}]
    /\ rxbuf = ZeroRxBuf /\ wire = <<>>

\* SetDeviceStatus (0): when it returns, the host has forgotten the rings.
ResetDevice ==
    /\ dev' = "reset" /\ kicked' = {}
    /\ hostTx' = [idx |-> 0, chains |-> {}] /\ hostRx' = [idx |-> 0, chains |-> {}]
    /\ wire' = <<>>
    /\ UNCHANGED rxbuf

\* A step that acquires "gets" and goes on, or fails and jumps to a label.
Acquire(step, next, label, gets) ==
    /\ pc = step
    /\ \/ pc' = next /\ held' = held \cup gets
       \/ ServiceMayFail /\ pc' = label /\ UNCHANGED held

Release(label, next, gives) ==
    /\ pc = label
    /\ pc' = next
    /\ held' = held \ gives

-----------------------------------------------------------------------------
(* VirtioNetDriverBindingStart(), VirtioNetSnpPopulate() and               *)
(* VirtioNetDriverBindingStop().                                           *)

AllocateDev == Acquire("unbound", "open", "unbound", {"Dev"})
OpenVirtIo  == Acquire("open", "waitevent", "FreeVirtioNet", {"VirtIo"})
CreateWaitForPacket == Acquire("waitevent", "getfeatures", "CloseVirtIo", {"WaitForPacket"})
CreateExitBoot == Acquire("exitevent", "devicepath", "CloseWaitForPacket", {"ExitBoot"})
AppendMacNode  == Acquire("devicepath", "install", "Evacuate", {"MacDevicePath"})
InstallSnp     == Acquire("install", "bychild", "FreeMacDevicePath", {"Snp"})
OpenByChild    == Acquire("bychild", "idle", "UninstallMultiple", {"Child"})

BindingAcquire ==
    /\ \/ AllocateDev \/ OpenVirtIo \/ CreateWaitForPacket \/ CreateExitBoot
       \/ AppendMacNode \/ InstallSnp \/ OpenByChild
    /\ UNCHANGED <<mapped, State, tx, rx, asserted, host>>

\* The device is interrogated, then reset, or marked as failed (unless the first reset
\* fails already).
VirtioNetGetFeatures ==
    /\ Acquire("getfeatures", "exitevent", "CloseWaitForPacket", {})
    /\ State' = "Stopped"
    /\ dev' \in IF pc' = "exitevent" THEN {"reset"} ELSE {dev, "failed"}
    /\ UNCHANGED <<mapped, tx, rx, asserted, kicked, hostTx, hostRx, rxbuf, wire>>

\* Mutant: the label misses one of the two events.
EvacuateOneEvent == Release("Evacuate", "CloseVirtIo", {"WaitForPacket"})

VirtioNetSnpEvacuate == Release("Evacuate", "CloseVirtIo", {"ExitBoot", "WaitForPacket"})

BindingRelease ==
    /\ \/ Release("UninstallMultiple", "FreeMacDevicePath", {"Snp"})
       \/ Release("FreeMacDevicePath", "Evacuate", {"MacDevicePath"})
       \/ VirtioNetSnpEvacuate
       \/ Release("CloseWaitForPacket", "CloseVirtIo", {"WaitForPacket"})
       \/ Release("CloseVirtIo", "FreeVirtioNet", {"VirtIo"})
       \/ Release("FreeVirtioNet", "unbound", {"Dev"})
    /\ UNCHANGED <<mapped, State, tx, rx, asserted, host>>

\* Stop() with the child handle; it refuses while the interface is in use.
VirtioNetDriverBindingStopChild ==
    /\ State = "Stopped"
    /\ Release("idle", "stopparent",
               {"Child", "Snp", "MacDevicePath", "ExitBoot", "WaitForPacket", "Dev"})
    /\ UNCHANGED <<mapped, State, tx, rx, asserted, host>>

VirtioNetDriverBindingStop ==
    /\ Release("stopparent", "unbound", {"VirtIo"})
    /\ UNCHANGED <<mapped, State, tx, rx, asserted, host>>

\* VirtioNetExitBoot(); the boot services memory goes to the OS.
VirtioNetExitBoot ==
    /\ pc \in {"idle", "unbound"}
    /\ IF "ExitBoot" \in held /\ State = "Initialized" THEN ResetDevice ELSE UNCHANGED host
    /\ pc' = "exited" /\ mapped' = {} /\ held' = {}
    /\ UNCHANGED <<State, tx, rx, asserted>>

-----------------------------------------------------------------------------
(* Start(), Stop() and Initialize() of the Simple Network Protocol.        *)

VirtioNetStart ==
    /\ pc = "idle" /\ State = "Stopped" /\ State' = "Started"
    /\ UNCHANGED <<pc, held, mapped, tx, rx, asserted, host>>

VirtioNetStop ==
    /\ pc = "idle" /\ State = "Started" /\ State' = "Stopped"
    /\ UNCHANGED <<pc, held, mapped, tx, rx, asserted, host>>

\* VSTAT_ACK.
VirtioNetInitialize ==
    /\ State = "Started"
    /\ Acquire("idle", "driver", "idle", {})
    /\ dev' = IF pc' = "driver" THEN "driver" ELSE dev
    /\ UNCHANGED <<mapped, State, tx, rx, asserted, kicked, hostTx, hostRx, rxbuf, wire>>

\* VSTAT_DRIVER, the page size, the features.
NegotiateFeatures ==
    /\ Acquire("driver", "RxRingInit", "DeviceFailed", {})
    /\ UNCHANGED <<mapped, State, tx, rx, asserted, host>>

\* VirtioNetInitRing() for the queue "q"; its labels come back to "label".
VirtioNetInitRing(q, init, map, set, unmapq, releaseq, next, label) ==
    /\ \/ Acquire(init, map, label, {q}) /\ UNCHANGED mapped
       \/ /\ Acquire(map, set, releaseq, {})
          /\ mapped' = IF pc' = set THEN mapped \cup {q} ELSE mapped
       \/ Acquire(set, next, unmapq, {}) /\ UNCHANGED mapped
       \/ Release(unmapq, releaseq, {}) /\ mapped' = mapped \ {q}
       \/ Release(releaseq, label, {q}) /\ UNCHANGED mapped
    /\ UNCHANGED <<State, TxFreeStack, TxCurPending, TxLastUsed, TxBufCollection, cur, owned,
                   RxLastUsed, asserted, host>>

InitRxRing ==
    /\ VirtioNetInitRing("RxRing", "RxRingInit", "RxRingMap", "RxRingSet", "RxUnmapQueue",
                         "RxReleaseQueue", "TxRingInit", "DeviceFailed")
    /\ RxRing' = IF pc' = "RxRingMap" THEN EmptyRing(RxQueueSize, RxChains) ELSE RxRing
    /\ UNCHANGED TxRing

InitTxRing ==
    /\ VirtioNetInitRing("TxRing", "TxRingInit", "TxRingMap", "TxRingSet", "TxUnmapQueue",
                         "TxReleaseQueue", "driverok", "ReleaseRxRing")
    /\ TxRing' = IF pc' = "TxRingMap" THEN EmptyRing(TxQueueSize, TxChains) ELSE TxRing
    /\ UNCHANGED RxRing

\* SetGuestFeatures(), VSTAT_DRIVER_OK.
DriverOk ==
    /\ Acquire("driverok", "TxFreeStack", "ReleaseTxRing", {})
    /\ dev' = IF pc' = "TxFreeStack" THEN "driver_ok" ELSE dev
    /\ UNCHANGED <<mapped, State, tx, rx, asserted, kicked, hostTx, hostRx, rxbuf, wire>>

\* VirtioNetInitTx(): allocations, then the static layout of the TX descriptors.
InitTxAcquire ==
    /\ \/ /\ Acquire("TxFreeStack", "TxBufCollection", "AbortDevice", {"TxFreeStack"})
          /\ TxCurPending' = 0 /\ UNCHANGED TxBufCollection
       \/ /\ Acquire("TxBufCollection", "TxSharedReq", "FreeTxFreeStack", {"TxBufCollection"})
          /\ TxBufCollection' = IF pc' = "TxSharedReq" THEN <<>> ELSE TxBufCollection
          /\ UNCHANGED TxCurPending
       \/ /\ Acquire("TxSharedReq", "TxSharedReqMap", "UninitTxBufCollection", {"TxSharedReq"})
          /\ UNCHANGED <<TxCurPending, TxBufCollection>>
    /\ UNCHANGED <<mapped, State, TxRing, TxFreeStack, TxLastUsed, cur, owned, rx, asserted,
                   host>>

InitTxLayout ==
    /\ Acquire("TxSharedReqMap", "RxBuf", "FreeTxSharedReqBuffer", {})
    /\ IF pc' = "RxBuf"
       THEN /\ mapped' = mapped \cup {"TxSharedReq"}
            /\ TxFreeStack' = [i \in 1 .. TxMaxPending |-> 2 * (i - 1)]
            /\ TxLastUsed' = TxRing.UsedIdx
            /\ asserted' = (asserted \/ TxLastUsed' # 0)
       ELSE UNCHANGED <<mapped, TxFreeStack, TxLastUsed, asserted>>
    /\ UNCHANGED <<State, TxRing, TxCurPending, TxBufCollection, cur, owned, rx, host>>

InitTxUnwind ==
    /\ \/ Release("FreeTxSharedReqBuffer", "UninitTxBufCollection", {"TxSharedReq"})
       \/ Release("UninitTxBufCollection", "FreeTxFreeStack", {"TxBufCollection"})
       \/ Release("FreeTxFreeStack", "AbortDevice", {"TxFreeStack"})
    /\ UNCHANGED <<mapped, State, tx, rx, asserted, host>>

\* VirtioNetInitRx(): every chain is supplied, then published at once.
AllocateRxBuf ==
    /\ Acquire("RxBuf", "RxBufMap", "ReleaseTxAux", {"RxBuf"})
    /\ UNCHANGED <<mapped, State, tx, rx, asserted, host>>

InitRxLayout ==
    /\ Acquire("RxBufMap", "RxPublish", "FreeSharedBuffer", {})
    /\ IF pc' = "RxPublish"
       THEN /\ mapped' = mapped \cup {"RxBuf"}
            /\ RxLastUsed' = RxRing.UsedIdx
            /\ asserted' = (asserted \/ RxLastUsed' # 0)
            /\ RxRing' = [RxRing EXCEPT !.AvailRing =
                             [i \in DOMAIN @ |-> IF i < RxAlwaysPending THEN 2 * i ELSE @[i]]]
       ELSE UNCHANGED <<mapped, RxLastUsed, asserted, RxRing>>
    /\ rxbuf' = ZeroRxBuf
    /\ UNCHANGED <<State, tx, dev, kicked, hostTx, hostRx, wire>>

\* Mutant: the index counts ring entries, not chains.
InitRxPublishesAll ==
    /\ pc = "RxPublish" /\ pc' = "RxNotify"
    /\ RxRing' = [RxRing EXCEPT !.AvailIdx = (RxQueueSize - 1) % IdxMod]
    /\ UNCHANGED <<held, mapped, State, tx, RxLastUsed, asserted, host>>

InitRxPublish ==
    /\ pc = "RxPublish" /\ pc' = "RxNotify"
    /\ RxRing' = [RxRing EXCEPT !.AvailIdx = RxAlwaysPending]
    /\ UNCHANGED <<held, mapped, State, tx, RxLastUsed, asserted, host>>

\* Mutant: reception is not aborted before the buffers are taken away.
InitRxNotifyNoAbort ==
    /\ pc = "RxNotify"
    /\ \/ /\ pc' = "idle" /\ State' = "Initialized" /\ kicked' = kicked \cup {"Rx"}
       \/ /\ NotifyMayFail /\ pc' = "UnmapSharedBuffer" /\ UNCHANGED <<State, kicked>>
    /\ UNCHANGED <<held, mapped, tx, rx, asserted, dev, hostTx, hostRx, rxbuf, wire>>

\* "If we fail to kick it, we must first abort reception before tearing down anything".
InitRxNotify ==
    /\ pc = "RxNotify"
    /\ \/ /\ pc' = "idle" /\ State' = "Initialized" /\ kicked' = kicked \cup {"Rx"}
          /\ UNCHANGED <<dev, hostTx, hostRx, rxbuf, wire>>
       \/ NotifyMayFail /\ pc' = "UnmapSharedBuffer" /\ ResetDevice /\ UNCHANGED State
    /\ UNCHANGED <<held, mapped, tx, rx, asserted>>

InitRxUnwind ==
    /\ \/ Release("UnmapSharedBuffer", "FreeSharedBuffer", {}) /\ mapped' = mapped \ {"RxBuf"}
       \/ Release("FreeSharedBuffer", "ReleaseTxAux", {"RxBuf"}) /\ UNCHANGED mapped
    /\ UNCHANGED <<State, tx, rx, asserted, host>>

-----------------------------------------------------------------------------
(* Shutdown(), and the labels of Initialize() that do the same.  Memory    *)
(* that is freed loses its contents.                                       *)

VirtioNetShutdown ==
    /\ pc = "idle" /\ State = "Initialized"
    /\ pc' = "ShutdownRx"
    /\ ResetDevice
    /\ UNCHANGED <<held, mapped, State, tx, rx, asserted>>

VirtioNetShutdownRx ==
    /\ Release("ShutdownRx", "ShutdownTx", {"RxBuf"})
    /\ mapped' = mapped \ {"RxBuf"}
    /\ rxbuf' = ZeroRxBuf
    /\ UNCHANGED <<State, tx, rx, asserted, dev, kicked, hostTx, hostRx, wire>>

\* Every buffer still queued is unmapped; it is the caller's again.
VirtioNetShutdownTx ==
    /\ \/ Release("ReleaseTxAux", "AbortDevice", {"TxSharedReq", "TxBufCollection", "TxFreeStack"})
       \/ Release("ShutdownTx", "ShutdownTxRing",
                  {"TxSharedReq", "TxBufCollection", "TxFreeStack"})
    /\ mapped' = mapped \ ({"TxSharedReq"} \cup DOMAIN TxBufCollection)
    /\ TxBufCollection' = <<>>
    /\ TxFreeStack' = <<>>
    /\ owned' = Buffers
    /\ UNCHANGED <<State, TxRing, TxCurPending, TxLastUsed, cur, rx, asserted, host>>

VirtioNetUninitRing(q) ==
    /\ IF q = "TxRing" THEN \/ Release("ShutdownTxRing", "ShutdownRxRing", {q})
                            \/ Release("ReleaseTxRing", "ReleaseRxRing", {q})
                       ELSE \/ Release("ShutdownRxRing", "idle", {q})
                            \/ Release("ReleaseRxRing", "DeviceFailed", {q})
    /\ mapped' = mapped \ {q}
    /\ TxRing' = IF q = "TxRing" THEN EmptyRing(TxQueueSize, TxChains) ELSE TxRing
    /\ RxRing' = IF q = "RxRing" THEN EmptyRing(RxQueueSize, RxChains) ELSE RxRing
    /\ State' = IF pc' = "idle" THEN "Started" ELSE State
    /\ UNCHANGED <<TxFreeStack, TxCurPending, TxLastUsed, TxBufCollection, cur, owned,
                   RxLastUsed, asserted, host>>

\* Mutant: label DeviceFailed does not reset the device.
AbortWithoutReset ==
    /\ \/ Release("AbortDevice", "ReleaseTxRing", {}) /\ ResetDevice
       \/ Release("DeviceFailed", "idle", {}) /\ UNCHANGED host
    /\ UNCHANGED <<mapped, State, tx, rx, asserted>>

\* Labels AbortDevice and DeviceFailed.
AbortDevice ==
    /\ Release("AbortDevice", "ReleaseTxRing", {}) \/ Release("DeviceFailed", "idle", {})
    /\ ResetDevice
    /\ UNCHANGED <<mapped, State, tx, rx, asserted>>

-----------------------------------------------------------------------------
(* Transmit() and GetStatus().                                             *)

\* The checks of Transmit(), then VirtioMapAllBytesInSharedBuffer().
VirtioNetTransmit(b) ==
    /\ pc = "idle" /\ State = "Initialized"
    /\ TxCurPending < TxMaxPending
    /\ b \in owned /\ owned' = owned \ {b}
    /\ \E a \in Map(b) : mapped' = mapped \cup {a} /\ cur' = [buf |-> b, addr |-> a]
    /\ pc' = "TxInsert"
    /\ UNCHANGED <<held, State, TxRing, TxFreeStack, TxCurPending, TxLastUsed, TxBufCollection,
                   rx, asserted, host>>

Duplicate == cur.addr \in DOMAIN TxBufCollection

\* OrderedCollectionInsert() fails: the buffer is unmapped and the call returns.
TxInsertFails ==
    /\ pc = "TxInsert"
    /\ ServiceMayFail \/ Duplicate
    /\ asserted' = (asserted \/ Duplicate)
    /\ mapped' = Unmap(cur.addr)
    /\ owned' = owned \cup {cur.buf}
    /\ pc' = "idle" /\ cur' = NoCall
    /\ UNCHANGED <<held, State, TxRing, TxFreeStack, TxCurPending, TxLastUsed, TxBufCollection,
                   rx, host>>

\* Mutant: the stack pointer is not advanced.
TransmitKeepsChain ==
    /\ pc = "TxInsert" /\ ~Duplicate
    /\ TxBufCollection' = [a \in DOMAIN TxBufCollection \cup {cur.addr} |->
                              IF a = cur.addr THEN cur.buf ELSE TxBufCollection[a]]
    /\ LET chain == TxFreeStack[TxCurPending + 1]
       IN  TxRing' = Supply([TxRing EXCEPT !.Desc[chain] = cur.addr], TxQueueSize, chain)
    /\ pc' = "TxPublish"
    /\ UNCHANGED <<held, mapped, State, TxFreeStack, TxCurPending, TxLastUsed, cur, owned, rx,
                   asserted, host>>

\* The buffer is recorded, a chain is popped, its address set and the chain supplied.
TransmitSupply ==
    /\ pc = "TxInsert" /\ ~Duplicate
    /\ TxBufCollection' = [a \in DOMAIN TxBufCollection \cup {cur.addr} |->
                              IF a = cur.addr THEN cur.buf ELSE TxBufCollection[a]]
    /\ LET chain == TxFreeStack[TxCurPending + 1]
       IN  TxRing' = Supply([TxRing EXCEPT !.Desc[chain] = cur.addr], TxQueueSize, chain)
    /\ TxCurPending' = TxCurPending + 1
    /\ pc' = "TxPublish"
    /\ UNCHANGED <<held, mapped, State, TxFreeStack, TxLastUsed, cur, owned, rx, asserted, host>>

TransmitPublish ==
    /\ pc = "TxPublish" /\ pc' = "TxNotify"
    /\ TxRing' = Publish(TxRing)
    /\ UNCHANGED <<held, mapped, State, TxFreeStack, TxCurPending, TxLastUsed, TxBufCollection,
                   cur, owned, rx, asserted, host>>

\* Mutant: no notification.
TransmitWithoutNotify ==
    /\ pc = "TxNotify" /\ pc' = "idle" /\ cur' = NoCall
    /\ UNCHANGED <<held, mapped, State, TxRing, TxFreeStack, TxCurPending, TxLastUsed,
                   TxBufCollection, owned, rx, asserted, host>>

\* The status of SetQueueNotify() is the status of the call: after an error the caller
\* takes the buffer for its own.
TransmitNotify ==
    /\ pc = "TxNotify" /\ pc' = "idle" /\ cur' = NoCall
    /\ \/ kicked' = kicked \cup {"Tx"} /\ UNCHANGED owned
       \/ NotifyMayFail /\ owned' = owned \cup {cur.buf} /\ UNCHANGED kicked
    /\ UNCHANGED <<held, mapped, State, TxRing, TxFreeStack, TxCurPending, TxLastUsed,
                   TxBufCollection, rx, asserted, dev, hostTx, hostRx, rxbuf, wire>>

\* Mutant: the chain is taken from the oldest entry of Avail instead of Used.
GetStatusInOrder ==
    /\ pc = "idle" /\ State = "Initialized"
    /\ TxLastUsed # TxRing.UsedIdx
    /\ LET chain == TxRing.AvailRing[TxLastUsed % TxQueueSize]
           addr  == TxRing.Desc[chain]
           found == addr \in DOMAIN TxBufCollection
       IN  /\ asserted' = (asserted \/ TxCurPending \notin 1 .. TxMaxPending
                                    \/ ~(chain < 2 * TxMaxPending - 1) \/ ~found)
           /\ TxFreeStack' = [TxFreeStack EXCEPT ![TxCurPending] = chain]
           /\ TxBufCollection' = [a \in DOMAIN TxBufCollection \ {addr} |-> TxBufCollection[a]]
           /\ owned' = IF found THEN owned \cup {TxBufCollection[addr]} ELSE owned
           /\ mapped' = IF found THEN mapped \ {addr} ELSE mapped
    /\ TxLastUsed' = (TxLastUsed + 1) % IdxMod
    /\ TxCurPending' = TxCurPending - 1
    /\ UNCHANGED <<pc, held, State, TxRing, cur, rx, host>>

\* Mutant: the buffer is unmapped but stays in the collection.
GetStatusKeepsEntry ==
    /\ pc = "idle" /\ State = "Initialized"
    /\ TxLastUsed # TxRing.UsedIdx
    /\ LET chain == Used(TxRing, TxQueueSize, TxLastUsed)
           addr  == TxRing.Desc[chain]
       IN  /\ TxFreeStack' = [TxFreeStack EXCEPT ![TxCurPending] = chain]
           /\ owned' = owned \cup {TxBufCollection[addr]}
           /\ mapped' = mapped \ {addr}
    /\ TxLastUsed' = (TxLastUsed + 1) % IdxMod
    /\ TxCurPending' = TxCurPending - 1
    /\ UNCHANGED <<pc, held, State, TxRing, TxBufCollection, cur, asserted, rx, host>>

\* One completed chain is pushed back, its buffer unmapped and given to the caller.
VirtioNetGetStatus ==
    /\ pc = "idle" /\ State = "Initialized"
    /\ TxLastUsed # TxRing.UsedIdx
    /\ LET chain == Used(TxRing, TxQueueSize, TxLastUsed)
           addr  == TxRing.Desc[chain]
           found == addr \in DOMAIN TxBufCollection
       IN  /\ asserted' = (asserted \/ TxCurPending \notin 1 .. TxMaxPending
                                    \/ ~(chain < 2 * TxMaxPending - 1) \/ ~found)
           /\ TxFreeStack' = [TxFreeStack EXCEPT ![TxCurPending] = chain]
           /\ TxBufCollection' = [a \in DOMAIN TxBufCollection \ {addr} |-> TxBufCollection[a]]
           /\ owned' = IF found THEN owned \cup {TxBufCollection[addr]} ELSE owned
           /\ mapped' = IF found THEN mapped \ {addr} ELSE mapped
    /\ TxLastUsed' = (TxLastUsed + 1) % IdxMod
    /\ TxCurPending' = TxCurPending - 1
    /\ UNCHANGED <<pc, held, State, TxRing, cur, rx, host>>

-----------------------------------------------------------------------------
(* Receive().                                                              *)

\* Mutant: the descriptor is recycled from the wrong end of the used ring.
ReceiveRecyclesLatest ==
    /\ pc = "idle" /\ State = "Initialized"
    /\ RxLastUsed # RxRing.UsedIdx
    /\ RxRing' = Supply(RxRing, RxQueueSize, Used(RxRing, RxQueueSize, RxRing.UsedIdx + IdxMod - 1))
    /\ RxLastUsed' = (RxLastUsed + 1) % IdxMod
    /\ wire' = Tail(wire)
    /\ pc' = "RxRecycle"
    /\ UNCHANGED <<held, mapped, State, tx, asserted, dev, kicked, hostTx, hostRx, rxbuf>>

\* The oldest packet is copied (or dropped, if it is short) and its chain supplied again.
\* If the caller's buffer is too small, the packet is kept and nothing changes.
VirtioNetReceive ==
    /\ pc = "idle" /\ State = "Initialized"
    /\ RxLastUsed # RxRing.UsedIdx
    /\ RxRing' = Supply(RxRing, RxQueueSize, Used(RxRing, RxQueueSize, RxLastUsed))
    /\ RxLastUsed' = (RxLastUsed + 1) % IdxMod
    /\ wire' = Tail(wire)
    /\ pc' = "RxRecycle"
    /\ UNCHANGED <<held, mapped, State, tx, asserted, dev, kicked, hostTx, hostRx, rxbuf>>

ReceivePublish ==
    /\ pc = "RxRecycle" /\ pc' = "RxRecycleNotify"
    /\ RxRing' = Publish(RxRing)
    /\ UNCHANGED <<held, mapped, State, tx, RxLastUsed, asserted, host>>

ReceiveNotify ==
    /\ pc = "RxRecycleNotify" /\ pc' = "idle"
    /\ \/ kicked' = kicked \cup {"Rx"}
       \/ NotifyMayFail /\ UNCHANGED kicked
    /\ UNCHANGED <<held, mapped, State, tx, rx, asserted, dev, hostTx, hostRx, rxbuf, wire>>

-----------------------------------------------------------------------------
(* The host (external).  It takes chains in order, whether notified or     *)
(* not, and completes them in any order.                                   *)

HostTakeTx ==
    /\ dev = "driver_ok"
    /\ IF hostTx.idx # TxRing.AvailIdx
       THEN /\ LET chain == TxRing.AvailRing[hostTx.idx % TxQueueSize]
               IN  hostTx' = [idx    |-> (hostTx.idx + 1) % IdxMod,
                              chains |-> hostTx.chains \cup
                                            {[chain |-> chain, addr |-> TxRing.Desc[chain]]}]
            /\ UNCHANGED kicked
       ELSE "Tx" \in kicked /\ kicked' = kicked \ {"Tx"} /\ UNCHANGED hostTx
    /\ UNCHANGED <<binding, tx, rx, asserted, dev, hostRx, rxbuf, wire>>

HostCompleteTx(c) ==
    /\ c \in hostTx.chains
    /\ hostTx' = [hostTx EXCEPT !.chains = @ \ {c}]
    /\ TxRing' = [TxRing EXCEPT !.UsedElem[TxRing.UsedIdx % TxQueueSize] = c.chain,
                                !.UsedIdx = (@ + 1) % IdxMod]
    /\ UNCHANGED <<binding, TxFreeStack, TxCurPending, TxLastUsed, TxBufCollection, cur, owned,
                   rx, asserted, dev, kicked, hostRx, rxbuf, wire>>

HostTakeRx ==
    /\ dev = "driver_ok"
    /\ IF hostRx.idx # RxRing.AvailIdx
       THEN /\ hostRx' = [idx    |-> (hostRx.idx + 1) % IdxMod,
                          chains |-> hostRx.chains \cup
                                        {RxRing.AvailRing[hostRx.idx % RxQueueSize]}]
            /\ UNCHANGED kicked
       ELSE "Rx" \in kicked /\ kicked' = kicked \ {"Rx"} /\ UNCHANGED hostRx
    /\ UNCHANGED <<binding, tx, rx, asserted, dev, hostTx, rxbuf, wire>>

HostStoreRx(c, packet) ==
    /\ c \in hostRx.chains
    /\ hostRx' = [hostRx EXCEPT !.chains = @ \ {c}]
    /\ rxbuf' = [rxbuf EXCEPT ![c] = packet]
    /\ wire' = Append(wire, packet)
    /\ RxRing' = [RxRing EXCEPT !.UsedElem[RxRing.UsedIdx % RxQueueSize] = c,
                                !.UsedIdx = (@ + 1) % IdxMod]
    /\ UNCHANGED <<binding, tx, RxLastUsed, asserted, dev, kicked, hostTx>>

-----------------------------------------------------------------------------
Binding ==
    \/ BindingAcquire \/ VirtioNetGetFeatures \/ BindingRelease
    \/ VirtioNetDriverBindingStopChild \/ VirtioNetDriverBindingStop \/ VirtioNetExitBoot

Initialize ==
    \/ NegotiateFeatures \/ InitRxRing \/ InitTxRing \/ DriverOk
    \/ InitTxAcquire \/ InitTxLayout \/ InitTxUnwind
    \/ AllocateRxBuf \/ InitRxLayout \/ InitRxPublish \/ InitRxNotify \/ InitRxUnwind

Shutdown ==
    \/ VirtioNetShutdownRx \/ VirtioNetShutdownTx \/ AbortDevice
    \/ \E q \in {"TxRing", "RxRing"} : VirtioNetUninitRing(q)

TransmitSteps == TxInsertFails \/ TransmitSupply \/ TransmitPublish \/ TransmitNotify
ReceiveSteps  == ReceivePublish \/ ReceiveNotify

Calls ==
    \/ VirtioNetStart \/ VirtioNetStop \/ VirtioNetInitialize \/ VirtioNetShutdown
    \/ \E b \in Buffers : VirtioNetTransmit(b)
    \/ VirtioNetGetStatus \/ VirtioNetReceive

HostSend(chain) == \E c \in hostTx.chains : c.chain = chain /\ HostCompleteTx(c)

Host ==
    \/ HostTakeTx \/ (\E chain \in TxChains : HostSend(chain)) \/ HostTakeRx
    \/ \E c \in hostRx.chains, packet \in Packets : HostStoreRx(c, packet)

Next == Binding \/ Initialize \/ Shutdown \/ Calls \/ TransmitSteps \/ ReceiveSteps \/ Host

Spec == Init /\ [][Next]_vars

\* A call runs on; the host answers a notification and sends every chain it has taken; between
\* its other calls the network stack keeps polling GetStatus().
Fairness ==
    /\ WF_vars(TransmitSteps) /\ WF_vars(ReceiveSteps) /\ WF_vars(Shutdown)
    /\ WF_vars("Tx" \in kicked /\ HostTakeTx) /\ (\A chain \in TxChains : WF_vars(HostSend(chain)))
    /\ SF_vars(VirtioNetGetStatus)

FairSpec == Spec /\ Fairness

-----------------------------------------------------------------------------
(* Properties.                                                             *)

Resources == {"Dev", "VirtIo", "WaitForPacket", "ExitBoot", "MacDevicePath", "Snp", "Child",
              "RxRing", "TxRing", "TxFreeStack", "TxBufCollection", "TxSharedReq", "RxBuf"}
Indices   == 0 .. IdxMod - 1
RingOK(ring, size, chains) ==
    /\ ring.AvailRing \in [0 .. size - 1 -> chains] /\ ring.AvailIdx \in Indices
    /\ ring.UsedElem  \in [0 .. size - 1 -> chains] /\ ring.UsedIdx  \in Indices
    /\ ring.Desc \in [chains -> TxAddresses \cup {None}]

TypeOK ==
    /\ held \subseteq Resources
    /\ mapped \subseteq {"RxRing", "TxRing", "TxSharedReq", "RxBuf"} \cup TxAddresses
    /\ State \in {"Stopped", "Started", "Initialized"}
    /\ RingOK(TxRing, TxQueueSize, TxChains) /\ RingOK(RxRing, RxQueueSize, RxChains)
    /\ TxFreeStack = <<>> \/ TxFreeStack \in [1 .. TxMaxPending -> TxChains]
    /\ TxCurPending \in 0 .. TxMaxPending
    /\ {TxLastUsed, RxLastUsed} \subseteq Indices
    /\ DOMAIN TxBufCollection \subseteq TxAddresses
    /\ \A a \in DOMAIN TxBufCollection : TxBufCollection[a] \in Buffers
    /\ owned \subseteq Buffers /\ asserted \in BOOLEAN
    /\ dev \in {"reset", "driver", "driver_ok", "failed"}
    /\ kicked \subseteq {"Tx", "Rx"}
    /\ hostRx.chains \subseteq RxChains /\ {hostTx.idx, hostRx.idx} \subseteq Indices
    /\ wire \in Seq(Packets)

\* No ASSERT() of InitTx(), InitRx(), MapTxBuf() or GetStatus() fails, however the host
\* orders its completions and wherever the ring indices wrap.
AssertsHold == ~asserted

\* "In the EfiSimpleNetworkStarted state the virtio-net device has status value 0":
\* every way out of Initialize() and Shutdown() resets the device.
StartedIsReset ==
    pc = "idle" /\ State # "Initialized" => dev = "reset"

\* A live device has its rings, and what the host has taken of them is mapped: no failure
\* of Initialize(), no Shutdown(), no ExitBootServices() and no GetStatus() takes away
\* memory that the host may still access.
HostInMappedMemory ==
    /\ dev = "driver_ok" => {"TxRing", "RxRing"} \subseteq mapped
    /\ hostRx.chains # {} => "RxBuf" \in mapped
    /\ \A c \in hostTx.chains : {"TxSharedReq", c.addr} \subseteq mapped

\* What is held matches the state of the interface: no error path leaks.
NothingLeaked ==
    /\ pc = "unbound" => held = {} /\ mapped = {}
    /\ pc = "idle" /\ State # "Initialized" =>
          /\ held = {"Dev", "VirtIo", "WaitForPacket", "ExitBoot", "MacDevicePath", "Snp", "Child"}
          /\ mapped = {}
    /\ pc = "idle" /\ State = "Initialized" =>
          /\ held = Resources
          /\ mapped = {"TxRing", "RxRing", "TxSharedReq", "RxBuf"} \cup DOMAIN TxBufCollection

\* The chains between two free-running indices of a ring.
Between(ringArray, from, to, size) ==
    {ringArray[(from + k) % size] : k \in 0 .. ((to - from) % IdxMod) - 1}
Offered(ring, hostIdx, size) == Between(ring.AvailRing, hostIdx, ring.AvailIdx, size)
Completed(ring, lastUsed, size) == Between(ring.UsedElem, lastUsed, ring.UsedIdx, size)
FreeTx == {TxFreeStack[i] : i \in TxCurPending + 1 .. TxMaxPending}
Disjoint(sets) == \A i, j \in DOMAIN sets : i # j => sets[i] \cap sets[j] = {}
Accounts(sets, all) ==
    /\ UNION {sets[i] : i \in DOMAIN sets} = all
    /\ Disjoint(sets)

\* No TX chain is lost or used twice: between calls, each one is free, offered to the host,
\* held by it, or completed and not reaped, and the stack pointer counts the free ones.
TxChainsAccounted ==
    pc = "idle" /\ State = "Initialized" =>
        /\ Accounts(<<FreeTx, Offered(TxRing, hostTx.idx, TxQueueSize),
                      {c.chain : c \in hostTx.chains},
                      Completed(TxRing, TxLastUsed, TxQueueSize)>>, TxChains)
        /\ Cardinality(FreeTx) = TxMaxPending - TxCurPending

\* A buffer is with the caller or on the ring, never both, never neither: GetStatus()
\* returns each transmitted buffer once, and not before the host is through with it.
TxBuffersAccounted ==
    pc = "idle" /\ State = "Initialized" =>
        LET pending == TxChains \ FreeTx
        IN  /\ DOMAIN TxBufCollection = {TxRing.Desc[c] : c \in pending}
            /\ {TxBufCollection[a] : a \in DOMAIN TxBufCollection} = Buffers \ owned
            /\ Cardinality(pending) = Cardinality(Buffers \ owned)
            /\ \A c \in hostTx.chains : c.addr \in DOMAIN TxBufCollection

\* No RX chain is lost or supplied twice.
RxChainsAccounted ==
    pc = "idle" /\ State = "Initialized" =>
        Accounts(<<Offered(RxRing, hostRx.idx, RxQueueSize), hostRx.chains,
                   Completed(RxRing, RxLastUsed, RxQueueSize)>>, RxChains)

\* Receive() returns the packets in the order and with the contents the host stored: the
\* host does not overwrite a packet that is still to be received.
PacketsIntact ==
    State = "Initialized" /\ dev = "driver_ok" =>
        /\ Len(wire) = (RxRing.UsedIdx - RxLastUsed) % IdxMod
        /\ \A k \in 1 .. Len(wire) :
              rxbuf[Used(RxRing, RxQueueSize, RxLastUsed + k - 1)] = wire[k]

\* A transmitted buffer comes back to the caller, through GetStatus() or Shutdown(), unless
\* the machine leaves the firmware first.
BufferReturned == \A b \in Buffers : b \notin owned ~> b \in owned \/ pc = "exited"
=============================================================================
