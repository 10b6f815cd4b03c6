------------------------------ MODULE VirtioBlk ------------------------------
(***************************************************************************)
(* The virtio-blk driver (VirtioBlkDxe/VirtioBlk.c) over VirtioLib, and    *)
(* its host: set-up with its unwinding on failure, requests in lock-step,  *)
(* tear-down, and the device reset at ExitBootServices().                  *)
(*                                                                         *)
(* The host runs concurrently.  A device address is the buffer it was      *)
(* mapped for: the ring, or a buffer of a request (with the parity of the  *)
(* request, so that a stale address differs from the current one).         *)
(***************************************************************************)
EXTENDS VirtioLib, FiniteSets

CONSTANTS
    LastBlock,       \* BlockIoMedia.LastBlock
    LbaMod,          \* 2^64: block arithmetic is unsigned
    MaxBlocks,       \* SIZE_1GB / BlockSize
    ReadOnly,        \* BlockIoMedia.ReadOnly
    WriteCaching,    \* BlockIoMedia.WriteCaching
    ServiceMayFail,  \* TRUE iff allocations, mappings and other services may fail
    NotifyMayFail    \* TRUE iff SetQueueNotify() may fail

ASSUME MediaAssumption ==
    /\ LastBlock \in Nat /\ MaxBlocks \in Nat \ {0}
    /\ LbaMod \in Nat /\ LbaMod > LastBlock /\ LbaMod > MaxBlocks
    /\ {ReadOnly, WriteCaching, ServiceMayFail, NotifyMayFail} \subseteq BOOLEAN

VARIABLES
    pc,          \* the driver: step of Start(), Stop() or SynchronousRequest()
    held,        \* what the driver instance owns
    mapped,      \* addresses the device may access
    ring,        \* Dev->Ring
    request,     \* the request being served
    gen,         \* its parity
    Status,      \* Status of SynchronousRequest()
    HostStatus,  \* *HostStatus
    dev,         \* the device's status register
    kicked,      \* a notification the host has not acted on yet
    hostIdx,     \* avail entries the host has taken
    host,        \* what the host does, and with which chain
    executions   \* how often the host has carried out the current request

driver == <<pc, held, mapped, request, gen, Status>>
device == <<dev, kicked, hostIdx, host, executions>>
vars   == <<driver, ring, HostStatus, device>>

Resources == {"Dev", "VirtIo", "Ring", "ExitBoot", "BlockIo"}
StatusPage == "HostStatusBuffer"
RingAddr  == [kind |-> "ring", gen |-> 0]
Addr(k)   == [kind |-> k, gen |-> gen]
Addrs     == [kind : {"ring", "header", "data", "status"}, gen : {0, 1}]
IdleHost  == [st |-> "idle", chain |-> {}]
NoRequest == [op |-> "none", lba |-> 0, blocks |-> 0]
Requests  == [op : {"none", "read", "write", "flush"}, lba : 0 .. LbaMod - 1,
              blocks : 0 .. LbaMod - 1]

StartSteps   == {"open", "reset", "ringinit", "ringmap", "setqueue", "driverok",
                 "event", "install"}
UnwindLabels == {"CloseExitBoot", "UninitDev", "UninitUnmap", "UninitRing", "UnmapQueue",
                 "ReleaseQueue", "Failed", "CloseVirtIo", "FreeVirtioBlk"}
RequestSteps == {"allocstatus", "mapheader", "mapdata", "mapstatus", "chain",
                 "availring", "availidx", "notify", "poll", "unmapstatus", "unmapdata", "unmapheader",
                 "freestatus"}

Init ==
    /\ pc = "stopped" /\ held = {} /\ mapped = {}
    /\ ring = VirtioRingInit
    /\ request = NoRequest /\ gen = 0
    /\ Status = "none" /\ HostStatus = "IOERR"
    /\ dev = "reset" /\ kicked = FALSE /\ hostIdx = 0 /\ host = IdleHost
    /\ executions = 0

\* A device reset takes effect before the write returns: the host forgets the ring.
ResetDevice ==
    /\ dev' = "reset" /\ kicked' = FALSE /\ hostIdx' = 0 /\ host' = IdleHost
    /\ UNCHANGED executions

-----------------------------------------------------------------------------
(* VirtioBlkDriverBindingStart() and VirtioBlkInit().                      *)

\* A step of Start(): on success it acquires what "gets" says and goes on; on
\* failure it jumps to a label.
Acquire(step, next, label, gets) ==
    /\ pc = step
    /\ \/ pc' = next /\ held' = held \cup gets
       \/ ServiceMayFail /\ pc' = label /\ UNCHANGED held

VirtioBlkDriverBindingStart ==
    /\ Acquire("stopped", "open", "stopped", {"Dev"})
    /\ UNCHANGED <<mapped, request, gen, Status, ring, HostStatus, device>>

OpenVirtIo ==
    /\ Acquire("open", "reset", "FreeVirtioBlk", {"VirtIo"})
    /\ UNCHANGED <<mapped, request, gen, Status, ring, HostStatus, device>>

\* Steps 1 to 4a: reset, ACK, DRIVER, features, media, queue size.
VirtioBlkInitReset ==
    /\ Acquire("reset", "ringinit", "Failed", {})
    /\ dev' = IF pc' = "ringinit" THEN "driver" ELSE "reset"
    /\ kicked' = FALSE /\ hostIdx' = 0 /\ host' = IdleHost
    /\ UNCHANGED <<mapped, request, gen, Status, ring, HostStatus, executions>>

VirtioBlkInitRing ==
    /\ Acquire("ringinit", "ringmap", "Failed", {"Ring"})
    /\ ring' = IF pc' = "ringmap" THEN VirtioRingInit ELSE ring
    /\ UNCHANGED <<mapped, request, gen, Status, HostStatus, device>>

VirtioRingMap ==
    /\ Acquire("ringmap", "setqueue", "ReleaseQueue", {})
    /\ mapped' = IF pc' = "setqueue" THEN mapped \cup {RingAddr} ELSE mapped
    /\ UNCHANGED <<request, gen, Status, ring, HostStatus, device>>

\* SetQueueNum(), SetQueueAlign(), SetQueueAddress(), SetGuestFeatures().
VirtioBlkInitQueue ==
    /\ Acquire("setqueue", "driverok", "UnmapQueue", {})
    /\ UNCHANGED <<mapped, request, gen, Status, ring, HostStatus, device>>

VirtioBlkInitDriverOk ==
    /\ Acquire("driverok", "event", "UnmapQueue", {})
    /\ dev' = IF pc' = "event" THEN "driver_ok" ELSE dev
    /\ UNCHANGED <<mapped, request, gen, Status, ring, HostStatus, kicked, hostIdx, host,
                   executions>>

CreateExitBootEvent ==
    /\ Acquire("event", "install", "UninitDev", {"ExitBoot"})
    /\ UNCHANGED <<mapped, request, gen, Status, ring, HostStatus, device>>

InstallBlockIo ==
    /\ Acquire("install", "ready", "CloseExitBoot", {"BlockIo"})
    /\ UNCHANGED <<mapped, request, gen, Status, ring, HostStatus, device>>

-----------------------------------------------------------------------------
(* The labels of the error paths; VirtioBlkDriverBindingStop() and         *)
(* VirtioBlkUninit() run through the same ones.                            *)

Release(label, next, gives) ==
    /\ pc = label
    /\ pc' = next
    /\ held' = held \ gives

VirtioBlkDriverBindingStop ==
    /\ Release("ready", "CloseExitBoot", {"BlockIo"})
    /\ Status' = "none"
    /\ UNCHANGED <<mapped, request, gen, ring, HostStatus, device>>

CloseExitBoot ==
    /\ Release("CloseExitBoot", "UninitDev", {"ExitBoot"})
    /\ UNCHANGED <<mapped, request, gen, Status, ring, HostStatus, device>>

\* Mutant: the ring is taken away first, the device reset afterwards.
UninitWithoutReset ==
    /\ Release("UninitDev", "UninitUnmap", {})
    /\ UNCHANGED <<mapped, request, gen, Status, ring, HostStatus, device>>

\* VirtioBlkUninit() resets the device, unmaps the ring, frees it.
VirtioBlkUninit ==
    /\ Release("UninitDev", "UninitUnmap", {})
    /\ ResetDevice
    /\ UNCHANGED <<mapped, request, gen, Status, ring, HostStatus>>

UnmapRing ==
    /\ \/ Release("UninitUnmap", "UninitRing", {})
       \/ Release("UnmapQueue", "ReleaseQueue", {})
    /\ mapped' = mapped \ {RingAddr}
    /\ UNCHANGED <<request, gen, Status, ring, HostStatus, device>>

VirtioRingUninit ==
    /\ \/ Release("UninitRing", "CloseVirtIo", {"Ring"})
       \/ Release("ReleaseQueue", "Failed", {"Ring"})
    /\ UNCHANGED <<mapped, request, gen, Status, ring, HostStatus, device>>

InitFailed ==
    /\ Release("Failed", "CloseVirtIo", {})
    /\ dev' = "failed"
    /\ UNCHANGED <<mapped, request, gen, Status, ring, HostStatus, kicked, hostIdx, host,
                   executions>>

CloseVirtIo ==
    /\ Release("CloseVirtIo", "FreeVirtioBlk", {"VirtIo"})
    /\ UNCHANGED <<mapped, request, gen, Status, ring, HostStatus, device>>

FreeVirtioBlk ==
    /\ Release("FreeVirtioBlk", "stopped", {"Dev"})
    /\ UNCHANGED <<mapped, request, gen, Status, ring, HostStatus, device>>

\* ExitBootServices(): the boot services memory, the ring included, goes to the OS.
ExitBootServices ==
    /\ pc \in {"stopped", "ready"}
    /\ IF "ExitBoot" \in held THEN ResetDevice ELSE UNCHANGED device
    /\ pc' = "exited"
    /\ mapped' = {} /\ held' = {}
    /\ Status' = "none"
    /\ UNCHANGED <<request, gen, ring, HostStatus>>

-----------------------------------------------------------------------------
(* Requests.                                                               *)

\* Mutant: the end of the transfer computed first, and wrapping around.
VerifyWithWraparound(lba, blocks, write) ==
    /\ blocks <= MaxBlocks
    /\ ~((lba + blocks - 1) % LbaMod > LastBlock)
    /\ ~(write /\ ReadOnly)

\* VerifyReadWriteRequest(); a size is a number of blocks here.
VerifyReadWriteRequest(lba, blocks, write) ==
    /\ blocks <= MaxBlocks
    /\ ~(lba > LastBlock \/ blocks - 1 > (LastBlock - lba) % LbaMod)
    /\ ~(write /\ ReadOnly)

BeginRequest(req) ==
    /\ pc = "ready"
    /\ request' = req
    /\ gen' = 1 - gen
    /\ executions' = 0
    /\ Status' = "none"
    /\ pc' = "allocstatus"
    /\ UNCHANGED <<held, mapped, ring, HostStatus, dev, kicked, hostIdx, host>>

VirtioBlkReadBlocks(lba, blocks) ==
    /\ VerifyReadWriteRequest(lba, blocks, FALSE)
    /\ BeginRequest([op |-> "read", lba |-> lba, blocks |-> blocks])

VirtioBlkWriteBlocks(lba, blocks) ==
    /\ VerifyReadWriteRequest(lba, blocks, TRUE)
    /\ BeginRequest([op |-> "write", lba |-> lba, blocks |-> blocks])

VirtioBlkFlushBlocks ==
    /\ WriteCaching
    /\ BeginRequest([op |-> "flush", lba |-> 0, blocks |-> 0])

HasData == request.op # "flush"

\* AllocateSharedPages() for the host status, or an early return.
AllocateHostStatus ==
    /\ pc = "allocstatus"
    /\ \/ held' = held \cup {StatusPage} /\ pc' = "mapheader" /\ UNCHANGED <<request, Status>>
       \/ /\ ServiceMayFail /\ pc' = "ready" /\ Status' = "EFI_DEVICE_ERROR"
          /\ request' = NoRequest /\ UNCHANGED held
    /\ UNCHANGED <<mapped, gen, ring, HostStatus, device>>

\* VirtioMapAllBytesInSharedBuffer(), or a jump to the label that undoes what was
\* done so far.
MapBuffer(step, kind, next, label) ==
    /\ pc = step
    /\ \/ mapped' = mapped \cup {Addr(kind)} /\ pc' = next /\ UNCHANGED Status
       \/ /\ ServiceMayFail /\ pc' = label /\ Status' = "EFI_DEVICE_ERROR"
          /\ UNCHANGED mapped
    /\ UNCHANGED <<held, request, gen, ring, device>>

MapHeader ==
    /\ MapBuffer("mapheader", "header", IF HasData THEN "mapdata" ELSE "mapstatus",
                 "freestatus")
    /\ UNCHANGED HostStatus

\* Mutant: the wrong label, past the unmapping of the header.
MapDataLeaksHeader ==
    MapBuffer("mapdata", "data", "mapstatus", "freestatus") /\ UNCHANGED HostStatus

MapData == MapBuffer("mapdata", "data", "mapstatus", "unmapheader") /\ UNCHANGED HostStatus

MapStatus ==
    /\ MapBuffer("mapstatus", "status", "chain", "unmapdata")
    /\ HostStatus' = "IOERR"

\* VirtioPrepare() and VirtioAppendDesc(): header, data if any, status.
BuildChain ==
    /\ pc = "chain"
    /\ LET r1 == VirtioAppendDesc(ring, 0, Addr("header"), TRUE)
           r2 == IF HasData THEN VirtioAppendDesc(r1, 1, Addr("data"), TRUE) ELSE r1
       IN  ring' = VirtioAppendDesc(r2, IF HasData THEN 2 ELSE 1, Addr("status"), FALSE)
    /\ pc' = "availring"
    /\ UNCHANGED <<held, mapped, request, gen, Status, HostStatus, device>>

PublishAvailRing ==
    /\ pc = "availring"
    /\ ring' = VirtioFlushAvailRing(ring)
    /\ pc' = "availidx"
    /\ UNCHANGED <<held, mapped, request, gen, Status, HostStatus, device>>

PublishAvailIdx ==
    /\ pc = "availidx"
    /\ ring' = VirtioFlushAvailIdx(ring)
    /\ pc' = "notify"
    /\ UNCHANGED <<held, mapped, request, gen, Status, HostStatus, device>>

\* Mutant: no notification.
NotifyDropped ==
    /\ pc = "notify"
    /\ pc' = "poll"
    /\ UNCHANGED <<held, mapped, request, gen, Status, ring, HostStatus, device>>

\* SetQueueNotify(); if it fails, VirtioFlush() returns at once.
SetQueueNotify ==
    /\ pc = "notify"
    /\ \/ pc' = "poll" /\ kicked' = TRUE /\ UNCHANGED Status
       \/ /\ NotifyMayFail
          /\ pc' = "unmapstatus" /\ Status' = "EFI_DEVICE_ERROR"
          /\ UNCHANGED kicked
    /\ UNCHANGED <<held, mapped, request, gen, ring, HostStatus, dev, hostIdx, host,
                   executions>>

\* Mutant: the driver does not wait for the host.
PollOnce ==
    /\ pc = "poll"
    /\ Status' = "EFI_DEVICE_ERROR"
    /\ pc' = "unmapstatus"
    /\ UNCHANGED <<held, mapped, request, gen, ring, HostStatus, device>>

PollUsedIdx ==
    /\ pc = "poll"
    /\ VirtioFlushDone(ring)
    /\ Status' = IF HostStatus = "OK" THEN "EFI_SUCCESS" ELSE "EFI_DEVICE_ERROR"
    /\ pc' = "unmapstatus"
    /\ UNCHANGED <<held, mapped, request, gen, ring, HostStatus, device>>

UnmapStatus ==
    /\ pc = "unmapstatus"
    /\ mapped' = mapped \ {Addr("status")}
    /\ pc' = "unmapdata"
    /\ UNCHANGED <<held, request, gen, Status, ring, HostStatus, device>>

\* Label UnmapDataBuffer: if the data of a read cannot be unmapped, it has not
\* reached the caller.
UnmapData ==
    /\ pc = "unmapdata"
    /\ mapped' = mapped \ {Addr("data")}
    /\ \/ UNCHANGED Status
       \/ /\ ServiceMayFail /\ request.op = "read" /\ Status = "EFI_SUCCESS"
          /\ Status' = "EFI_DEVICE_ERROR"
    /\ pc' = "unmapheader"
    /\ UNCHANGED <<held, request, gen, ring, HostStatus, device>>

UnmapHeader ==
    /\ pc = "unmapheader"
    /\ mapped' = mapped \ {Addr("header")}
    /\ pc' = "freestatus"
    /\ UNCHANGED <<held, request, gen, Status, ring, HostStatus, device>>

\* Label FreeHostStatusBuffer, and the return to the caller.
FreeHostStatus ==
    /\ pc = "freestatus"
    /\ held' = held \ {StatusPage}
    /\ request' = NoRequest
    /\ pc' = "ready"
    /\ UNCHANGED <<mapped, gen, Status, ring, HostStatus, device>>

-----------------------------------------------------------------------------
(* The host (external).  It may look at the ring at any time; it must look *)
(* when it is notified.                                                    *)

HostFetch ==
    /\ dev = "driver_ok" /\ host.st = "idle"
    /\ IF hostIdx # ring.AvailIdx
       THEN /\ host' = [st |-> "fetched",
                        chain |-> HostChain(ring, ring.AvailRing[hostIdx % QueueSize])]
            /\ hostIdx' = (hostIdx + 1) % IdxMod
            /\ UNCHANGED kicked
       ELSE /\ kicked /\ kicked' = FALSE
            /\ UNCHANGED <<host, hostIdx>>
    /\ UNCHANGED <<driver, ring, HostStatus, dev, executions>>

HostExecute(outcome) ==
    /\ host.st = "fetched"
    /\ HostStatus' = outcome
    /\ executions' = IF executions < 2 THEN executions + 1 ELSE executions
    /\ host' = [host EXCEPT !.st = "executed"]
    /\ UNCHANGED <<driver, ring, dev, kicked, hostIdx>>

HostComplete ==
    /\ host.st = "executed"
    /\ ring' = HostPushUsed(ring)
    /\ host' = IdleHost
    /\ UNCHANGED <<driver, HostStatus, dev, kicked, hostIdx, executions>>

-----------------------------------------------------------------------------
Start ==
    \/ VirtioBlkDriverBindingStart \/ OpenVirtIo \/ VirtioBlkInitReset \/ VirtioBlkInitRing
    \/ VirtioRingMap \/ VirtioBlkInitQueue \/ VirtioBlkInitDriverOk \/ CreateExitBootEvent
    \/ InstallBlockIo

Unwind ==
    \/ CloseExitBoot \/ VirtioBlkUninit \/ UnmapRing \/ VirtioRingUninit \/ InitFailed
    \/ CloseVirtIo \/ FreeVirtioBlk

Call ==
    \/ \E lba \in 0 .. LbaMod - 1, blocks \in 1 .. LbaMod - 1 :
           VirtioBlkReadBlocks(lba, blocks) \/ VirtioBlkWriteBlocks(lba, blocks)
    \/ VirtioBlkFlushBlocks

SynchronousRequest ==
    \/ AllocateHostStatus \/ MapHeader \/ MapData \/ MapStatus \/ BuildChain
    \/ PublishAvailRing \/ PublishAvailIdx \/ SetQueueNotify \/ PollUsedIdx \/ UnmapStatus \/ UnmapData
    \/ UnmapHeader \/ FreeHostStatus

HostWork == (\E outcome \in {"OK", "IOERR"} : HostExecute(outcome)) \/ HostComplete

Next ==
    \/ Start \/ Unwind \/ VirtioBlkDriverBindingStop \/ ExitBootServices
    \/ Call \/ SynchronousRequest
    \/ HostFetch \/ HostWork

Spec == Init /\ [][Next]_vars

\* The driver's code runs on; the host answers a notification and finishes what
\* it has taken.
Fairness ==
    /\ WF_vars(SynchronousRequest)
    /\ WF_vars(kicked /\ HostFetch) /\ WF_vars(HostWork)

FairSpec == Spec /\ Fairness

-----------------------------------------------------------------------------
(* Properties.                                                             *)

TypeOK ==
    /\ pc \in {"stopped", "ready", "exited"} \cup StartSteps \cup UnwindLabels
              \cup RequestSteps
    /\ held \subseteq Resources \cup {StatusPage}
    /\ mapped \subseteq Addrs
    /\ ring.AvailIdx \in 0 .. IdxMod - 1 /\ ring.UsedIdx \in 0 .. IdxMod - 1
    /\ ring.AvailRing \in [QueueIdx -> QueueIdx]
    /\ ring.Desc \in [QueueIdx -> [addr : Addrs \cup {NoAddr}, more : BOOLEAN,
                                   next : QueueIdx]]
    /\ request \in Requests /\ gen \in {0, 1}
    /\ Status \in {"none", "EFI_SUCCESS", "EFI_DEVICE_ERROR"}
    /\ HostStatus \in {"OK", "IOERR"}
    /\ dev \in {"reset", "driver", "driver_ok", "failed"}
    /\ kicked \in BOOLEAN /\ hostIdx \in 0 .. IdxMod - 1
    /\ host \in [st : {"idle", "fetched", "executed"}, chain : SUBSET (Addrs \cup {NoAddr})]
    /\ executions \in 0 .. 2

\* A device that may look at the ring has the ring's pages: no path of Start(),
\* Stop() or ExitBootServices() takes them away from under a live device.
RingOutlivesDevice == dev = "driver_ok" => RingAddr \in mapped

\* The host reads and writes only buffers that are mapped for it: SynchronousRequest()
\* undoes its mappings only when the host is through with the chain.
HostInMappedMemory == host.st = "fetched" => host.chain \subseteq mapped

\* Nothing is leaked on any error path, nor kept by Stop(): a stopped driver owns
\* nothing, and between requests only the ring is mapped.
NothingLeaked ==
    /\ pc = "stopped" => held = {} /\ mapped = {}
    /\ pc = "ready" => held = Resources /\ mapped = {RingAddr}

\* "Free space is taken as granted, since ... host side status is processed in
\* lock-step with request submission" (VirtioAppendDesc()): when a chain is built,
\* the host is through with every earlier one.
LockStep == pc \in {"chain", "availring", "availidx"} => VirtioFlushDone(ring) /\ host.st = "idle"

\* A transfer that reaches the device lies on the disk, in spite of the unsigned
\* subtractions of VerifyReadWriteRequest().
TransferOnDisk ==
    request.op \in {"read", "write"} => request.lba + request.blocks - 1 <= LastBlock

\* What the caller of the protocol sees: the state of its call, and what it returned.
ProtocolCall ==
    CASE pc \in RequestSteps -> (CASE executions = 0 -> "pending"
                                   [] executions = 1 -> "executed"
                                   [] executions > 1 -> "twice")
      [] pc = "ready"  -> "open"
      [] OTHER -> "closed"
ProtocolResult == IF pc = "ready" THEN Status ELSE "none"

\* The driver implements the synchronous protocol.
Protocol == INSTANCE BlockIo WITH call <- ProtocolCall, result <- ProtocolResult

ImplementsBlockIo == Protocol!Spec

\* Every request comes back to its caller.
RequestReturns == pc \in RequestSteps ~> pc = "ready"
=============================================================================
