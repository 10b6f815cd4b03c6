--------------------------- MODULE VirtioBlkProofs ---------------------------
(***************************************************************************)
(* The safety of the virtio-blk driver, for every queue size, index width, *)
(* disk and pattern of failures: an inductive invariant of VirtioBlk, the  *)
(* theorems that follow from it, and the refinement of BlockIo.            *)
(***************************************************************************)
EXTENDS VirtioBlk, TLAPS

-----------------------------------------------------------------------------
(* The inductive invariant, by subject.                                    *)

Descriptors == [addr : Addrs \cup {NoAddr}, more : BOOLEAN, next : QueueIdx]
Indices == 0 .. IdxMod - 1

\* The ring as a whole; every chain the driver offers starts at descriptor 0.
Rings == [Desc : [QueueIdx -> Descriptors], AvailRing : [QueueIdx -> {0}],
          AvailIdx : Indices, UsedIdx : Indices]
RingType == ring \in Rings

\* Where the device may look at the ring.
Live == {"event", "install", "ready", "CloseExitBoot", "UninitDev"} \cup RequestSteps

\* What is mapped, by the step or the label.
DataAddr == IF HasData THEN {Addr("data")} ELSE {}
Chain == {Addr("header"), Addr("status")} \cup DataAddr
InChain == {"chain", "availring", "availidx", "notify", "poll", "unmapstatus"}

Mappings ==
    /\ pc \in {"stopped", "open", "reset", "ringinit", "ringmap", "UninitRing", "ReleaseQueue",
               "Failed", "CloseVirtIo", "FreeVirtioBlk", "exited"} => mapped = {}
    /\ pc \in {"setqueue", "driverok", "event", "install", "ready", "CloseExitBoot", "UninitDev",
               "UninitUnmap", "UnmapQueue", "allocstatus", "mapheader", "freestatus"}
          => mapped = {RingAddr}
    /\ pc \in {"mapdata", "unmapheader"} => mapped = {RingAddr, Addr("header")}
    /\ pc \in {"mapstatus", "unmapdata"} => mapped = {RingAddr, Addr("header")} \cup DataAddr
    /\ pc \in InChain => mapped = {RingAddr} \cup Chain
    /\ pc = "mapdata" => HasData

\* What is held, by the step or the label.
Holdings ==
    /\ pc \in {"stopped", "exited"} => held = {}
    /\ pc \in {"open", "FreeVirtioBlk"} => held = {"Dev"}
    /\ pc \in {"reset", "ringinit", "Failed", "CloseVirtIo"} => held = {"Dev", "VirtIo"}
    /\ pc \in {"ringmap", "setqueue", "driverok", "event", "UninitDev", "UninitUnmap", "UninitRing",
               "UnmapQueue", "ReleaseQueue"} => held = {"Dev", "VirtIo", "Ring"}
    /\ pc \in {"install", "CloseExitBoot"} => held = {"Dev", "VirtIo", "Ring", "ExitBoot"}
    /\ pc \in {"ready", "allocstatus"} => held = Resources
    /\ pc \in RequestSteps \ {"allocstatus"} => held = Resources \cup {StatusPage}

\* The device is live exactly where the driver thinks so.
Device ==
    /\ dev = "driver_ok" <=> pc \in Live
    /\ dev # "driver_ok" => host = IdleHost

Inv == TypeOK /\ RingType /\ Mappings /\ Holdings /\ Device /\ TransferOnDisk

-----------------------------------------------------------------------------
(* The lock-step, which holds unless a notification fails.                 *)

\* The chain of the request, as BuildChain leaves it in the descriptors.
Built ==
    /\ ring.Desc[0] = [addr |-> Addr("header"), more |-> TRUE, next |-> 1]
    /\ IF HasData
       THEN /\ ring.Desc[1] = [addr |-> Addr("data"), more |-> TRUE, next |-> 2]
            /\ ring.Desc[2].addr = Addr("status") /\ ~ring.Desc[2].more
       ELSE ring.Desc[1].addr = Addr("status") /\ ~ring.Desc[1].more

\* The host is through with every chain.
Quiet == hostIdx = ring.AvailIdx /\ ring.UsedIdx = ring.AvailIdx /\ host = IdleHost

\* The one chain in flight: offered, taken, carried out, or completed.
InFlight ==
    \/ /\ hostIdx = ring.UsedIdx /\ ring.AvailIdx = (hostIdx + 1) % IdxMod
       /\ host = IdleHost /\ executions = 0
    \/ /\ hostIdx = ring.AvailIdx /\ ring.AvailIdx = (ring.UsedIdx + 1) % IdxMod
       /\ host.chain = Chain
       /\ \/ host.st = "fetched" /\ executions = 0
          \/ host.st = "executed" /\ executions = 1
    \/ Quiet /\ executions = 1

Published == {"notify", "poll"}
Unpublished == {"allocstatus", "mapheader", "mapdata", "mapstatus", "chain", "availring", "availidx"}
Returning == {"unmapstatus", "unmapdata", "unmapheader", "freestatus"}

InLockStep ==
    /\ pc = "ringinit" => hostIdx = 0
    /\ pc \in {"ringmap", "setqueue", "driverok"} => ring = VirtioRingInit /\ hostIdx = 0
    /\ pc \in Live \ Published => Quiet
    /\ pc \in Published => InFlight
    /\ pc \in {"availring", "availidx"} \cup Published => Built

\* What the driver will report of the request, and what the host has done.
Reports ==
    /\ pc \in Unpublished => executions = 0
    /\ pc \in Returning => executions \in {0, 1}
    /\ pc \in Unpublished \cup Published => Status = "none"
    /\ pc \in Returning => /\ Status \in {"EFI_SUCCESS", "EFI_DEVICE_ERROR"}
                           /\ Status = "EFI_SUCCESS" => executions = 1
    /\ pc \notin RequestSteps \cup {"ready"} => Status = "none"

LInv == Inv /\ InLockStep /\ Reports
-----------------------------------------------------------------------------
(* Lemmas about the operators of the model.                                *)

\* A UINT16 index stays in range when it wraps, and moves.
LEMMA Wrap ==
    ASSUME NEW x \in Indices
    PROVE  (x + 1) % IdxMod \in Indices /\ (x + 1) % IdxMod # x
  BY RingAssumption DEF Indices

\* The three descriptors of a chain exist.
LEMMA Slots ==
    /\ 0 % QueueSize = 0 /\ 1 % QueueSize = 1 /\ 2 % QueueSize = 2
    /\ {0, 1, 2} \subseteq QueueIdx
    /\ \A i \in Int : i % QueueSize \in QueueIdx
  BY RingAssumption DEF QueueIdx

\* What TypeOK says of the ring.
LEMMA RingFields ==
    ASSUME NEW r \in Rings
    PROVE  /\ r.AvailIdx \in 0 .. IdxMod - 1 /\ r.UsedIdx \in 0 .. IdxMod - 1
           /\ r.AvailRing \in [QueueIdx -> QueueIdx]
           /\ r.Desc \in [QueueIdx -> [addr : Addrs \cup {NoAddr}, more : BOOLEAN,
                                       next : QueueIdx]]
  BY Slots DEF Rings, Descriptors, Indices

\* The operations on the ring keep it a ring.
LEMMA RingOperations ==
    /\ VirtioRingInit \in Rings
    /\ \A r \in Rings : /\ VirtioFlushAvailRing(r) \in Rings
                        /\ VirtioFlushAvailIdx(r) \in Rings
                        /\ HostPushUsed(r) \in Rings
    /\ \A r \in Rings, i \in Nat, a \in Addrs, more \in BOOLEAN :
           VirtioAppendDesc(r, i, a, more) \in Rings
  <1>1. VirtioRingInit \in Rings
    BY RingAssumption, Slots DEF VirtioRingInit, Rings, Descriptors, Indices
  <1>2. ASSUME NEW r \in Rings
        PROVE  /\ VirtioFlushAvailRing(r) \in Rings
               /\ VirtioFlushAvailIdx(r) \in Rings
               /\ HostPushUsed(r) \in Rings
    BY Wrap, Slots
       DEF Rings, VirtioFlushAvailRing, VirtioFlushAvailIdx, HostPushUsed, HeadDescIdx
  <1>3. ASSUME NEW r \in Rings, NEW i \in Nat, NEW a \in Addrs, NEW more \in BOOLEAN
        PROVE  VirtioAppendDesc(r, i, a, more) \in Rings
    <2>1. [addr |-> a, more |-> more, next |-> (i + 1) % QueueSize] \in Descriptors
      BY Slots DEF Descriptors
    <2>. QED
      BY <2>1 DEF VirtioAppendDesc, Rings
  <1>. QED
    BY <1>1, <1>2, <1>3

\* VerifyReadWriteRequest() keeps a transfer on the disk: its unsigned subtraction
\* does not wrap, as the test before it sees to.
LEMMA Verified ==
    ASSUME NEW lba \in 0 .. LbaMod - 1, NEW blocks \in 1 .. LbaMod - 1, NEW write \in BOOLEAN,
           VerifyReadWriteRequest(lba, blocks, write)
    PROVE  lba + blocks - 1 <= LastBlock
  <1>1. lba <= LastBlock /\ LastBlock - lba \in 0 .. LbaMod - 1
    BY MediaAssumption DEF VerifyReadWriteRequest
  <1>2. (LastBlock - lba) % LbaMod = LastBlock - lba
    BY <1>1, MediaAssumption
  <1>. QED
    BY <1>1, <1>2, MediaAssumption DEF VerifyReadWriteRequest

\* The names of the steps, for use with the sets left abstract.
LEMMA Names ==
    /\ StartSteps \cup UnwindLabels \cup RequestSteps
          = {"open", "reset", "ringinit", "ringmap", "setqueue", "driverok", "event", "install",
             "CloseExitBoot", "UninitDev", "UninitUnmap", "UninitRing", "UnmapQueue",
             "ReleaseQueue", "Failed", "CloseVirtIo", "FreeVirtioBlk", "allocstatus",
             "mapheader", "mapdata", "mapstatus", "chain", "availring", "availidx", "notify",
             "poll", "unmapstatus", "unmapdata", "unmapheader", "freestatus"}
  BY DEF StartSteps, UnwindLabels, RequestSteps

\* The addresses, the idle host and the absent request have their types.
LEMMA ValueTypes ==
    /\ RingAddr \in Addrs
    /\ \A g \in {0, 1}, k \in {"header", "data", "status"} : [kind |-> k, gen |-> g] \in Addrs
    /\ IdleHost \in [st : {"idle", "fetched", "executed"}, chain : SUBSET (Addrs \cup {NoAddr})]
    /\ 0 \in 0 .. IdxMod - 1
    /\ NoRequest \in Requests /\ NoRequest.op = "none"
  BY RingAssumption, MediaAssumption DEF RingAddr, Addrs, IdleHost, NoRequest, Requests

\* Nothing is held, mapped or live before Start().
LEMMA InvInit == ASSUME Init PROVE Inv
  <1>1. RingType
    BY RingOperations DEF Init, RingType
  <1>2. TypeOK
    <2>1. pc \in {"stopped", "ready", "exited"} \cup StartSteps \cup UnwindLabels \cup RequestSteps
      BY DEF Init
    <2>2. host \in [st : {"idle", "fetched", "executed"}, chain : SUBSET (Addrs \cup {NoAddr})]
      BY ValueTypes DEF Init
    <2>3. /\ ring.AvailIdx \in 0 .. IdxMod - 1 /\ ring.UsedIdx \in 0 .. IdxMod - 1
          /\ ring.AvailRing \in [QueueIdx -> QueueIdx]
          /\ ring.Desc \in [QueueIdx -> Descriptors]
      BY <1>1, RingFields DEF RingType, Descriptors
    <2>4. /\ request \in Requests /\ hostIdx \in 0 .. IdxMod - 1
          /\ held \subseteq Resources \cup {StatusPage} /\ mapped \subseteq Addrs
          /\ executions \in 0 .. 2
      BY ValueTypes DEF Init
    <2>5. /\ kicked \in BOOLEAN /\ gen \in {0, 1} /\ dev \in {"reset", "driver", "driver_ok", "failed"}
          /\ Status \in {"none", "EFI_SUCCESS", "EFI_DEVICE_ERROR"}
          /\ HostStatus \in {"OK", "IOERR"}
      BY DEF Init
    <2>. QED
      BY <2>1, <2>2, <2>3, <2>4, <2>5 DEF TypeOK, Descriptors
  <1>. QED
    BY <1>1, <1>2, ValueTypes
       DEF Init, Inv, Mappings, Holdings, Device, TransferOnDisk, RequestSteps, Live, InChain

\* BuildChain leaves a ring.
LEMMA ChainType == ASSUME Inv, BuildChain PROVE ring' \in Rings
  <1>. DEFINE r1 == VirtioAppendDesc(ring, 0, Addr("header"), TRUE)
              r2 == IF HasData THEN VirtioAppendDesc(r1, 1, Addr("data"), TRUE) ELSE r1
  <1>1. ring \in Rings /\ {Addr("header"), Addr("data"), Addr("status")} \subseteq Addrs
    BY ValueTypes DEF Inv, TypeOK, RingType, Addr
  <1>2. r1 \in Rings
    BY <1>1, RingOperations
  <1>3. r2 \in Rings
    BY <1>1, <1>2, RingOperations
  <1>4. ring' = VirtioAppendDesc(r2, IF HasData THEN 2 ELSE 1, Addr("status"), FALSE)
    BY DEF BuildChain
  <1>. QED
    BY <1>1, <1>3, <1>4, RingOperations

\* No step of Start(), failing or not, disturbs the invariant.
LEMMA StartInv == ASSUME Inv, Start PROVE Inv'
  <1>. USE DEF Inv, device, Acquire
  <1>1. CASE VirtioBlkDriverBindingStart
    <2>1. TypeOK' /\ RingType' /\ TransferOnDisk'
      BY <1>1, Names, ZenonT(60) DEF VirtioBlkDriverBindingStart, TypeOK, RingType, TransferOnDisk,
             Resources
    <2>2. Mappings'
      BY <1>1 DEF VirtioBlkDriverBindingStart, Mappings, InChain
    <2>3. Holdings'
      BY <1>1 DEF VirtioBlkDriverBindingStart, Holdings, RequestSteps
    <2>4. Device'
      BY <1>1 DEF VirtioBlkDriverBindingStart, Device, Live, RequestSteps
    <2>. QED
      BY <2>1, <2>2, <2>3, <2>4 DEF Inv
  <1>2. CASE OpenVirtIo
    <2>1. TypeOK' /\ RingType' /\ TransferOnDisk'
      BY <1>2, Names, ZenonT(60) DEF OpenVirtIo, TypeOK, RingType, TransferOnDisk, Resources
    <2>2. Mappings'
      BY <1>2 DEF OpenVirtIo, Mappings, InChain
    <2>3. Holdings'
      BY <1>2 DEF OpenVirtIo, Holdings, RequestSteps
    <2>4. Device'
      BY <1>2 DEF OpenVirtIo, Device, Live, RequestSteps
    <2>. QED
      BY <2>1, <2>2, <2>3, <2>4 DEF Inv
  <1>3. CASE VirtioBlkInitReset
    <2>1. TypeOK' /\ RingType' /\ TransferOnDisk'
      BY <1>3, Names, ValueTypes DEF VirtioBlkInitReset, TypeOK, RingType, TransferOnDisk,
             Resources
    <2>2. Mappings'
      BY <1>3 DEF VirtioBlkInitReset, Mappings, InChain
    <2>3. Holdings'
      BY <1>3 DEF VirtioBlkInitReset, Holdings, RequestSteps
    <2>4. Device'
      BY <1>3 DEF VirtioBlkInitReset, Device, Live, RequestSteps
    <2>. QED
      BY <2>1, <2>2, <2>3, <2>4 DEF Inv
  <1>4. CASE VirtioBlkInitRing
    <2>1. TypeOK' /\ RingType' /\ TransferOnDisk'
      BY <1>4, Names, RingOperations, RingFields, ZenonT(60) DEF VirtioBlkInitRing, TypeOK, RingType,
             TransferOnDisk, Resources
    <2>2. Mappings'
      BY <1>4 DEF VirtioBlkInitRing, Mappings, InChain
    <2>3. Holdings'
      BY <1>4 DEF VirtioBlkInitRing, Holdings, RequestSteps
    <2>4. Device'
      BY <1>4 DEF VirtioBlkInitRing, Device, Live, RequestSteps
    <2>. QED
      BY <2>1, <2>2, <2>3, <2>4 DEF Inv
  <1>5. CASE VirtioRingMap
    <2>1. TypeOK' /\ RingType' /\ TransferOnDisk'
      BY <1>5, Names, ValueTypes, ZenonT(60) DEF VirtioRingMap, TypeOK, RingType, TransferOnDisk,
             Resources
    <2>2. Mappings'
      BY <1>5 DEF VirtioRingMap, Mappings, InChain
    <2>3. Holdings'
      BY <1>5 DEF VirtioRingMap, Holdings, RequestSteps
    <2>4. Device'
      BY <1>5 DEF VirtioRingMap, Device, Live, RequestSteps
    <2>. QED
      BY <2>1, <2>2, <2>3, <2>4 DEF Inv
  <1>6. CASE VirtioBlkInitQueue
    <2>1. TypeOK' /\ RingType' /\ TransferOnDisk'
      BY <1>6, Names, ZenonT(60) DEF VirtioBlkInitQueue, TypeOK, RingType, TransferOnDisk, Resources
    <2>2. Mappings'
      BY <1>6 DEF VirtioBlkInitQueue, Mappings, InChain
    <2>3. Holdings'
      BY <1>6 DEF VirtioBlkInitQueue, Holdings, RequestSteps
    <2>4. Device'
      BY <1>6 DEF VirtioBlkInitQueue, Device, Live, RequestSteps
    <2>. QED
      BY <2>1, <2>2, <2>3, <2>4 DEF Inv
  <1>7. CASE VirtioBlkInitDriverOk
    <2>1. TypeOK' /\ RingType' /\ TransferOnDisk'
      BY <1>7, Names DEF VirtioBlkInitDriverOk, TypeOK, RingType, TransferOnDisk, Resources
    <2>2. Mappings'
      BY <1>7 DEF VirtioBlkInitDriverOk, Mappings, InChain
    <2>3. Holdings'
      BY <1>7 DEF VirtioBlkInitDriverOk, Holdings, RequestSteps
    <2>4. Device'
      BY <1>7 DEF VirtioBlkInitDriverOk, Device, Live, RequestSteps
    <2>. QED
      BY <2>1, <2>2, <2>3, <2>4 DEF Inv
  <1>8. CASE CreateExitBootEvent
    <2>1. TypeOK' /\ RingType' /\ TransferOnDisk'
      BY <1>8, Names, ZenonT(60) DEF CreateExitBootEvent, TypeOK, RingType, TransferOnDisk, Resources
    <2>2. Mappings'
      BY <1>8 DEF CreateExitBootEvent, Mappings, InChain
    <2>3. Holdings'
      BY <1>8 DEF CreateExitBootEvent, Holdings, RequestSteps
    <2>4. Device'
      BY <1>8 DEF CreateExitBootEvent, Device, Live, RequestSteps
    <2>. QED
      BY <2>1, <2>2, <2>3, <2>4 DEF Inv
  <1>9. CASE InstallBlockIo
    <2>1. TypeOK' /\ RingType' /\ TransferOnDisk'
      BY <1>9, Names, ZenonT(60) DEF InstallBlockIo, TypeOK, RingType, TransferOnDisk, Resources
    <2>2. Mappings'
      BY <1>9 DEF InstallBlockIo, Mappings, InChain
    <2>3. Holdings'
      BY <1>9 DEF InstallBlockIo, Holdings, RequestSteps, Resources
    <2>4. Device'
      BY <1>9 DEF InstallBlockIo, Device, Live, RequestSteps
    <2>. QED
      BY <2>1, <2>2, <2>3, <2>4 DEF Inv
  <1>. QED
    BY <1>1, <1>2, <1>3, <1>4, <1>5, <1>6, <1>7, <1>8, <1>9 DEF Start

\* No label of the error paths and no step of Stop() disturbs the invariant.
LEMMA UnwindInv == ASSUME Inv, Unwind PROVE Inv'
  <1>. USE DEF Inv, device, Release
  <1>1. CASE CloseExitBoot
    <2>1. TypeOK' /\ RingType' /\ TransferOnDisk'
      BY <1>1, Names DEF CloseExitBoot, TypeOK, RingType, TransferOnDisk, Resources
    <2>2. Mappings'
      BY <1>1 DEF CloseExitBoot, Mappings, InChain
    <2>3. Holdings'
      BY <1>1 DEF CloseExitBoot, Holdings, RequestSteps
    <2>4. Device'
      BY <1>1 DEF CloseExitBoot, Device, Live, RequestSteps
    <2>. QED
      BY <2>1, <2>2, <2>3, <2>4 DEF Inv
  <1>2. CASE VirtioBlkUninit
    <2>1. TypeOK' /\ RingType' /\ TransferOnDisk'
      BY <1>2, Names, ValueTypes DEF VirtioBlkUninit, TypeOK, RingType, TransferOnDisk,
             Resources, ResetDevice
    <2>2. Mappings'
      BY <1>2 DEF VirtioBlkUninit, Mappings, InChain
    <2>3. Holdings'
      BY <1>2 DEF VirtioBlkUninit, Holdings, RequestSteps
    <2>4. Device'
      BY <1>2, ValueTypes DEF VirtioBlkUninit, Device, Live, RequestSteps, ResetDevice
    <2>. QED
      BY <2>1, <2>2, <2>3, <2>4 DEF Inv
  <1>3. CASE UnmapRing
    <2>1. TypeOK' /\ RingType' /\ TransferOnDisk'
      BY <1>3, Names, ZenonT(60) DEF UnmapRing, TypeOK, RingType, TransferOnDisk, Resources
    <2>2. Mappings'
      BY <1>3 DEF UnmapRing, Mappings, InChain
    <2>3. Holdings'
      BY <1>3 DEF UnmapRing, Holdings, RequestSteps
    <2>4. Device'
      BY <1>3 DEF UnmapRing, Device, Live, RequestSteps
    <2>. QED
      BY <2>1, <2>2, <2>3, <2>4 DEF Inv
  <1>4. CASE VirtioRingUninit
    <2>1. TypeOK' /\ RingType' /\ TransferOnDisk'
      BY <1>4, Names, ZenonT(60) DEF VirtioRingUninit, TypeOK, RingType, TransferOnDisk, Resources
    <2>2. Mappings'
      BY <1>4 DEF VirtioRingUninit, Mappings, InChain
    <2>3. Holdings'
      BY <1>4 DEF VirtioRingUninit, Holdings, RequestSteps
    <2>4. Device'
      BY <1>4 DEF VirtioRingUninit, Device, Live, RequestSteps
    <2>. QED
      BY <2>1, <2>2, <2>3, <2>4 DEF Inv
  <1>5. CASE InitFailed
    <2>1. TypeOK' /\ RingType' /\ TransferOnDisk'
      BY <1>5, Names DEF InitFailed, TypeOK, RingType, TransferOnDisk, Resources
    <2>2. Mappings'
      BY <1>5 DEF InitFailed, Mappings, InChain
    <2>3. Holdings'
      BY <1>5 DEF InitFailed, Holdings, RequestSteps
    <2>4. Device'
      BY <1>5 DEF InitFailed, Device, Live, RequestSteps
    <2>. QED
      BY <2>1, <2>2, <2>3, <2>4 DEF Inv
  <1>6. CASE CloseVirtIo
    <2>1. TypeOK' /\ RingType' /\ TransferOnDisk'
      BY <1>6, Names DEF CloseVirtIo, TypeOK, RingType, TransferOnDisk, Resources
    <2>2. Mappings'
      BY <1>6 DEF CloseVirtIo, Mappings, InChain
    <2>3. Holdings'
      BY <1>6 DEF CloseVirtIo, Holdings, RequestSteps
    <2>4. Device'
      BY <1>6 DEF CloseVirtIo, Device, Live, RequestSteps
    <2>. QED
      BY <2>1, <2>2, <2>3, <2>4 DEF Inv
  <1>7. CASE FreeVirtioBlk
    <2>1. TypeOK' /\ RingType' /\ TransferOnDisk'
      BY <1>7, Names DEF FreeVirtioBlk, TypeOK, RingType, TransferOnDisk, Resources
    <2>2. Mappings'
      BY <1>7 DEF FreeVirtioBlk, Mappings, InChain
    <2>3. Holdings'
      BY <1>7 DEF FreeVirtioBlk, Holdings, RequestSteps
    <2>4. Device'
      BY <1>7 DEF FreeVirtioBlk, Device, Live, RequestSteps
    <2>. QED
      BY <2>1, <2>2, <2>3, <2>4 DEF Inv
  <1>. QED
    BY <1>1, <1>2, <1>3, <1>4, <1>5, <1>6, <1>7 DEF Unwind

\* No step of SynchronousRequest(), failing or not, disturbs the invariant.
LEMMA RequestInv == ASSUME Inv, SynchronousRequest PROVE Inv'
  <1>. USE DEF Inv, device, MapBuffer
  <1>1. CASE AllocateHostStatus
    <2>1. TypeOK' /\ RingType' /\ TransferOnDisk'
      BY <1>1, Names, ValueTypes, ZenonT(60) DEF AllocateHostStatus, TypeOK, RingType, TransferOnDisk,
             Resources
    <2>2. Mappings'
      BY <1>1 DEF AllocateHostStatus, Mappings, InChain
    <2>3. Holdings'
      BY <1>1 DEF AllocateHostStatus, Holdings, RequestSteps
    <2>4. Device'
      BY <1>1 DEF AllocateHostStatus, Device, Live, RequestSteps
    <2>. QED
      BY <2>1, <2>2, <2>3, <2>4 DEF Inv
  <1>2. CASE MapHeader
    <2>1. TypeOK' /\ RingType' /\ TransferOnDisk'
      BY <1>2, Names, ValueTypes DEF MapHeader, TypeOK, RingType, TransferOnDisk, Resources,
             Addr
    <2>2. Mappings'
      BY <1>2 DEF MapHeader, Mappings, InChain, DataAddr, HasData, Addr
    <2>3. Holdings'
      BY <1>2 DEF MapHeader, Holdings, RequestSteps
    <2>4. Device'
      BY <1>2 DEF MapHeader, Device, Live, RequestSteps
    <2>. QED
      BY <2>1, <2>2, <2>3, <2>4 DEF Inv
  <1>3. CASE MapData
    <2>1. TypeOK' /\ RingType' /\ TransferOnDisk'
      BY <1>3, Names, ValueTypes DEF MapData, TypeOK, RingType, TransferOnDisk, Resources,
             Addr
    <2>2. Mappings'
      BY <1>3 DEF MapData, Mappings, InChain, DataAddr, HasData, Addr
    <2>3. Holdings'
      BY <1>3 DEF MapData, Holdings, RequestSteps
    <2>4. Device'
      BY <1>3 DEF MapData, Device, Live, RequestSteps
    <2>. QED
      BY <2>1, <2>2, <2>3, <2>4 DEF Inv
  <1>4. CASE MapStatus
    <2>1. TypeOK' /\ RingType' /\ TransferOnDisk'
      BY <1>4, Names, ValueTypes DEF MapStatus, TypeOK, RingType, TransferOnDisk, Resources,
             Addr
    <2>2. Mappings'
      BY <1>4 DEF MapStatus, Mappings, InChain, DataAddr, Chain, HasData, Addr
    <2>3. Holdings'
      BY <1>4 DEF MapStatus, Holdings, RequestSteps
    <2>4. Device'
      BY <1>4 DEF MapStatus, Device, Live, RequestSteps
    <2>. QED
      BY <2>1, <2>2, <2>3, <2>4 DEF Inv
  <1>5. CASE BuildChain
    <2>1. TypeOK' /\ RingType' /\ TransferOnDisk'
      BY <1>5, Names, RingFields, ChainType, ZenonT(60) DEF BuildChain, TypeOK, RingType,
             TransferOnDisk, Resources
    <2>2. Mappings'
      BY <1>5 DEF BuildChain, Mappings, InChain, Chain, DataAddr, HasData, Addr
    <2>3. Holdings'
      BY <1>5 DEF BuildChain, Holdings, RequestSteps
    <2>4. Device'
      BY <1>5 DEF BuildChain, Device, Live, RequestSteps
    <2>. QED
      BY <2>1, <2>2, <2>3, <2>4 DEF Inv
  <1>6. CASE PublishAvailRing
    <2>1. TypeOK' /\ RingType' /\ TransferOnDisk'
      BY <1>6, Names, RingOperations, RingFields DEF PublishAvailRing, TypeOK, RingType,
             TransferOnDisk, Resources
    <2>2. Mappings'
      BY <1>6 DEF PublishAvailRing, Mappings, InChain, Chain, DataAddr, HasData, Addr
    <2>3. Holdings'
      BY <1>6 DEF PublishAvailRing, Holdings, RequestSteps
    <2>4. Device'
      BY <1>6 DEF PublishAvailRing, Device, Live, RequestSteps
    <2>. QED
      BY <2>1, <2>2, <2>3, <2>4 DEF Inv
  <1>7. CASE PublishAvailIdx
    <2>1. TypeOK' /\ RingType' /\ TransferOnDisk'
      BY <1>7, Names, RingOperations, RingFields DEF PublishAvailIdx, TypeOK, RingType,
             TransferOnDisk, Resources
    <2>2. Mappings'
      BY <1>7 DEF PublishAvailIdx, Mappings, InChain, Chain, DataAddr, HasData, Addr
    <2>3. Holdings'
      BY <1>7 DEF PublishAvailIdx, Holdings, RequestSteps
    <2>4. Device'
      BY <1>7 DEF PublishAvailIdx, Device, Live, RequestSteps
    <2>. QED
      BY <2>1, <2>2, <2>3, <2>4 DEF Inv
  <1>8. CASE SetQueueNotify
    <2>1. TypeOK' /\ RingType' /\ TransferOnDisk'
      BY <1>8, Names, ZenonT(60) DEF SetQueueNotify, TypeOK, RingType, TransferOnDisk, Resources
    <2>2. Mappings'
      BY <1>8 DEF SetQueueNotify, Mappings, InChain, Chain, DataAddr, HasData, Addr
    <2>3. Holdings'
      BY <1>8 DEF SetQueueNotify, Holdings, RequestSteps
    <2>4. Device'
      BY <1>8 DEF SetQueueNotify, Device, Live, RequestSteps
    <2>. QED
      BY <2>1, <2>2, <2>3, <2>4 DEF Inv
  <1>9. CASE PollUsedIdx
    <2>1. TypeOK' /\ RingType' /\ TransferOnDisk'
      BY <1>9, Names DEF PollUsedIdx, TypeOK, RingType, TransferOnDisk, Resources
    <2>2. Mappings'
      BY <1>9 DEF PollUsedIdx, Mappings, InChain, Chain, DataAddr, HasData, Addr
    <2>3. Holdings'
      BY <1>9 DEF PollUsedIdx, Holdings, RequestSteps
    <2>4. Device'
      BY <1>9 DEF PollUsedIdx, Device, Live, RequestSteps
    <2>. QED
      BY <2>1, <2>2, <2>3, <2>4 DEF Inv
  <1>10. CASE UnmapStatus
    <2>1. TypeOK' /\ RingType' /\ TransferOnDisk'
      BY <1>10, Names DEF UnmapStatus, TypeOK, RingType, TransferOnDisk, Resources
    <2>2. Mappings'
      BY <1>10 DEF UnmapStatus, Mappings, InChain, Chain, DataAddr, HasData, Addr, RingAddr
    <2>3. Holdings'
      BY <1>10 DEF UnmapStatus, Holdings, RequestSteps
    <2>4. Device'
      BY <1>10 DEF UnmapStatus, Device, Live, RequestSteps
    <2>. QED
      BY <2>1, <2>2, <2>3, <2>4 DEF Inv
  <1>11. CASE UnmapData
    <2>1. TypeOK' /\ RingType' /\ TransferOnDisk'
      BY <1>11, Names DEF UnmapData, TypeOK, RingType, TransferOnDisk, Resources
    <2>2. Mappings'
      BY <1>11 DEF UnmapData, Mappings, InChain, DataAddr, HasData, Addr, RingAddr
    <2>3. Holdings'
      BY <1>11 DEF UnmapData, Holdings, RequestSteps
    <2>4. Device'
      BY <1>11 DEF UnmapData, Device, Live, RequestSteps
    <2>. QED
      BY <2>1, <2>2, <2>3, <2>4 DEF Inv
  <1>12. CASE UnmapHeader
    <2>1. TypeOK' /\ RingType' /\ TransferOnDisk'
      BY <1>12, Names DEF UnmapHeader, TypeOK, RingType, TransferOnDisk, Resources
    <2>2. Mappings'
      BY <1>12 DEF UnmapHeader, Mappings, InChain, Addr, RingAddr
    <2>3. Holdings'
      BY <1>12 DEF UnmapHeader, Holdings, RequestSteps
    <2>4. Device'
      BY <1>12 DEF UnmapHeader, Device, Live, RequestSteps
    <2>. QED
      BY <2>1, <2>2, <2>3, <2>4 DEF Inv
  <1>13. CASE FreeHostStatus
    <2>1. TypeOK' /\ RingType' /\ TransferOnDisk'
      BY <1>13, Names, ValueTypes DEF FreeHostStatus, TypeOK, RingType, TransferOnDisk,
             Resources
    <2>2. Mappings'
      BY <1>13 DEF FreeHostStatus, Mappings, InChain
    <2>3. Holdings'
      BY <1>13 DEF FreeHostStatus, Holdings, RequestSteps, Resources, StatusPage
    <2>4. Device'
      BY <1>13 DEF FreeHostStatus, Device, Live, RequestSteps
    <2>. QED
      BY <2>1, <2>2, <2>3, <2>4 DEF Inv
  <1>. QED
    BY <1>1, <1>2, <1>3, <1>4, <1>5, <1>6, <1>7, <1>8, <1>9, <1>10, <1>11, <1>12, <1>13 DEF SynchronousRequest

\* The host takes the chain at descriptor 0, and finds addresses in it.
LEMMA HostChainType ==
    ASSUME NEW r \in Rings, NEW i \in Indices
    PROVE  /\ r.AvailRing[i % QueueSize] = 0
           /\ HostChain(r, 0) \subseteq Addrs \cup {NoAddr}
  <1>1. r.AvailRing[i % QueueSize] = 0
    BY Slots DEF Rings, Indices
  <1>2. \A k \in QueueIdx : r.Desc[k].addr \in Addrs \cup {NoAddr} /\ r.Desc[k].next \in QueueIdx
    BY DEF Rings, Descriptors
  <1>3. \A k \in QueueIdx : r.Desc[k].more \in BOOLEAN
    BY DEF Rings, Descriptors
  <1>. QED
    BY <1>1, <1>2, <1>3, Slots DEF HostChain

\* Stop() and ExitBootServices() take the protocol away; the latter resets the device
\* before the OS owns its memory.
LEMMA StopInv ==
    ASSUME Inv, VirtioBlkDriverBindingStop \/ ExitBootServices
    PROVE  Inv'
  <1>. USE DEF Inv, device
  <1>1. CASE VirtioBlkDriverBindingStop
    <2>1. TypeOK' /\ RingType' /\ TransferOnDisk'
      BY <1>1, Names DEF VirtioBlkDriverBindingStop, TypeOK, RingType, TransferOnDisk,
             Resources, Release
    <2>2. Mappings'
      BY <1>1 DEF VirtioBlkDriverBindingStop, Mappings, InChain, Release
    <2>3. Holdings'
      BY <1>1 DEF VirtioBlkDriverBindingStop, Holdings, RequestSteps, Release, Resources
    <2>4. Device'
      BY <1>1 DEF VirtioBlkDriverBindingStop, Device, Live, RequestSteps, Release
    <2>. QED
      BY <2>1, <2>2, <2>3, <2>4 DEF Inv
  <1>2. CASE ExitBootServices
    <2>1. TypeOK' /\ RingType' /\ TransferOnDisk'
      BY <1>2, Names, ValueTypes, ZenonT(60) DEF ExitBootServices, TypeOK, RingType, TransferOnDisk,
             Resources, ResetDevice
    <2>2. Mappings'
      BY <1>2 DEF ExitBootServices, Mappings, InChain
    <2>3. Holdings'
      BY <1>2 DEF ExitBootServices, Holdings, RequestSteps
    <2>4. Device'
      BY <1>2, ValueTypes DEF ExitBootServices, Device, Live, RequestSteps, ResetDevice,
             Holdings, Resources
    <2>. QED
      BY <2>1, <2>2, <2>3, <2>4 DEF Inv
  <1>. QED
    BY <1>1, <1>2

\* A request that passes the checks lies on the disk.
LEMMA CallInv == ASSUME Inv, Call PROVE Inv'
  <1>. USE DEF Inv
  <1>1. ASSUME NEW req \in Requests, BeginRequest(req),
               req.op \in {"read", "write"} => req.lba + req.blocks - 1 <= LastBlock
        PROVE  Inv'
    <2>1. TypeOK' /\ RingType' /\ TransferOnDisk'
      BY <1>1, Names DEF BeginRequest, TypeOK, RingType, TransferOnDisk
    <2>2. Mappings'
      BY <1>1 DEF BeginRequest, Mappings, InChain
    <2>3. Holdings'
      BY <1>1 DEF BeginRequest, Holdings, RequestSteps
    <2>4. Device'
      BY <1>1 DEF BeginRequest, Device, Live, RequestSteps
    <2>. QED
      BY <2>1, <2>2, <2>3, <2>4 DEF Inv
  <1>2. ASSUME NEW lba \in 0 .. LbaMod - 1, NEW blocks \in 1 .. LbaMod - 1,
               VirtioBlkReadBlocks(lba, blocks) \/ VirtioBlkWriteBlocks(lba, blocks)
        PROVE  Inv'
    <2>1. \A op \in {"read", "write"} :
              [op |-> op, lba |-> lba, blocks |-> blocks] \in Requests
      BY MediaAssumption DEF Requests
    <2>. QED
      BY <1>1, <1>2, <2>1, Verified DEF VirtioBlkReadBlocks, VirtioBlkWriteBlocks
  <1>3. CASE VirtioBlkFlushBlocks
    <2>1. [op |-> "flush", lba |-> 0, blocks |-> 0] \in Requests
      BY MediaAssumption DEF Requests
    <2>. QED
      BY <1>1, <1>3, <2>1 DEF VirtioBlkFlushBlocks
  <1>. QED
    BY <1>2, <1>3 DEF Call

\* The host works only on a live device, and changes nothing of the driver's.
LEMMA HostInv == ASSUME Inv, HostFetch \/ HostWork PROVE Inv'
  <1>. USE DEF Inv, driver
  <1>1. CASE HostFetch
    <2>1. host' \in [st : {"idle", "fetched", "executed"}, chain : SUBSET (Addrs \cup {NoAddr})]
      BY <1>1, HostChainType DEF HostFetch, TypeOK, RingType, Indices
    <2>2. hostIdx' \in 0 .. IdxMod - 1 /\ kicked' \in BOOLEAN
      BY <1>1, Wrap DEF HostFetch, TypeOK, Indices
    <2>3. TypeOK' /\ RingType' /\ TransferOnDisk'
      BY <1>1, <2>1, <2>2 DEF HostFetch, TypeOK, RingType, TransferOnDisk
    <2>. QED
      BY <1>1, <2>3 DEF HostFetch, Mappings, Holdings, Device, HasData, Addr, DataAddr, Chain
  <1>2. ASSUME NEW outcome \in {"OK", "IOERR"}, HostExecute(outcome)
        PROVE  Inv'
    <2>1. host' \in [st : {"idle", "fetched", "executed"}, chain : SUBSET (Addrs \cup {NoAddr})]
      BY <1>2 DEF HostExecute, TypeOK
    <2>2. executions' \in 0 .. 2
      BY <1>2 DEF HostExecute, TypeOK
    <2>3. TypeOK' /\ RingType' /\ TransferOnDisk'
      BY <1>2, <2>1, <2>2 DEF HostExecute, TypeOK, RingType, TransferOnDisk
    <2>. QED
      BY <1>2, <2>3
         DEF HostExecute, Mappings, Holdings, Device, HasData, Addr, DataAddr, Chain, IdleHost
  <1>3. CASE HostComplete
    <2>1. ring' \in Rings
      BY <1>3, RingOperations DEF HostComplete, RingType
    <2>2. TypeOK' /\ RingType' /\ TransferOnDisk'
      BY <1>3, <2>1, RingFields, ValueTypes DEF HostComplete, TypeOK, RingType, TransferOnDisk
    <2>. QED
      BY <1>3, <2>2 DEF HostComplete, Mappings, Holdings, Device, HasData, Addr, DataAddr, Chain
  <1>. QED
    BY <1>1, <1>2, <1>3 DEF HostWork

\* Every step of the driver and of the host keeps it.
LEMMA InvStep == ASSUME Inv, [Next]_vars PROVE Inv'
  <1>1. CASE UNCHANGED vars
    BY <1>1
       DEF Inv, vars, driver, device, TypeOK, RingType, Mappings, Holdings, Device,
           TransferOnDisk, HasData, Addr, DataAddr, Chain
  <1>. QED
    BY <1>1, StartInv, UnwindInv, StopInv, CallInv, RequestInv, HostInv DEF Next

\* The invariant of the driver, whatever fails.
THEOREM Invariant == Spec => []Inv
  BY InvInit, InvStep, PTL DEF Spec

-----------------------------------------------------------------------------
(* What the invariant says.                                                *)

\* Types.
THEOREM TypeCorrect == Spec => []TypeOK
  BY Invariant, PTL DEF Inv

\* VirtioBlkInit()'s and VirtioBlkUninit()'s order: the device is reset before its ring
\* goes away, on every path of Start(), Stop() and ExitBootServices().
THEOREM RingOutlivesDeviceTheorem == Spec => []RingOutlivesDevice
  <1>1. Inv => RingOutlivesDevice
    BY DEF Inv, RingOutlivesDevice, Device, Mappings, Live, RequestSteps, InChain
  <1>. QED
    BY <1>1, Invariant, PTL

\* The labels of Start() and SynchronousRequest() release all that was acquired.
THEOREM NothingLeakedTheorem == Spec => []NothingLeaked
  <1>1. Inv => NothingLeaked
    BY DEF Inv, NothingLeaked, Mappings, Holdings
  <1>. QED
    BY <1>1, Invariant, PTL

\* VerifyReadWriteRequest() keeps every transfer on the disk, for every width of the
\* block numbers.
THEOREM TransferOnDiskTheorem == Spec => []TransferOnDisk
  BY Invariant, PTL DEF Inv

-----------------------------------------------------------------------------
(* The lock-step.                                                          *)

\* Start() hands the device a ring on which neither side has done anything.
LEMMA StartLockStep ==
    ASSUME LInv, Start
    PROVE  InLockStep' /\ Reports'
  <1>. USE DEF LInv, device, Acquire, RequestSteps, Live, Published, Unpublished, Returning
  <1>1. CASE VirtioBlkDriverBindingStart
    <2>1. InLockStep'
      BY <1>1 DEF VirtioBlkDriverBindingStart, InLockStep
    <2>2. Reports'
      BY <1>1 DEF VirtioBlkDriverBindingStart, Reports
    <2>. QED
      BY <2>1, <2>2
  <1>2. CASE OpenVirtIo
    <2>1. InLockStep'
      BY <1>2 DEF OpenVirtIo, InLockStep
    <2>2. Reports'
      BY <1>2 DEF OpenVirtIo, Reports
    <2>. QED
      BY <2>1, <2>2
  <1>3. CASE VirtioBlkInitReset
    <2>1. InLockStep'
      BY <1>3 DEF VirtioBlkInitReset, InLockStep
    <2>2. Reports'
      BY <1>3 DEF VirtioBlkInitReset, Reports
    <2>. QED
      BY <2>1, <2>2
  <1>4. CASE VirtioBlkInitRing
    <2>1. InLockStep'
      BY <1>4 DEF VirtioBlkInitRing, InLockStep
    <2>2. Reports'
      BY <1>4 DEF VirtioBlkInitRing, Reports
    <2>. QED
      BY <2>1, <2>2
  <1>5. CASE VirtioRingMap
    <2>1. InLockStep'
      BY <1>5 DEF VirtioRingMap, InLockStep
    <2>2. Reports'
      BY <1>5 DEF VirtioRingMap, Reports
    <2>. QED
      BY <2>1, <2>2
  <1>6. CASE VirtioBlkInitQueue
    <2>1. InLockStep'
      BY <1>6 DEF VirtioBlkInitQueue, InLockStep
    <2>2. Reports'
      BY <1>6 DEF VirtioBlkInitQueue, Reports
    <2>. QED
      BY <2>1, <2>2
  <1>7. CASE VirtioBlkInitDriverOk
    <2>1. InLockStep'
      BY <1>7 DEF VirtioBlkInitDriverOk, InLockStep, Quiet, VirtioRingInit, Inv, Device
    <2>2. Reports'
      BY <1>7 DEF VirtioBlkInitDriverOk, Reports
    <2>. QED
      BY <2>1, <2>2
  <1>8. CASE CreateExitBootEvent
    <2>1. InLockStep'
      BY <1>8 DEF CreateExitBootEvent, InLockStep, Quiet
    <2>2. Reports'
      BY <1>8 DEF CreateExitBootEvent, Reports
    <2>. QED
      BY <2>1, <2>2
  <1>9. CASE InstallBlockIo
    <2>1. InLockStep'
      BY <1>9 DEF InstallBlockIo, InLockStep, Quiet
    <2>2. Reports'
      BY <1>9 DEF InstallBlockIo, Reports
    <2>. QED
      BY <2>1, <2>2
  <1>. QED
    BY <1>1, <1>2, <1>3, <1>4, <1>5, <1>6, <1>7, <1>8, <1>9 DEF Start

\* The error paths end it in good order.
LEMMA UnwindLockStep ==
    ASSUME LInv, Unwind
    PROVE  InLockStep' /\ Reports'
  <1>. USE DEF LInv, device, Release, RequestSteps, Live, Published, Unpublished, Returning
  <1>1. CASE CloseExitBoot
    <2>1. InLockStep'
      BY <1>1 DEF CloseExitBoot, InLockStep, Quiet
    <2>2. Reports'
      BY <1>1 DEF CloseExitBoot, Reports
    <2>. QED
      BY <2>1, <2>2
  <1>2. CASE VirtioBlkUninit
    <2>1. InLockStep'
      BY <1>2 DEF VirtioBlkUninit, InLockStep, Quiet
    <2>2. Reports'
      BY <1>2 DEF VirtioBlkUninit, Reports
    <2>. QED
      BY <2>1, <2>2
  <1>3. CASE UnmapRing
    <2>1. InLockStep'
      BY <1>3 DEF UnmapRing, InLockStep
    <2>2. Reports'
      BY <1>3 DEF UnmapRing, Reports
    <2>. QED
      BY <2>1, <2>2
  <1>4. CASE VirtioRingUninit
    <2>1. InLockStep'
      BY <1>4 DEF VirtioRingUninit, InLockStep
    <2>2. Reports'
      BY <1>4 DEF VirtioRingUninit, Reports
    <2>. QED
      BY <2>1, <2>2
  <1>5. CASE InitFailed
    <2>1. InLockStep'
      BY <1>5 DEF InitFailed, InLockStep
    <2>2. Reports'
      BY <1>5 DEF InitFailed, Reports
    <2>. QED
      BY <2>1, <2>2
  <1>6. CASE CloseVirtIo
    <2>1. InLockStep'
      BY <1>6 DEF CloseVirtIo, InLockStep
    <2>2. Reports'
      BY <1>6 DEF CloseVirtIo, Reports
    <2>. QED
      BY <2>1, <2>2
  <1>7. CASE FreeVirtioBlk
    <2>1. InLockStep'
      BY <1>7 DEF FreeVirtioBlk, InLockStep
    <2>2. Reports'
      BY <1>7 DEF FreeVirtioBlk, Reports
    <2>. QED
      BY <2>1, <2>2
  <1>. QED
    BY <1>1, <1>2, <1>3, <1>4, <1>5, <1>6, <1>7 DEF Unwind

\* VirtioAppendDesc() writes one descriptor, linked to the one after it.
LEMMA Appended ==
    ASSUME NEW r \in Rings, NEW a \in Addrs, NEW more \in BOOLEAN
    PROVE  /\ VirtioAppendDesc(r, 0, a, more)
                = [r EXCEPT !.Desc[0] = [addr |-> a, more |-> more, next |-> 1]]
           /\ VirtioAppendDesc(r, 1, a, more)
                = [r EXCEPT !.Desc[1] = [addr |-> a, more |-> more, next |-> 2]]
           /\ VirtioAppendDesc(r, 2, a, more)
                = [r EXCEPT !.Desc[2] = [addr |-> a, more |-> more, next |-> 3 % QueueSize]]
  BY Slots DEF VirtioAppendDesc

\* VirtioPrepare() and VirtioAppendDesc() write the chain into descriptors 0 to 2 and
\* touch neither index.
LEMMA ChainBuilt ==
    ASSUME Inv, BuildChain
    PROVE  /\ Built'
           /\ ring'.AvailIdx = ring.AvailIdx /\ ring'.UsedIdx = ring.UsedIdx
  <1>1. ring \in Rings /\ Addr("header") \in Addrs /\ Addr("data") \in Addrs /\ Addr("status") \in Addrs
    BY ValueTypes DEF Inv, RingType, TypeOK, Addr
  <1>2. HasData' = HasData /\ \A k : Addr(k)' = Addr(k)
    BY DEF BuildChain, HasData, Addr
  <1>. DEFINE r1 == VirtioAppendDesc(ring, 0, Addr("header"), TRUE)
              r2 == VirtioAppendDesc(r1, 1, Addr("data"), TRUE)
  <1>3. r1 \in Rings /\ r2 \in Rings
    BY <1>1, RingOperations
  <1>4. r1 = [ring EXCEPT !.Desc[0] = [addr |-> Addr("header"), more |-> TRUE, next |-> 1]]
    BY <1>1, Appended
  <1>5. /\ r1.Desc[0] = [addr |-> Addr("header"), more |-> TRUE, next |-> 1]
        /\ r1.AvailIdx = ring.AvailIdx /\ r1.UsedIdx = ring.UsedIdx
    BY <1>1, <1>4, Slots DEF Rings
  <1>6. CASE HasData
    <2>1. ring' = VirtioAppendDesc(r2, 2, Addr("status"), FALSE)
      BY <1>6 DEF BuildChain
    <2>. HIDE DEF r1
    <2>2. r2 = [r1 EXCEPT !.Desc[1] = [addr |-> Addr("data"), more |-> TRUE, next |-> 2]]
      BY <1>1, <1>3, Appended, ZenonT(60)
    <2>. HIDE DEF r2
    <2>3. /\ r2.Desc[1] = [addr |-> Addr("data"), more |-> TRUE, next |-> 2]
          /\ r2.Desc[0] = r1.Desc[0]
          /\ r2.AvailIdx = ring.AvailIdx /\ r2.UsedIdx = ring.UsedIdx
      BY <1>3, <1>5, <2>2, Slots DEF Rings
    <2>4. ring' = [r2 EXCEPT !.Desc[2] = [addr |-> Addr("status"), more |-> FALSE,
                                          next |-> 3 % QueueSize]]
      BY <1>1, <1>3, <2>1, Appended, ZenonT(60)
    <2>5. /\ ring'.Desc[2].addr = Addr("status") /\ ~ring'.Desc[2].more
          /\ ring'.Desc[0] = r2.Desc[0] /\ ring'.Desc[1] = r2.Desc[1]
          /\ ring'.AvailIdx = ring.AvailIdx /\ ring'.UsedIdx = ring.UsedIdx
      BY <1>3, <2>3, <2>4, Slots DEF Rings
    <2>. QED
      BY <1>2, <1>5, <1>6, <2>3, <2>5 DEF Built
  <1>7. CASE ~HasData
    <2>1. ring' = VirtioAppendDesc(r1, 1, Addr("status"), FALSE)
      BY <1>7 DEF BuildChain
    <2>. HIDE DEF r1
    <2>2. ring' = [r1 EXCEPT !.Desc[1] = [addr |-> Addr("status"), more |-> FALSE, next |-> 2]]
      BY <1>1, <1>3, <2>1, Appended, ZenonT(60)
    <2>3. /\ ring'.Desc[1].addr = Addr("status") /\ ~ring'.Desc[1].more
          /\ ring'.Desc[0] = r1.Desc[0]
          /\ ring'.AvailIdx = ring.AvailIdx /\ ring'.UsedIdx = ring.UsedIdx
      BY <1>3, <1>5, <2>2, Slots DEF Rings
    <2>. QED
      BY <1>2, <1>5, <1>7, <2>3 DEF Built
  <1>. QED
    BY <1>6, <1>7

\* VirtioFlush() offers the chain: Avail.Ring[] first, Avail.Idx afterwards.
LEMMA AvailRingPublished ==
    ASSUME Inv, PublishAvailRing
    PROVE  /\ Built => Built'
           /\ ring'.AvailIdx = ring.AvailIdx /\ ring'.UsedIdx = ring.UsedIdx
  BY DEF Inv, RingType, Rings, PublishAvailRing, VirtioFlushAvailRing, Built, Addr, HasData

\* The store of Avail.Idx advances it by one, and changes nothing of the chain.
LEMMA AvailIdxPublished ==
    ASSUME Inv, PublishAvailIdx
    PROVE  /\ Built => Built'
           /\ ring'.AvailIdx = (ring.AvailIdx + 1) % IdxMod /\ ring'.UsedIdx = ring.UsedIdx
  BY DEF Inv, RingType, Rings, PublishAvailIdx, VirtioFlushAvailIdx, Built, Addr, HasData

\* The polling loop ends only when the host is through with the chain.
LEMMA Polled ==
    ASSUME LInv, PollUsedIdx
    PROVE  Quiet /\ executions = 1
  BY Wrap DEF LInv, Inv, RingType, Rings, InLockStep, InFlight, Quiet, Published, PollUsedIdx,
              VirtioFlushDone

\* SynchronousRequest() keeps to one chain, and reports what the host has done of it.
LEMMA RequestLockStep ==
    ASSUME LInv, SynchronousRequest, NotifyMayFail = FALSE
    PROVE  InLockStep' /\ Reports'
  <1>. USE DEF LInv, device, MapBuffer, RequestSteps, Live, Published, Unpublished,
          Returning
  <1>1. CASE AllocateHostStatus
    <2>1. InLockStep'
      BY <1>1 DEF AllocateHostStatus, InLockStep, Quiet
    <2>2. Reports'
      BY <1>1 DEF AllocateHostStatus, Reports
    <2>. QED
      BY <2>1, <2>2
  <1>2. CASE MapHeader
    <2>1. InLockStep'
      BY <1>2 DEF MapHeader, InLockStep, Quiet
    <2>2. Reports'
      BY <1>2 DEF MapHeader, Reports
    <2>. QED
      BY <2>1, <2>2
  <1>3. CASE MapData
    <2>1. InLockStep'
      BY <1>3 DEF MapData, InLockStep, Quiet
    <2>2. Reports'
      BY <1>3 DEF MapData, Reports
    <2>. QED
      BY <2>1, <2>2
  <1>4. CASE MapStatus
    <2>1. InLockStep'
      BY <1>4 DEF MapStatus, InLockStep, Quiet
    <2>2. Reports'
      BY <1>4 DEF MapStatus, Reports
    <2>. QED
      BY <2>1, <2>2
  <1>5. CASE BuildChain
    <2>1. InLockStep'
      BY <1>5, ChainBuilt DEF BuildChain, InLockStep, Quiet
    <2>2. Reports'
      BY <1>5 DEF BuildChain, Reports
    <2>. QED
      BY <2>1, <2>2
  <1>6. CASE PublishAvailRing
    <2>1. InLockStep'
      BY <1>6, AvailRingPublished DEF PublishAvailRing, InLockStep, Quiet
    <2>2. Reports'
      BY <1>6 DEF PublishAvailRing, Reports
    <2>. QED
      BY <2>1, <2>2
  <1>7. CASE PublishAvailIdx
    <2>1. InLockStep'
      BY <1>7, AvailIdxPublished DEF PublishAvailIdx, InLockStep, Reports, Quiet, InFlight
    <2>2. Reports'
      BY <1>7 DEF PublishAvailIdx, Reports
    <2>. QED
      BY <2>1, <2>2
  <1>8. CASE SetQueueNotify
    <2>1. InLockStep'
      BY <1>8 DEF SetQueueNotify, InLockStep, Quiet, Built, Addr, HasData, InFlight, Chain,
             DataAddr
    <2>2. Reports'
      BY <1>8 DEF SetQueueNotify, Reports
    <2>. QED
      BY <2>1, <2>2
  <1>9. CASE PollUsedIdx
    <2>1. InLockStep'
      BY <1>9, Polled DEF PollUsedIdx, InLockStep, Quiet
    <2>2. Reports'
      BY <1>9, Polled DEF PollUsedIdx, Reports
    <2>. QED
      BY <2>1, <2>2
  <1>10. CASE UnmapStatus
    <2>1. InLockStep'
      BY <1>10 DEF UnmapStatus, InLockStep, Quiet
    <2>2. Reports'
      BY <1>10 DEF UnmapStatus, Reports
    <2>. QED
      BY <2>1, <2>2
  <1>11. CASE UnmapData
    <2>1. InLockStep'
      BY <1>11 DEF UnmapData, InLockStep, Quiet
    <2>2. Reports'
      BY <1>11 DEF UnmapData, Reports
    <2>. QED
      BY <2>1, <2>2
  <1>12. CASE UnmapHeader
    <2>1. InLockStep'
      BY <1>12 DEF UnmapHeader, InLockStep, Quiet
    <2>2. Reports'
      BY <1>12 DEF UnmapHeader, Reports
    <2>. QED
      BY <2>1, <2>2
  <1>13. CASE FreeHostStatus
    <2>1. InLockStep'
      BY <1>13 DEF FreeHostStatus, InLockStep, Quiet
    <2>2. Reports'
      BY <1>13 DEF FreeHostStatus, Reports
    <2>. QED
      BY <2>1, <2>2
  <1>. QED
    BY <1>1, <1>2, <1>3, <1>4, <1>5, <1>6, <1>7, <1>8, <1>9, <1>10, <1>11, <1>12, <1>13 DEF SynchronousRequest

\* Stop() and ExitBootServices() come between requests.
LEMMA StopLockStep ==
    ASSUME LInv, VirtioBlkDriverBindingStop \/ ExitBootServices
    PROVE  InLockStep' /\ Reports'
  <1>. USE DEF LInv, device, RequestSteps, Live, Published, Unpublished, Returning
  <1>1. CASE VirtioBlkDriverBindingStop
    BY <1>1 DEF VirtioBlkDriverBindingStop, Release, InLockStep, Reports, Quiet
  <1>2. CASE ExitBootServices
    BY <1>2 DEF ExitBootServices, InLockStep, Reports
  <1>. QED
    BY <1>1, <1>2

\* A request begins when the host is through with the one before it.
LEMMA CallLockStep ==
    ASSUME LInv, Call
    PROVE  InLockStep' /\ Reports'
  <1>1. ASSUME NEW req, BeginRequest(req)
        PROVE  InLockStep' /\ Reports'
    BY <1>1
       DEF LInv, BeginRequest, InLockStep, Reports, Quiet, RequestSteps, Live, Published,
           Unpublished, Returning
  <1>. QED
    BY <1>1 DEF Call, VirtioBlkReadBlocks, VirtioBlkWriteBlocks, VirtioBlkFlushBlocks

\* The chain at descriptor 0 is the request's.
LEMMA ChainFetched == ASSUME Inv, Built PROVE HostChain(ring, 0) = Chain
  <1>1. CASE HasData
    BY <1>1 DEF Built, HostChain, Chain, DataAddr
  <1>2. CASE ~HasData
    BY <1>2 DEF Built, HostChain, Chain, DataAddr
  <1>. QED
    BY <1>1, <1>2

\* The host takes the one chain, carries it out once and completes it.
LEMMA HostLockStep ==
    ASSUME LInv, HostFetch \/ HostWork
    PROVE  InLockStep' /\ Reports'
  <1>1. /\ ring \in Rings /\ ring.AvailIdx \in Indices /\ ring.UsedIdx \in Indices
        /\ hostIdx \in Indices
    BY DEF LInv, Inv, TypeOK, RingType, Rings, Indices
  <1>2. CASE HostFetch
    <2>1. UNCHANGED <<pc, ring, executions, Status, Addr("header"), Addr("data"), Addr("status"),
                      HasData>>
      BY <1>2 DEF HostFetch, driver, Addr, HasData
    <2>2. Chain' = Chain /\ Built' = Built
      BY <2>1 DEF Chain, DataAddr, Built
    <2>3. CASE hostIdx # ring.AvailIdx
      <3>1. pc \in Published /\ InFlight /\ Built
        BY <1>2, <2>3 DEF LInv, Inv, Device, InLockStep, Quiet, HostFetch
      <3>2. ring.AvailIdx = (hostIdx + 1) % IdxMod /\ hostIdx = ring.UsedIdx /\ executions = 0
        BY <2>3, <3>1 DEF InFlight, Quiet
      <3>3. host'.chain = Chain /\ host'.st = "fetched" /\ hostIdx' = (hostIdx + 1) % IdxMod
        BY <1>1, <1>2, <2>3, <3>1, HostChainType, ChainFetched DEF HostFetch, LInv
      <3>4. InFlight'
        BY <2>1, <2>2, <3>2, <3>3 DEF InFlight
      <3>. QED
        BY <2>1, <2>2, <3>1, <3>4
           DEF LInv, InLockStep, Reports, Published, Live, Unpublished, Returning, RequestSteps
    <2>4. CASE hostIdx = ring.AvailIdx
      <3>1. UNCHANGED <<host, hostIdx>>
        BY <1>2, <2>4 DEF HostFetch
      <3>2. Quiet' = Quiet /\ InFlight' = InFlight
        BY <2>1, <2>2, <3>1 DEF Quiet, InFlight
      <3>. QED
        BY <2>1, <2>2, <3>1, <3>2 DEF LInv, InLockStep, Reports
    <2>. QED
      BY <2>3, <2>4
  <1>3. ASSUME NEW outcome, HostExecute(outcome)
        PROVE  InLockStep' /\ Reports'
    <2>1. UNCHANGED <<pc, ring, hostIdx, Status, Addr("header"), Addr("data"), Addr("status"),
                      HasData>>
      BY <1>3 DEF HostExecute, driver, Addr, HasData
    <2>2. Chain' = Chain /\ Built' = Built
      BY <2>1 DEF Chain, DataAddr, Built
    <2>3. pc \in Published /\ InFlight
      BY <1>3 DEF HostExecute, LInv, Inv, Device, InLockStep, Quiet, IdleHost
    <2>4. host'.chain = Chain /\ host'.st = "executed" /\ executions' = 1
      BY <1>3, <2>3 DEF HostExecute, InFlight, Quiet, IdleHost, LInv, Inv, TypeOK
    <2>5. InFlight'
      BY <1>3, <2>1, <2>2, <2>3, <2>4 DEF InFlight, Quiet, HostExecute, IdleHost
    <2>. QED
      BY <2>1, <2>2, <2>3, <2>5
         DEF LInv, InLockStep, Reports, Published, Live, Unpublished, Returning, RequestSteps
  <1>4. CASE HostComplete
    <2>1. UNCHANGED <<pc, executions, hostIdx, Status, Addr("header"), Addr("data"),
                      Addr("status"), HasData>>
      BY <1>4 DEF HostComplete, driver, Addr, HasData
    <2>2. /\ ring'.Desc = ring.Desc /\ ring'.AvailIdx = ring.AvailIdx
          /\ ring'.UsedIdx = (ring.UsedIdx + 1) % IdxMod
      BY <1>1, <1>4 DEF HostComplete, HostPushUsed, Rings
    <2>3. Built' = Built
      BY <2>1, <2>2 DEF Built
    <2>4. pc \in Published /\ InFlight
      BY <1>4 DEF HostComplete, LInv, Inv, Device, InLockStep, Quiet, IdleHost
    <2>5. Quiet' /\ executions' = 1
      BY <1>4, <2>1, <2>2, <2>4 DEF HostComplete, InFlight, Quiet, IdleHost
    <2>6. InFlight'
      BY <2>5 DEF InFlight
    <2>. QED
      BY <2>1, <2>3, <2>4, <2>6
         DEF LInv, InLockStep, Reports, Published, Live, Unpublished, Returning, RequestSteps
  <1>. QED
    BY <1>2, <1>3, <1>4 DEF HostWork
\* Every step keeps the driver and the host in lock-step, if notifications get through.
LEMMA LockStepStep ==
    ASSUME LInv, [Next]_vars, NotifyMayFail = FALSE
    PROVE  LInv'
  <1>1. Inv'
    BY InvStep DEF LInv
  <1>2. CASE UNCHANGED vars
    BY <1>1, <1>2
       DEF LInv, InLockStep, Reports, Quiet, InFlight, Built, Chain, DataAddr, Addr, HasData,
           vars, driver, device
  <1>. QED
    BY <1>1, <1>2, StartLockStep, UnwindLockStep, StopLockStep, CallLockStep, RequestLockStep,
       HostLockStep DEF Next, LInv

\* Initially no chain is published.
LEMMA LockStepInit == ASSUME Init PROVE LInv
  BY InvInit
     DEF Init, LInv, InLockStep, Reports, RequestSteps, Live, Published, Unpublished, Returning

\* If no notification fails, SynchronousRequest() and the host keep in step: while a chain
\* is published the driver waits for it, and its result is what the host made of it.
THEOREM LockStepInvariant == ASSUME NotifyMayFail = FALSE PROVE Spec => []LInv
  BY LockStepInit, LockStepStep, PTL DEF Spec

\* When VirtioPrepare() starts a chain, the host is through with all before it.
THEOREM LockStepTheorem == ASSUME NotifyMayFail = FALSE PROVE Spec => []LockStep
  <1>1. LInv => LockStep
    BY DEF LInv, InLockStep, Quiet, LockStep, VirtioFlushDone, IdleHost, Live, RequestSteps,
           Published
  <1>. QED
    BY <1>1, LockStepInvariant, PTL

\* SynchronousRequest() unmaps a buffer only when the host no longer uses it.
THEOREM HostInMappedMemoryTheorem ==
    ASSUME NotifyMayFail = FALSE PROVE Spec => []HostInMappedMemory
  <1>1. ASSUME LInv, host.st = "fetched" PROVE host.chain \subseteq mapped
    <2>1. pc \in Published /\ InFlight
      BY <1>1 DEF LInv, Inv, Device, InLockStep, Quiet, IdleHost
    <2>2. host.chain = Chain
      BY <1>1, <2>1 DEF InFlight, Quiet, IdleHost
    <2>. QED
      BY <1>1, <2>1, <2>2 DEF LInv, Inv, Mappings, Published, InChain
  <1>. QED
    BY <1>1, LockStepInvariant, PTL DEF HostInMappedMemory

-----------------------------------------------------------------------------
(* The driver implements the protocol.                                     *)

\* A step of the driver is the opening or closing of the protocol, a call, a return, or
\* nothing the caller sees.
DriverStep ==
    \/ pc \notin RequestSteps \cup {"ready"} /\ pc' \notin RequestSteps \cup {"ready"}
    \/ pc \notin RequestSteps \cup {"ready"} /\ pc' = "ready" /\ Status' = "none"
    \/ pc = "ready" /\ pc' \notin RequestSteps \cup {"ready"}
    \/ pc = "ready" /\ pc' \in RequestSteps /\ executions' = 0
    \/ pc \in RequestSteps /\ pc' \in RequestSteps /\ UNCHANGED executions
    \/ /\ pc \in RequestSteps /\ pc' = "ready" /\ executions \in {0, 1}
       /\ Status' \in {"EFI_SUCCESS", "EFI_DEVICE_ERROR"}
       /\ Status' = "EFI_SUCCESS" => executions = 1

HostStep ==
    \/ UNCHANGED <<pc, Status, executions>>
    \/ pc \in RequestSteps /\ pc' = pc /\ executions = 0 /\ executions' = 1

\* The steps of the code, classified.
LEMMA StepKinds == ASSUME LInv, Next PROVE DriverStep \/ HostStep
  <1>. USE DEF RequestSteps
  <1>1. CASE Start
    BY <1>1
       DEF LInv, Reports, DriverStep, Start, VirtioBlkDriverBindingStart, OpenVirtIo,
           VirtioBlkInitReset, VirtioBlkInitRing, VirtioRingMap, VirtioBlkInitQueue,
           VirtioBlkInitDriverOk, CreateExitBootEvent, InstallBlockIo, Acquire
  <1>2. CASE Unwind \/ VirtioBlkDriverBindingStop \/ ExitBootServices
    BY <1>2
       DEF DriverStep, HostStep, device, Unwind, CloseExitBoot, VirtioBlkUninit, UnmapRing,
           VirtioRingUninit, InitFailed, CloseVirtIo, FreeVirtioBlk, Release,
           VirtioBlkDriverBindingStop, ExitBootServices
  <1>3. CASE Call
    BY <1>3
       DEF DriverStep, Call, VirtioBlkReadBlocks, VirtioBlkWriteBlocks, VirtioBlkFlushBlocks,
           BeginRequest
  <1>4. CASE SynchronousRequest
    <2>1. CASE AllocateHostStatus \/ FreeHostStatus
      BY <2>1
         DEF LInv, Reports, Unpublished, Returning, DriverStep, AllocateHostStatus,
             FreeHostStatus, device
    <2>. QED
      BY <1>4, <2>1
         DEF SynchronousRequest, DriverStep, MapHeader, MapData, MapStatus, MapBuffer,
             BuildChain, PublishAvailRing, PublishAvailIdx, SetQueueNotify, PollUsedIdx,
             UnmapStatus, UnmapData, UnmapHeader, device
  <1>5. CASE HostFetch \/ HostComplete
    BY <1>5 DEF HostStep, HostFetch, HostComplete, driver
  <1>6. ASSUME NEW outcome, HostExecute(outcome)
        PROVE  HostStep
    <2>1. pc \in Published /\ InFlight
      BY <1>6 DEF HostExecute, LInv, Inv, Device, InLockStep, Quiet, IdleHost
    <2>2. executions = 0
      BY <1>6, <2>1 DEF HostExecute, InFlight, Quiet, IdleHost
    <2>. QED
      BY <1>6, <2>1, <2>2 DEF HostStep, HostExecute, driver, Published
  <1>. QED
    BY <1>1, <1>2, <1>3, <1>4, <1>5, <1>6 DEF Next, HostWork

\* Each step of the driver or of the host is a step of BlockIo, or changes nothing its
\* caller sees.
LEMMA ProtocolStep ==
    ASSUME LInv, [Next]_vars
    PROVE  [Protocol!Next]_(Protocol!vars)
  <1>1. /\ pc \notin RequestSteps \cup {"ready"} =>
              ProtocolCall = "closed" /\ ProtocolResult = "none"
        /\ pc = "ready" => ProtocolCall = "open" /\ ProtocolResult = Status
        /\ pc \in RequestSteps => /\ ProtocolResult = "none"
                                  /\ executions = 0 => ProtocolCall = "pending"
                                  /\ executions = 1 => ProtocolCall = "executed"
    BY DEF ProtocolCall, ProtocolResult, RequestSteps
  <1>2. /\ pc' \notin RequestSteps \cup {"ready"} =>
              ProtocolCall' = "closed" /\ ProtocolResult' = "none"
        /\ pc' = "ready" => ProtocolCall' = "open" /\ ProtocolResult' = Status'
        /\ pc' \in RequestSteps => /\ ProtocolResult' = "none"
                                   /\ executions' = 0 => ProtocolCall' = "pending"
                                   /\ executions' = 1 => ProtocolCall' = "executed"
    BY DEF ProtocolCall, ProtocolResult, RequestSteps
  <1>3. UNCHANGED <<pc, Status, executions>> => UNCHANGED <<ProtocolCall, ProtocolResult>>
    BY DEF ProtocolCall, ProtocolResult
  <1>4. pc \in RequestSteps /\ pc' \in RequestSteps /\ UNCHANGED executions =>
            UNCHANGED <<ProtocolCall, ProtocolResult>>
    BY DEF ProtocolCall, ProtocolResult, RequestSteps
  <1>5. CASE UNCHANGED vars
    BY <1>3, <1>5 DEF vars, driver, device, Protocol!vars
  <1>6. CASE HostStep
    BY <1>1, <1>2, <1>3, <1>6 DEF HostStep, Protocol!vars, Protocol!Next, Protocol!Execute
  <1>7. CASE DriverStep
    BY <1>1, <1>2, <1>4, <1>7
       DEF DriverStep, Protocol!vars, Protocol!Next, Protocol!Open, Protocol!Close,
           Protocol!Submit, Protocol!Return
  <1>. QED
    BY <1>5, <1>6, <1>7, StepKinds

\* The driver implements EFI_BLOCK_IO_PROTOCOL's promise: a request is carried out at
\* most once, between its call and its return, and EFI_SUCCESS means it was.
THEOREM Refinement == ASSUME NotifyMayFail = FALSE PROVE Spec => ImplementsBlockIo
  <1>1. Init => Protocol!Init
    BY DEF Init, Protocol!Init, ProtocolCall, ProtocolResult, RequestSteps
  <1>. QED
    BY <1>1, ProtocolStep, LockStepInvariant, PTL DEF Spec, ImplementsBlockIo, Protocol!Spec
=============================================================================
