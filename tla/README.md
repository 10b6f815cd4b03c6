# OvmfDarwinPkg: TLA+ models and proofs

OvmfDarwinPkg is a UEFI firmware for virtual machines: EDK II's OVMF with the
changes needed to boot macOS guests.  Most of it is straight-line set-up code or
vendored; the parts with real protocols are the drivers that share memory with
something that runs at the same time: another CPU, or a device emulated by the
hypervisor.  This directory models those parts.

## Inventory

| Component | State | Operations | What is hard | What makes it correct |
|---|---|---|---|---|
| CpuHotplugSmm, with the exit hook of SmmCpuFeaturesLib | `CPU_HOT_PLUG_DATA`, `CPU_HOT_EJECT_DATA`, `FIRST_SMI_HANDLER_CONTEXT` at the default SMBASE, the pen page, QEMU's hotplug registers | root MMI handler (collect, hot-add, unplug), first SMI handler, pen, ejection at SMI exit | every CPU runs at the same time; plugs happen in the middle of an MMI; the BSP clears what APs are reading | no two CPUs share an SMBASE; nobody reaches the OS unrelocated or after its removal; only released CPUs are ejected; every MMI ends |
| VirtioLib | the vring | prepare, append, flush, map | the host reads the ring at any time; 16-bit indices wrap; a failing notification | lock-step |
| VirtioBlkDxe | `VBLK_DEV`, the ring, the mappings | Start, Stop, read, write, flush, ExitBootServices | concurrent host, failures at every step, unwinding | the host touches mapped memory only; nothing leaks; at-most-once execution |
| VirtioNetDxe | Tx free stack, Tx buffer collection, Rx ring, SNP state | SNP calls, ExitBootServices | asynchronous Tx completion, Rx recycling | a buffer is owned by one side; descriptors are not lost |
| XenBusDxe | XenStore ring, reply and watch lists, grant table free list, event channels | XenStore requests, transactions, watches, grants | replies and events on one ring, backend still using a grant | replies match requests; no reference handed out twice |
| XenPvBlkDxe | shared ring, XenBus states | handshake, asynchronous I/O, shutdown | backend's state changes, response order | requests complete once |
| IoMmuDxe | `MAP_INFO` list, recycled list | Map, Unmap, ExitBootServices | unmapping in an event handler | every mapping is cleared, none twice |
| PvScsi, MptScsi, LsiScsi | adapter rings | one request at a time | device faults and resets | as VirtioBlkDxe |
| AcpiPlatformDxe, with QemuFwCfgS3Lib | blobs and their tracker, the addresses QEMU holds, installed tables, the S3 context | linker/loader commands in two passes, rollback, boot script callback | failure at any command, addresses outside the guest, S3 resume | all or nothing; no address in freed memory |
| Flash and variable FVB drivers, LockBoxLib | small tables | commands | failure in the middle | atomicity |
| The rest (PEI, Sec, PCI, video, image loading, HFS+/APFS, boot manager, TCG) | - | - | sequential, data-driven, or vendored | not modelled |

`PROJECT.json` lists every component with its status, and under `hazards` what in
this code is hard to test, line by line.

Interactions: CpuHotplugSmm talks to PiSmmCpuDxeSmm (outside this repository)
through `CPU_HOT_PLUG_DATA` and `EFI_SMM_CPU_SERVICE_PROTOCOL`, and to
SmmCpuFeaturesLib through `CPU_HOT_EJECT_DATA`.  The virtio drivers use VirtioLib
over a transport (`VIRTIO_DEVICE_PROTOCOL`); XenPvBlkDxe uses the XenStore, the
grant table and the event channels of XenBusDxe; AcpiPlatformDxe hands its S3 context
to QemuFwCfgS3Lib.

## Plan

1. `CpuHotplug`, the system's most concurrent code: model, safety, liveness, and all
   its safety properties proved for any number of CPUs (done).
2. `VirtioLib`, `VirtioBlk` and the abstract `BlockIo` it implements: model, safety and
   the refinement proved (done).
3. `VirtioNet`: the Tx free stack, the Rx ring and the life cycle of the interface
   against a concurrent host: model, and every safety property proved (done).
4. `GrantTable`, `XenStore`, and `XenPvBlk` over the grant table: models, and every safety
   property proved (done).
5. `AcpiLoader`: the linker/loader script and its rollback: model, and every safety
   property proved (done).
6. Models not written yet: `IoMmu` (mappings and the recycled list), the flash
   protocol of the FVB driver, the SCSI adapters, the FUSE session of VirtioFsDxe.

## Modules

**CpuHotplug** composes `CpuHotplugSmm/*.c`, `FirstSmiHandler.nasm`,
`PostSmmPen.nasm` and `SmmCpuFeaturesRendezvousExit()`.  A CPU is its QEMU
selector, an SMBASE the number of the slot it is configured for.  `pc` is where the
SMM Monarch is in `CpuHotplugMmi()` and the functions it calls; `cpu[c]` what each
other CPU executes.  Every access to memory that two CPUs share is a step of its
own: the stores and polls of `SmbaseRelocate()`, the instructions of the first SMI
handler, the look-ups and resets of `EjectCpu()`.  Loops over private or unshared
arrays (the search for a slot, the search for an APIC ID) are one step.
QEMU's registers, the OS, and PiSmmCpuDxeSmm are external: QEMU plugs at any time,
and `GET_PENDING` scans from the selector, inclusive, with wrap-around; the OS is
the benign one (it boots a hot-added CPU only after the MMI that announced it, and
clears the insert events it saw); the next SMI starts when every CPU is out of the
previous one; an ejected CPU is gone before the port write returns.  `Fatal` stands for
`CpuDeadLoop ()`, in the handler and in the register accessors.

**CpuHotplugProofs**, **CpuHotplugSafety** and **CpuHotplugFatal** have its theorems:
type correctness, the safety invariants, and that the dead loop is not reached.

**VirtioLib** has the ring as a record and the operators for what the driver and
the host do to it.  **VirtioBlk** is the driver: `pc` is the step or the error label,
`held` and `mapped` what it has acquired; a failed service jumps to the label the
code names.  Stop() runs through the labels of Start(), which the code repeats in
the same order.  The host fetches, executes and completes concurrently, with or
without a notification.  **BlockIo** is the abstract protocol: a request is carried
out at most once, between call and return, and `EFI_SUCCESS` means it was.
`Protocol` in VirtioBlk is the refinement mapping.  **VirtioBlkProofs** has the theorems.

**VirtioNet** is the network driver, from the driver binding to ExitBootServices().
`State` is `Snm.State`; `pc` the step of the call in progress or the label it unwinds
at.  Calls run at TPL_CALLBACK and do not interleave, the host runs between any two
steps of them.  The transmit ring, `TxFreeStack`, `TxCurPending`, `TxLastUsed` and
`TxBufCollection` are the fields of `VNET_DEV`; mapping is the identity or goes through
bounce buffers (`Bounce`).  The host takes chains, sends or fills them in any order,
and stores packets in `wire` order.  **VirtioNetProofs** has the theorems.

**XenStore** is the client in XenStore.c and the service.  A message is a sequence of
units, so that headers and bodies are split at the end of a ring or when a ring is
full; both sides copy what fits, publish an index and notify.  A reply is matched to a
request by order alone; watch events arrive in between and go to `WatchEvents` if their
watch is registered.  `XenStoreDeinit()` runs at either TPL, with the service
reconnecting or not.  The client's own XENSTORE_STATUS_EIO, for indices out of range, is
left out: `IndexesInRange` says that they never are.  **XenStoreProofs** has the theorems.

**GrantTable** has the free list threaded through `GrantList[]` as operators on a
record.  **XenPvBlk** composes it with BlockFront.c, BlockIo.c and the driver binding:
the handshake of XenBus states, requests cut at the segment limit, the notification
hold-off of ring.h, barriers and flushes, the closing handshake, the error labels.
Everything is counted in units of 512 bytes, the sectors of the ring's requests.  `media`
has the sector size the backend announces and the blocks of `EFI_BLOCK_IO_PROTOCOL`: those
of a disk are its sectors, those of a CD-ROM have 2048 bytes (XenPvBlkDxe.c:285-296).
`ReadWriteBlocks` converts a block to a sector of the ring (BlockIo.c:135), and `asserted`
collects every ASSERT() of `XenPvBlockAsyncIo()` that fails.  The node "sectors" is
taken as the driver takes it and blkif.h:203-207 defines it, in units of "sector-size" (the
comment at blkif.h:500-505 has it in units of 512 bytes).  Reads and writes, which
differ in the direction only, are one operation.
The XenStore is atomic here: a call succeeds or fails, and a watch has fired or not.
The backend follows the frontend's state, completes requests in any order, with an error
or without, sleeps after `RING_FINAL_CHECK_FOR_REQUESTS`, and may be unplugged.
**XenPvBlkProofs** has the theorems of both.

**AcpiLoader** is `InstallQemuFwCfgTables()` with BootScript.c and the part of
QemuFwCfgS3Lib it uses.  `pc` is the statement or the label; `held` the pool objects,
`mem` the pages of the blobs, `Tracker` the blobs with `HostsOnlyTableData`.  QEMU's
script is chosen command by command; the offsets the commands check, and the scan that
keeps a blob below 4 GB for the sake of a narrow pointer, only decide whether a command
fails.  What the second pass finds at an address (a table, RSDT or XSDT, anything
else) is chosen when it looks.  A relocated field is taken not to overlap another one or
a checksum.
**AcpiLoaderProofs** has the theorems.

Operators whose comment starts with "Mutant:" are faulty variants of the definition
below them; no specification uses them.  Replacing the definition by the variant
makes TLC report the property `PROJECT.json` pairs them with.

## Runs

| Run | Question | Bounds |
|---|---|---|
| `cpu_hotplug` (CpuHotplug.cfg) | Safety of hot-add and ejection, without failing services | 3 possible CPUs, 1 at boot: two CPUs come, go and come back, also in one MMI, in every order of slots and selectors, any number of times |
| `cpu_hotplug_liveness` (CpuHotplugLiveness.cfg) | Every MMI ends or is fatal; what was requested before it is done by it | 2 CPUs at boot, failing services, the last slot above 4 GB |
| `virtio_blk` (VirtioBlk.cfg) | Memory safety, leaks, the block protocol, termination | ring of 3 descriptors (the minimum `VirtioBlkInit()` accepts), indices modulo 4 so that they wrap against a ring of 3, 3 blocks with block arithmetic modulo 5, all services failing except the notification |
| `virtio_blk_notify` (VirtioBlkNotify.cfg) | Is the lock-step kept when the notification fails?  No: see below | 1 block |
| `virtio_net_tx` (VirtioNetTx.cfg) | Ownership of transmit chains and buffers, the driver's assertions, failing services; does a transmitted buffer come back? | 2 chains, 2 buffers, indices modulo 4, 1 receive chain; 183 thousand states |
| `virtio_net_rx` (VirtioNetRx.cfg) | Memory safety, leaks, receive chains and packets, notifications failing too | 2 receive chains, 2 packets, 1 transmit chain that 2 buffers compete for, 2 bounce buffers; 830 thousand states |
| `virtio_net_notify` (VirtioNetNotify.cfg) | Do the assertions hold when a notification fails?  No: see below | 1 buffer |
| `xen_store` (XenStore.cfg) | Replies, events, indices and termination over rings smaller than a message | rings of 2 units, indices modulo 4, 2 watches, 1 undelivered event per watch; 439 thousand states |
| `xen_store_deinit` (XenStoreDeinit.cfg) | Does the tear-down wait on an open event?  No: see below | the same |
| `xen_pvblk` (XenPvBlk.cfg) | Pages the backend uses, grants, transfers, termination, with failing XenStore calls | 3 usable grants, 2 segments per request, pages of 4 units, ring of 2, indices modulo 4; sectors of 1 and 2 units, disks, and CD-ROMs with blocks of 4, an odd number of sectors; lengths and alignments for 1, 2 and 3 requests with full and partial pages, and some beyond the end; 800 thousand states |
| `xen_pvblk_buffer` (XenPvBlkBuffer.cfg) | Is every buffer aligned to the sectors?  No: see below | one disk with sectors of 2 units, one buffer aligned to 1 |
| `acpi_loader` (AcpiLoader.cfg) | Rollback, dangling pointers, replay at S3 resume | 5 commands, 2 files with 2 offsets, 2 slots in QEMU, 2 tables; 2.7 million states up to symmetry |

Two chains per ring are enough for completions out of order and for the free stack to
be permuted; indices modulo 4 wrap after two rounds of a ring of 2.  Rings of the
XenStore that are as short as a header make every message wrap and wait.  Five commands
are two allocations and three pointers: one table more than fits, an address given to
QEMU between two others, or a slot written twice.

Three CPUs are enough for every pair of CPUs besides the BSP to meet in the
handshake and at the exit, and for a slot to change hands.  The state spaces are
finite without further bounds: QEMU and the OS may act forever.

Only `cpu_hotplug` checks for deadlock.  Elsewhere the system really may stop: in
`CpuDeadLoop ()`, after ExitBootServices(), after a tear-down, when a driver has given
up on its backend, or when the script has been run.

What the properties say is written at their definitions.  The type invariants `TypeOK` of
VirtioNet, XenStore and AcpiLoader document their states; they are proved, and are not
among the properties of the runs.  The other properties, in short:
`SmbaseUnique`, `DefaultSmbaseExclusive`, `RunningRegistered` (hot-add);
`HaltedIsDoomed`, `EjectOnlyReleased`, `NoStaleSlot` (ejection); `NeverFatal` (the
error paths the comments call impossible are impossible); `MmiCompletes`,
`SeenCpuRegistered`, `RequestedCpuEjected` (liveness); `RingOutlivesDevice`,
`HostInMappedMemory`, `NothingLeaked`, `TransferOnDisk`, `ImplementsBlockIo`,
`RequestReturns` (virtio-blk); `AssertsHold`, `StartedIsReset`, `TxChainsAccounted`,
`TxBuffersAccounted`, `RxChainsAccounted`, `PacketsIntact`, `HostInMappedMemory`,
`NothingLeaked`, `BufferReturned` (virtio-net); `RepliesMatched`, `IndexesInRange`,
`EventsAccounted`, `CallsReturn` (XenStore); `BackendInOwnedPages`, `GrantsAccounted`,
`TransferComplete`, `RequestsInSectors`, `CallsReturn` (Xen block); `HostPointersValid`,
`AllOrNothing`, `PointersResolved` (ACPI).

What they do not say: `TransferOnDisk` of VirtioBlk is about logical blocks, and the
conversion to sectors of 512 bytes (VirtioBlk.c:287) is outside the model.  `CallsReturn`
of XenStore exempts what follows rings that were erased under the service, and that of
XenPvBlk a transaction that failed at its end.  `BackendInOwnedPages` and
`GrantsAccounted` say nothing of the ring and its grant after the driver gave up on a
backend that was still connected: the code frees the ring's page whatever
`GrantEndAccess()` answers.  The hazards in `PROJECT.json` name these lines.

### Findings

`VirtioFlush()` returns when `SetQueueNotify()` fails, with `Avail.Idx` already
advanced (VirtioLib.c:306-316).  The chain is published all the same: the device may
take it later, when the buffers are unmapped and descriptor 0 is being reused.  The
comments (VirtioLib.c:193-195, 295-296) take the lock-step for granted.  The run
`virtio_blk_notify` shows `LockStep` violated.  The transports' notification is a
register write, which does not fail in practice.

`VirtioNetTransmit()` returns the status of the notification after the chain has been
published (SnpTransmit.c:173).  The packet is queued although the caller is told it
could not be sent.  `virtio_net_notify` shows a caller that tries again with the same
buffer reaching the `ASSERT (FALSE)` of `VirtioNetMapTxBuf()`, whose comment calls that
impossible.

`XenStoreDeinit()` closes `EventChannelEvent` and then, when the service supports
reconnection, waits on it (XenStore.c:1119-1126).  At TPL_APPLICATION WaitForEvent()
refuses the closed event with EFI_INVALID_PARAMETER, which `XenStoreWaitForEvent()`
asserts not to happen; `xen_store_deinit` reaches that wait.

`XenPvBlockAsyncIo()` asserts that the buffer is aligned to the sector size
(BlockFront.c:437-438: "Can't io non-sector-aligned buffer").  Any multiple of 512 is accepted as
sector size (BlockFront.c:277), but `IoAlign` stays 512 (BlockIo.c:29), and only a buffer
that is not aligned to it is replaced (BlockIo.c:109).  `xen_pvblk_buffer` shows a disk with
larger sectors and a buffer that is aligned to 512 bytes only.

## Fairness

Weak fairness of the Monarch, of each hot-added CPU in the first SMI handler and the
pen, and of each AP at the SMI exit: they are virtual CPUs executing firmware code,
and QEMU schedules all of them.  No fairness for QEMU's plugs or for the OS.  In
virtio-blk: the driver's code runs on, the host answers a notification, and it
finishes a chain it has taken; it need not poll.

In virtio-net, besides the same of the host, the caller polls GetStatus() again and
again, which is how a network stack gets its buffers back; it may shut the interface
down at any time, so this is strong fairness of the call.  In XenStore the client's
code runs on, and the service reads, answers and writes when it is awake; it is woken
by a notification only, so a lost one would show.  In XenPvBlk the driver and the
backend run on, and the backend is not unplugged infinitely often.  A failing
end of a transaction leaves the driver waiting for a state that is never announced:
`CallsReturn` of XenPvBlk says so and exempts it.

## Proofs

### CPU hotplug

`TypeCorrect` (CpuHotplugProofs): `Spec => []TypeOK`, for any number of CPUs
(`CpuCountAssumption`), any injective assignment of APIC IDs (`ArchIdAssumption`),
any set of high slots and with or without failing services.  TypeOK is not inductive:
`SmbaseRelocate()` and `EjectCpu()` use `NewSlot`, `Head(Plugged)` and `Idx` set in
earlier steps, so `LocalsInRange` says that they are in range while they are used.
The searches of the code are `SetMin`, a CHOOSE; `SetMinIsMember` shows, from the
well-foundedness of Nat, that it returns the least member.

`Inductive` (CpuHotplugSafety): `Spec => []IInv`, with no assumptions beyond those.
From it follow `SmbasesDisjoint`, `RunningCpusRegistered`, `FirstSmiHandlerExclusive`,
`OnlyDoomedHalt`, `SlotsAreCurrent` and the action property `EjectsOnlyReleased`: each
safety property of `cpu_hotplug`.  None is inductive alone.  IInv adds:

- `Existence` and `Phases`: what QEMU's event bits say of what a CPU executes, and
  during which phases of the MMI it can be there;
- `Handshake`: in each phase of `SmbaseRelocate()` only the CPU with the APIC ID
  `Head(Plugged)` is outside RESET without being relocated, and what each of the two
  sides has already done to the gate and the flags;
- `Ownership`: a relocated CPU is registered in the slot of its SMBASE or stashed
  there, and a registered CPU exists and is, or is about to be, relocated to the slot;
- `Ejection`: a stashed selector names a CPU that runs from that slot and waits for
  its ejection, and the handler is armed before anybody leaves;
- `Collection`: what the scan collected still has its event, and an insert event the
  OS has seen is not lost before its CPU is registered.  This makes it safe for the OS
  to boot that CPU after the MMI.

There is one lemma per action.  Two arguments carry most of the weight.  In `Rsm` the
new SMBASE is nobody else's: by Ownership another CPU there would be registered under
the APIC ID of the target, or stashed, and nothing is stashed while CPUs are being
added.  In `EjectCpuAp` an AP that finds its slot stashed is the CPU to eject: by
Ejection the stashed CPU runs from that slot, and by SmbaseUnique no other one does.

`HandlerNeverFatal` (CpuHotplugFatal): `Spec => []NeverFatal`.  `Room` strengthens
IInv: the scan has collected fewer APIC IDs than selectors passed (the BSP has no
events), so arrays of `PossibleCpuCount - 1` elements suffice; and no slot before
`NewSlot` is empty, so that the search from `NewSlot` on finds one whenever there is
one at all.  There is: registered CPUs are distinct, and by the pigeonhole principle
they do not fill all slots while a CPU is unknown.

### virtio-blk

VirtioBlkProofs assumes of the constants what the code checks or the types give
(`RingAssumption`: at least 3 descriptors, indices of some width; `MediaAssumption`).

`Invariant`: `Spec => []Inv`, whatever fails.  Inv says what is mapped and what is held at
each step and label (`Mappings`, `Holdings`), and that the device is live exactly from the
store of DRIVER_OK to the reset (`Device`).  `TypeCorrect`, `RingOutlivesDeviceTheorem`,
`NothingLeakedTheorem` and `TransferOnDiskTheorem` follow from it; the last is the argument
about the unsigned subtractions of `VerifyReadWriteRequest()`, for every width.

`LockStepInvariant`, `LockStepTheorem`, `HostInMappedMemoryTheorem` and `Refinement` have the
hypothesis `NotifyMayFail = FALSE`.  It is needed: `virtio_blk_notify` violates LockStep
without it.  The invariant LInv adds that the host is through with every chain (`Quiet`)
except between the store of Avail.Idx and the end of the polling loop, where one chain is
offered, taken, carried out or completed (`InFlight`), and that chain is the one the driver
built (`Built`); and that what the driver is going to report agrees with what the host did
(`Reports`).  The equality that ends the polling loop is then right also when the
index wraps.  The refinement maps a step to Submit, Execute, Return or a stutter of BlockIo; the
environment's freedom to take requests is the same in both.

### virtio-net

VirtioNetProofs assumes that both ring sizes divide the range of the indices, which the
virtio specification demands (powers of two) and without which slots would jump where an
index wraps, and that the driver's shared memory and the caller's buffers do not overlap
(`NetAssumption`).

`Invariant`: `Spec => []Inv`, with any services and notifications failing.  Besides what is held,
mapped and live at each step and label, Inv has the account of the chains.  A part of a
ring between two free-running indices is a sequence (`Queue`): the chains offered, from the
host's index to the driver's, and the chains completed, from `LastUsed` to `UsedIdx`.
`Places` says that the free stack, the offered chains, those the host has taken and the
completed ones are disjoint, without repetition and all the chains there are; each
operation moves one chain from one place to the next (`PlacesSupply`, `PlacesTake`,
`PlacesComplete`, `PlacesReap`).  That lengths add up to the number of chains, which is
less than the ring size, is why a queue neither overtakes itself nor overwrites a slot
that is still to be read.  The chain that Transmit() or Receive() has stored, before
Avail.Idx is stored, counts as offered but cannot be taken (`TxEnd`, `RxEnd`).
`TxBuffers` ties the chains in use to the keys of `TxBufCollection` one to one, and
`RxPackets` the completed chains to the packets in order.  `TypeCorrect`,
`StartedIsResetTheorem`, `HostInMappedMemoryTheorem`, `NothingLeakedTheorem`,
`TxChainsAccountedTheorem`, `RxChainsAccountedTheorem` and `PacketsIntactTheorem` follow.

`OwnersInvariant`, `AssertsHoldTheorem` and `TxBuffersAccountedTheorem` have the hypothesis
`NotifyMayFail = FALSE`, which `virtio_net_notify` shows to be needed: a buffer is the caller's,
or a value of the collection, once, or the one Transmit() is working on (`Owners`).

### ACPI linker/loader

AcpiLoaderProofs is about scripts of any length (`MaxCommands` is any number), any files,
offsets and slots.  `Invariant`: `Spec => []Inv`, wherever a command or a service fails:

- `Memory`: the pages of the blobs are those of the tracker until it is freed, and what is
  kept is kept for a reason;
- `HostPointers`: an address with QEMU was written by a WritePointer command before
  `WritePointerSubsetEnd` that is not yet undone, and its blob is pinned;
- `Context`: the S3 context has the addresses written, in order, and nothing fails after it
  was handed over;
- `Holdings`, `Tables`, `Pointers`: what is held at each label, the tables installed, and the
  addresses the second pass has followed.

`HostPointersValidTheorem`, `AllOrNothingTheorem` and `PointersResolvedTheorem` follow.  For
AllOrNothing, what S3 resume writes is computed by replaying the opcodes, a skip and a
write for each pointer; the lemmas `WritesReplayed` and those around it show that the last write
to a slot in the opcodes is the last one in the context, which by `Context` is what
QEMU has.

### Xen block frontend and grant table

XenPvBlkProofs assumes of the constants (`GrantAssumption`, `XenPvBlkAssumption`) that the
ring size divides the range of its indices, that a request has room for at least two
segments, without which a buffer that starts within a page could not be transferred, and
that the table has a reference for the ring and one for each segment of a request (2048
entries, 8 of them reserved, against 11 segments).  The driver waits for each request, so
no more are ever needed, and `GrantsAccounted` includes that the table is not exhausted.
Sector sizes are powers of two, for which the masks of the ASSERT()s are remainders, the sectors
of a CD-ROM divide its blocks, and a device has at least one block.

The library's induction theorems take an operator as a parameter, which the provers cannot
instantiate, so the module starts with `UpTo`, induction up to a bound for a set of
numbers, from the well-foundedness of <; it serves the recursive functions `GrantAll`,
`EndAll`, `Moves` and the walk along the free list.

- Grant table: `FreeList(g, s)` says that the sequence s, without repetition, is what
  following `GrantList[]` from entry 0 visits, and `Listed(g)` that it holds just the
  references that are not permitted.  `XenGrantTableInit()` lists all, granting takes the
  head, ending puts the head, and the backend's maps leave the list alone.  The grants of
  a request are `GrantedAll` after any number of them, and `EndedAll` when they are ended.
- Segments: `IoSizeIs` bounds the pages a piece touches by the segment limit for every
  alignment, and `MovesAre` says that the segments, read one after the other, are the
  consecutive sectors of the piece: each segment begins where the one before ended
  (`Follow`) and together they cover the piece (`Cover`).
- `IInv` has six parts.  `Types`; `Handshake`, how far the driver, its state node and the
  backend's state may be from each other at each step, which is what makes the backend's
  reference the driver's until it is given up; `Activity`, which data the step works on;
  `Accounted`, the references permitted and those mapped; `Rings`: between the indices
  a <= b <= d <= n, counted from `rsp_cons`, lie the answered, taken, published and pushed
  requests of the batch in flight, each slot holds the request or the response that belongs
  there, and the requests taken are b - a different ones of the batch; and `Transfer`.
  Types and Accounted alone are not inductive: a response is matched with the request
  whose grants are ended only because the ring says that no other one is in flight.

`Rings` is kept step by step by lemmas about any ring: `RingPush`, `RingPublish`,
`RingTake`, `RingRespond` and `RingRead` move one index each, and `SlotIs`
(different offsets have different slots, also where an index wraps) keeps the other slots.
`TypeCorrect`, `BackendInOwnedPagesTheorem` and `GrantsAccountedTheorem` follow.

Sizes are a second layer on IInv.  `Geometry` says that a block is a whole number of sectors,
that all blocks together are on the disk, and that a transfer stays what the caller
asked for, from the right sector on and within the disk; with `Transfer` it gives
`TransferCompleteTheorem`.  `InSectors` adds that every request of a transfer ends where a sector
ends, for which a page must hold whole sectors (`PagesInSectors`): a request cut at the
segment limit has the size of a whole number of pages.
`RequestsInSectorsTheorem` has that hypothesis.  `BuffersAlignedTheorem` has besides it that
the callers' buffers are aligned to the sectors (`BuffersInSectors`), which is what
`xen_pvblk_buffer` shows to be missing in the code.

### XenStore

XenStoreProofs assumes (`XenStoreAssumption`) that the ring size divides the range of the
indices, as 1024 divides 2^32, that the range is larger than the ring, and that a watch can
have an event, since the service fires every watch once when it is set.  The rings may be
of any size, also shorter than a header.  `Invariance`: `Spec => []IInv`, with one lemma per
action.  The properties are far from inductive: nothing in a message says which request it
answers, so that a reply is the right one can only follow from everything under way.  IInv
has six parts besides `matched`:

- `Types`: TypeOK with the types of the messages and of their units;
- `Control`: which watches are registered, allocated and known to the service during each
  call, and what is left of them while the store is torn down;
- `Indices`: no ring holds more than it has room for, also while `XenStoreDeinit()`
  erases the indices one store after the other and the service meets them half erased;
- `Calling`: a request is under way only during a call, and there is one: either the units
  the service has received, those on the ring and those still in `Data` make up the request
  (`Unanswered`), or nothing of it is left and there is just one reply, on the list or in the
  stream (`Answered`);
- `Streaming`: what the client has read of the next message, what is on the ring and what the
  service still has to write are, one after the other, whole messages (`Framed`), so
  that the client is never out of step with the headers; and an event of a watch that is
  being removed comes before the reply to XS_UNWATCH;
- `Accounting`: the undelivered events of a registered watch are those whose last unit is in the
  stream and those on the list.

`Stream` and `Asked` make each copy of a chunk a move inside one sequence: the lemmas about
`Produce` and `Consume` show, for any place of the indices and also where they wrap, that
what is on a ring is extended or cut and the whole stays what it was.  Only a step that
completes a message, or puts one in, changes what is under way.  That the events of a watch
precede the reply to its XS_UNWATCH is why cancelling the events on the list when that reply has been
read is enough, and no later event has the handle of a freed watch.  `TypeCorrect`,
`CallsMatched`, `EventsKept` and, from Indices, `IndexesInRangeTheorem` follow.

### Only model-checked

TLC checked each of these invariants on the runs' instances before it was proved.  Every
safety property of a passing run is now also a theorem.  Only model-checked are the liveness
properties: fairness and ENABLED are out of the prover's reach.

## Not modelled

An OS that does not follow the hotplug protocol (cases 1.2 and 2.2 in the comment of
`SmbaseRelocate()`); the allocation of the pen and of SMRAM at the entry point;
failures of the device reset; the contents of requests; the enumeration of the Xen bus;
a CD-ROM whose sectors are larger than its blocks, for which the driver divides by 0
(XenPvBlkDxe.c:292), and a device smaller than a block;
the tables AcpiPlatformDxe installs without a script.  The components without a module,
with the reasons, are in `PROJECT.json`.

The models cover a small share of the repository's lines.  Most of these belong to
vendored copies of EDK II packages (`LegacyPackages`, `Csm`, each with the BIOS thunks
and the legacy PCI, IDE and video code), to file system and image parsers, and to
headers: register access, data layouts and straight-line set-up, with no state that
outlives a call and nothing that runs beside them.  Modelling them would repeat their
text.
