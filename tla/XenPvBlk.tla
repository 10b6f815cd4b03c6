------------------------------ MODULE XenPvBlk ------------------------------
(***************************************************************************)
(* The Xen block frontend (XenPvBlkDxe) over XenBusDxe's grant table, and  *)
(* its backend: the handshake through the XenStore, requests over the      *)
(* shared ring with notification hold-off, flushes, and the tear-down.     *)
(* The backend runs concurrently and completes requests in any order.      *)
(*                                                                         *)
(* Addresses, sizes and sectors count 512 bytes, the sector of the ring's  *)
(* requests; a page holds PageSectors of them.  The disk's sectors and the *)
(* blocks of EFI_BLOCK_IO_PROTOCOL may be larger.  A write differs from a  *)
(* read in the direction only, and both are one operation here.            *)
(* The XenStore is atomic here: a read returns the current state, and a    *)
(* watch has fired and not been consumed, or not (see module XenStore).    *)
(***************************************************************************)
EXTENDS GrantTable, Sequences, FiniteSets

CONSTANTS
    BLKIF_MAX_SEGMENTS_PER_REQUEST,
    PageSectors,    \* EFI_PAGE_SIZE / 512
    RING_SIZE,      \* of the shared ring
    IdxMod,         \* 2^32: the ring indices are UINT32
    Sectors,        \* the nodes of the backend: "sectors",
    SectorSizes,    \* "sector-size" / 512, powers of two,
    DeviceTypes,    \* and "device-type": "disk" or "cdrom"
    CdRomBlockSize, \* 2048 / 512
    Buffers,        \* addresses of the callers' buffers (aligned to Media->IoAlign, 512)
    Lbas,           \* bound: the first blocks of the requests
    BlockCounts,    \* bound: their lengths
    StoreMayFail    \* TRUE iff calls of the XenStore may fail

ASSUME XenPvBlkAssumption ==
    /\ BLKIF_MAX_SEGMENTS_PER_REQUEST \in Nat /\ BLKIF_MAX_SEGMENTS_PER_REQUEST > 1
    /\ {PageSectors, RING_SIZE} \cup BlockCounts \cup SectorSizes \subseteq Nat \ {0}
    /\ \A size \in SectorSizes : \E k \in 0 .. size : size = 2^k
    /\ DeviceTypes \subseteq {"disk", "cdrom"}
    /\ CdRomBlockSize \in Nat \ {0} /\ Sectors \in Nat /\ Sectors >= CdRomBlockSize
    /\ IdxMod \in Nat /\ IdxMod > RING_SIZE /\ IdxMod % RING_SIZE = 0
    /\ NR_GRANT_ENTRIES - NR_RESERVED_ENTRIES > BLKIF_MAX_SEGMENTS_PER_REQUEST
    /\ Lbas \cup Buffers \subseteq Nat /\ StoreMayFail \in BOOLEAN

VARIABLES
    pc,             \* the driver: its step
    held,           \* what the driver instance owns
    grants,         \* the grant table
    RingRef,        \* Dev->RingRef, or 0
    media,          \* SectorSize, BlockSize and LastBlock of MediaInfo and Media
    SyncOps,        \* FeatureBarrier, FeatureFlushCache: operations of a flush
    ops,            \* XenPvBlockSync(): operations still to push
    then,           \* where the driver goes on after XenPvBlockSync()
    call,           \* the request of the caller and how far it has come
    IoData,         \* GrantRef[] and Status
    front,          \* Dev->Ring: req_prod_pvt and rsp_cons
    sring,          \* the shared ring: indices and slots
    frontState,     \* the frontend's "state" node
    fired,          \* the watch has an event to be consumed
    asserted,       \* the ASSERT()s that have failed
    gaveUp,         \* TRUE iff the driver went before the backend had closed
    backend         \* state, the ring's reference, req_cons, requests taken, awake

driver == <<pc, held, RingRef, media, SyncOps, ops, then, call, IoData, front>>
vars   == <<driver, grants, sring, frontState, fired, asserted, gaveUp, backend>>

\* enum xenbus_state.
Initialising == 1
InitWait     == 2
Connected    == 4
Closing      == 5
Closed       == 6

Barrier    == "BLKIF_OP_WRITE_BARRIER"
FlushCache == "BLKIF_OP_FLUSH_DISKCACHE"

EventIdx(i) == i % IdxMod
Slot(i)     == i % RING_SIZE
RingFrame   == -2   \* not a page of a buffer
NoIo        == [Status |-> "none", refs |-> <<>>]
NoCall      == [Lba |-> 0, Sector |-> 0, Buffer |-> 0, BufferSize |-> 0, done |-> 0,
                moved |-> {}]
NoMedia     == [SectorSize |-> 1, BlockSize |-> 1, LastBlock |-> 0]
Empty       == [op |-> "none"]   \* also a slot that was read: it is not read again
NoSring     == [req_prod |-> 0, req_event |-> 1, rsp_prod |-> 0,
                slot |-> [i \in 0 .. RING_SIZE - 1 |-> Empty]]
NoBackend   == [state |-> InitWait, ref |-> 0, req_cons |-> 0, taken |-> {}, awake |-> FALSE,
                checking |-> FALSE]

Init ==
    /\ pc = "off" /\ held = {} /\ RingRef = 0 /\ media = NoMedia
    /\ SyncOps = <<>> /\ ops = <<>> /\ then = "idle"
    /\ grants = EmptyGrants
    /\ call = NoCall /\ IoData = NoIo /\ front = [req_prod_pvt |-> 0, rsp_cons |-> 0]
    /\ sring = NoSring
    /\ frontState = Initialising /\ fired = FALSE
    /\ asserted = {} /\ gaveUp = FALSE
    /\ backend = NoBackend

\* XenBusDxeDriverBindingStart() and ...Stop(): the grant table is set up again.  (Bound:
\* the run ends when the driver gave up on a backend.)
XenBusStart ==
    /\ pc = "off" /\ pc' = "unbound"
    /\ grants' = XenGrantTableInit(grants)
    /\ UNCHANGED <<held, RingRef, media, SyncOps, ops, then, call, IoData, front, sring,
                   frontState, fired, asserted, gaveUp, backend>>

XenBusStop ==
    /\ pc = "unbound" /\ ~gaveUp /\ pc' = "off"
    /\ UNCHANGED <<held, grants, RingRef, media, SyncOps, ops, then, call, IoData, front, sring,
                   frontState, fired, asserted, gaveUp, backend>>

-----------------------------------------------------------------------------
(* XenPvBlkDxeDriverBindingStart() and XenPvBlockFrontInitialization().    *)

\* The event channel, the shared ring and its grant.  (The same bound.)
XenPvBlockFrontInitialization ==
    /\ pc = "unbound" /\ ~gaveUp
    /\ pc' = "transaction"
    /\ held' = {"Dev", "EventChannel", "Ring"}
    /\ asserted' = IF NextFree(grants) \in Refs THEN asserted ELSE asserted \cup {"Ref"}
    /\ RingRef' = NextFree(grants)
    /\ grants' = XenGrantTableGrantAccess(grants, RingFrame)
    /\ front' = [req_prod_pvt |-> 0, rsp_cons |-> 0]
    /\ sring' = NoSring
    /\ UNCHANGED <<media, SyncOps, ops, then, call, IoData, frontState, fired, gaveUp, backend>>

\* The transaction that publishes the ring and the state; it is repeated on EAGAIN.  An other
\* error of XsTransactionEnd() is not looked at.
PublishRing ==
    /\ pc = "transaction"
    /\ \/ pc' = "register" /\ frontState' = Connected
       \/ StoreMayFail /\ pc' \in {"Error", "register"} /\ UNCHANGED frontState
    /\ UNCHANGED <<held, grants, RingRef, media, SyncOps, ops, then, call, IoData, front, sring,
                   fired, asserted, gaveUp, backend>>

\* A new watch fires at once.
RegisterWatchBackend ==
    /\ pc = "register" /\ pc' = "awaitConnected"
    /\ held' = held \cup {"Watch"} /\ fired' = TRUE
    /\ UNCHANGED <<grants, RingRef, media, SyncOps, ops, then, call, IoData, front, sring,
                   frontState, asserted, gaveUp, backend>>

\* Labels Error2 and Close, before the backend has closed.
GiveUp == pc' = "Close" /\ gaveUp' = TRUE

\* The loop of XenPvBlkWaitForBackendState(): the state is read; a state further on, or a
\* failing read, is an error.
XenPvBlkWaitForBackendState(here, wait, expected, next) ==
    /\ \/ /\ pc = here
          /\ \/ backend.state = expected /\ pc' = next /\ UNCHANGED gaveUp
             \/ backend.state < expected /\ pc' = wait /\ UNCHANGED gaveUp
             \/ backend.state > expected /\ GiveUp
             \/ StoreMayFail /\ GiveUp
          /\ UNCHANGED fired
       \/ pc = wait /\ fired /\ fired' = FALSE /\ pc' = here /\ UNCHANGED gaveUp
    /\ UNCHANGED <<held, grants, RingRef, media, SyncOps, ops, then, call, IoData, front, sring,
                   frontState, asserted, backend>>

AwaitConnected ==
    XenPvBlkWaitForBackendState("awaitConnected", "watchConnected", Connected, "info")

\* Mutant: the block size stays at the 512 of gXenPvBlkDxeBlockIoMedia.
MediaOfTemplate(size, type) == [SectorSize |-> size, BlockSize |-> 1, LastBlock |-> Sectors - 1]

\* The blocks of the disk are its sectors, those of a CD-ROM always have 2048 bytes.
Media(size, type) ==
    LET block == IF type = "cdrom" THEN CdRomBlockSize ELSE size
    IN  [SectorSize |-> size, BlockSize |-> block, LastBlock |-> Sectors \div (block \div size) - 1]

\* The backend's nodes are read and BlockIo is installed; a failing read, or a sector size
\* that is not a multiple of 512, ends at Error2, a failing installation in a shutdown.
\* (Bound: the sectors of a CD-ROM are not larger than its blocks; DivU64x32() would
\* divide by 0.)
InstallBlockIo ==
    /\ pc = "info"
    /\ \/ /\ \E size \in SectorSizes, type \in DeviceTypes :
                /\ type = "cdrom" => CdRomBlockSize % size = 0
                /\ media' = Media(size, type)
          /\ SyncOps' \in {<<>>, <<Barrier>>, <<FlushCache>>, <<Barrier, FlushCache>>}
          /\ \/ pc' = "idle" /\ held' = held \cup {"BlockIo"} /\ UNCHANGED <<ops, then>>
             \/ pc' = "Sync" /\ ops' = SyncOps' /\ then' = "setClosing" /\ UNCHANGED held
          /\ UNCHANGED gaveUp
       \/ GiveUp /\ UNCHANGED <<held, media, SyncOps, ops, then>>
    /\ UNCHANGED <<grants, RingRef, call, IoData, front, sring, frontState, fired, asserted,
                   backend>>

-----------------------------------------------------------------------------
(* XenPvBlkDxeDriverBindingStop() and XenPvBlockFrontShutdown().           *)

XenPvBlkDxeDriverBindingStop ==
    /\ pc = "idle" /\ pc' = "Sync" /\ ops' = SyncOps /\ then' = "setClosing"
    /\ held' = held \ {"BlockIo"}
    /\ UNCHANGED <<grants, RingRef, media, SyncOps, call, IoData, front, sring, frontState,
                   fired, asserted, gaveUp, backend>>

SetState(here, state, next) ==
    /\ pc = here
    /\ \/ pc' = next /\ frontState' = state /\ UNCHANGED gaveUp
       \/ StoreMayFail /\ GiveUp /\ UNCHANGED frontState
    /\ UNCHANGED <<held, grants, RingRef, media, SyncOps, ops, then, call, IoData, front, sring,
                   fired, asserted, backend>>

\* Mutant: the driver does not wait for the backend to be closed.
ShutdownAtClosing ==
    \/ SetState("setClosing", Closing, "awaitClosing")
    \/ XenPvBlkWaitForBackendState("awaitClosing", "watchClosing", Closing, "Close")

\* Closing, Closed, and Initialising for the driver that comes next.
XenPvBlockFrontShutdown ==
    \/ SetState("setClosing", Closing, "awaitClosing")
    \/ XenPvBlkWaitForBackendState("awaitClosing", "watchClosing", Closing, "setClosed")
    \/ SetState("setClosed", Closed, "awaitClosed")
    \/ XenPvBlkWaitForBackendState("awaitClosed", "watchClosed", Closed, "setInitialising")
    \/ SetState("setInitialising", Initialising, "awaitInitWait")

AwaitInitWait ==
    /\ \/ /\ pc = "awaitInitWait"
          /\ \/ (backend.state <= InitWait \/ backend.state >= Closed) /\ pc' = "Close"
             \/ backend.state > InitWait /\ backend.state < Closed /\ pc' = "watchInitWait"
             \/ StoreMayFail /\ pc' = "Close"
          /\ UNCHANGED fired
       \/ pc = "watchInitWait" /\ fired /\ fired' = FALSE /\ pc' = "awaitInitWait"
    /\ UNCHANGED <<held, grants, RingRef, media, SyncOps, ops, then, call, IoData, front, sring,
                   frontState, asserted, gaveUp, backend>>

\* Labels Close and Error2: the watch and the nodes go.
UnregisterWatch ==
    /\ pc = "Close" /\ pc' = "Error"
    /\ held' = held \ {"Watch"} /\ fired' = FALSE
    /\ UNCHANGED <<grants, RingRef, media, SyncOps, ops, then, call, IoData, front, sring,
                   frontState, asserted, gaveUp, backend>>

\* The result of GrantEndAccess() is ignored: the page is freed in any case.
XenPvBlockFree ==
    /\ pc = "Error" /\ pc' = "unbound"
    /\ grants' = XenGrantTableEndAccess(grants, RingRef)
    /\ held' = {} /\ RingRef' = 0 /\ media' = NoMedia /\ SyncOps' = <<>>
    /\ front' = [req_prod_pvt |-> 0, rsp_cons |-> 0]
    /\ UNCHANGED <<ops, then, call, IoData, sring, frontState, fired, asserted, gaveUp, backend>>

-----------------------------------------------------------------------------
(* XenPvBlkDxeBlockIoReadWriteBlocks(), XenPvBlockIo() and                 *)
(* XenPvBlockAsyncIo().                                                    *)

\* Mutant: a block is taken for a sector of the ring.
LbaAsSector(lba, buffer, blocks) ==
    /\ pc = "idle"
    /\ ~(lba > media.LastBlock \/ blocks - 1 > media.LastBlock - lba)
    /\ pc' = "io"
    /\ call' = [Lba |-> lba, Sector |-> lba, Buffer |-> buffer,
                BufferSize |-> blocks * media.BlockSize, done |-> 0, moved |-> {}]
    /\ UNCHANGED <<held, grants, RingRef, media, SyncOps, ops, then, IoData, front, sring,
                   frontState, fired, asserted, gaveUp, backend>>

\* The buffer is aligned to Media->IoAlign: a misaligned one is replaced first.
ReadWriteBlocks(lba, buffer, blocks) ==
    /\ pc = "idle"
    /\ ~(lba > media.LastBlock \/ blocks - 1 > media.LastBlock - lba)
    /\ pc' = "io"
    /\ call' = [Lba |-> lba, Sector |-> lba * media.BlockSize, Buffer |-> buffer,
                BufferSize |-> blocks * media.BlockSize, done |-> 0, moved |-> {}]
    /\ UNCHANGED <<held, grants, RingRef, media, SyncOps, ops, then, IoData, front, sring,
                   frontState, fired, asserted, gaveUp, backend>>

Least(a, b) == IF a < b THEN a ELSE b
PageOf(a)   == a \div PageSectors
Full        == (front.req_prod_pvt - front.rsp_cons) % IdxMod = RING_SIZE

\* IoData.Size: a buffer that starts within a page touches one page more.
IoSize(address, rest) ==
    IF address % PageSectors = 0
    THEN Least(BLKIF_MAX_SEGMENTS_PER_REQUEST * PageSectors, rest)
    ELSE Least((BLKIF_MAX_SEGMENTS_PER_REQUEST - 1) * PageSectors, rest)

\* The segments of a request: their first and last sector in the page.
Segments(address, size) ==
    LET first == PageOf(address)
        last  == PageOf(address + size - 1)
    IN  [k \in 1 .. last - first + 1 |->
            [page  |-> first + k - 1,
             first |-> IF k = 1 THEN address % PageSectors ELSE 0,
             last  |-> IF k = last - first + 1 THEN (address + size - 1) % PageSectors
                                               ELSE PageSectors - 1]]

\* The grant table after access to the pages is granted, one after the other.
GrantAll(segments) ==
    LET after[k \in 0 .. Len(segments)] ==
            IF k = 0 THEN grants ELSE XenGrantTableGrantAccess(after[k - 1], segments[k].page)
    IN  after

EndAll(refs) ==
    LET after[k \in 0 .. Len(refs)] ==
            IF k = 0 THEN grants ELSE XenGrantTableEndAccess(after[k - 1], refs[k])
    IN  after[Len(refs)]

\* The ASSERT()s on a request: whole sectors of the disk, from and to an address that is
\* aligned to them, in few enough segments; and the one on the references it gets.
Alignment == {"Sector", "Size", "Buffer"}
AssertsFailed(sector, size, address, segments, refs) ==
    {name \in Alignment \cup {"NumSegments", "Ref"} :
        \/ name = "Sector" /\ sector % media.SectorSize # 0
        \/ name = "Size" /\ size % media.SectorSize # 0
        \/ name = "Buffer" /\ address % media.SectorSize # 0
        \/ name = "NumSegments" /\ Len(segments) > BLKIF_MAX_SEGMENTS_PER_REQUEST
        \/ name = "Ref" /\ \E k \in DOMAIN refs : refs[k] \notin Refs}

\* Mutant: the sector is not advanced from one request of a transfer to the next.
AsyncIoSameSector ==
    /\ pc = "io" /\ IoData.Status \in {"none", "EFI_SUCCESS"}
    /\ call.done < call.BufferSize /\ ~Full
    /\ LET sector   == call.Sector
           address  == call.Buffer + call.done
           size     == IoSize(address, call.BufferSize - call.done)
           segments == Segments(address, size)
           after    == GrantAll(segments)
           refs     == [k \in DOMAIN segments |-> NextFree(after[k - 1])]
       IN  /\ asserted' = asserted \cup AssertsFailed(sector, size, address, segments, refs)
           /\ grants' = after[Len(segments)]
           /\ IoData' = [Status |-> "EFI_ALREADY_STARTED", refs |-> refs]
           /\ sring' = [sring EXCEPT !.slot[Slot(front.req_prod_pvt)] =
                           [op |-> "BLKIF_OP_READ", sector |-> sector, refs |-> refs,
                            segments |-> segments]]
           /\ call' = [call EXCEPT !.done = @ + size]
    /\ front' = [front EXCEPT !.req_prod_pvt = EventIdx(@ + 1)]
    /\ pc' = "push"
    /\ UNCHANGED <<held, RingRef, media, SyncOps, ops, then, frontState, fired, gaveUp, backend>>

\* One request of a transfer: its slot is filled and its pages are granted.
XenPvBlockAsyncIo ==
    /\ pc = "io" /\ IoData.Status \in {"none", "EFI_SUCCESS"}
    /\ call.done < call.BufferSize /\ ~Full
    /\ LET sector   == call.Sector + call.done
           address  == call.Buffer + call.done
           size     == IoSize(address, call.BufferSize - call.done)
           segments == Segments(address, size)
           after    == GrantAll(segments)
           refs     == [k \in DOMAIN segments |-> NextFree(after[k - 1])]
       IN  /\ asserted' = asserted \cup AssertsFailed(sector, size, address, segments, refs)
           /\ grants' = after[Len(segments)]
           /\ IoData' = [Status |-> "EFI_ALREADY_STARTED", refs |-> refs]
           /\ sring' = [sring EXCEPT !.slot[Slot(front.req_prod_pvt)] =
                           [op |-> "BLKIF_OP_READ", sector |-> sector, refs |-> refs,
                            segments |-> segments]]
           /\ call' = [call EXCEPT !.done = @ + size]
    /\ front' = [front EXCEPT !.req_prod_pvt = EventIdx(@ + 1)]
    /\ pc' = "push"
    /\ UNCHANGED <<held, RingRef, media, SyncOps, ops, then, frontState, fired, gaveUp, backend>>

\* XenPvBlockPushOperation(), for one of the operations of XenPvBlockSync().
XenPvBlockPushOperation ==
    /\ pc = "Sync" /\ ops # <<>> /\ ~Full
    /\ sring' = [sring EXCEPT !.slot[Slot(front.req_prod_pvt)] =
                    [op |-> ops[1], sector |-> 0, refs |-> <<>>, segments |-> <<>>]]
    /\ ops' = Tail(ops)
    /\ front' = [front EXCEPT !.req_prod_pvt = EventIdx(@ + 1)]
    /\ pc' = "push"
    /\ UNCHANGED <<held, grants, RingRef, media, SyncOps, then, call, IoData, frontState, fired,
                   asserted, gaveUp, backend>>

Flushing == IoData.Status # "EFI_ALREADY_STARTED"

\* Mutant: the index outgrows 32 bits.
PushWithoutWrap ==
    /\ pc = "push" /\ pc' = "notify"
    /\ sring' = [sring EXCEPT !.req_prod = @ + 1]
    /\ UNCHANGED <<held, grants, RingRef, media, SyncOps, ops, then, call, IoData, front,
                   frontState, fired, asserted, gaveUp, backend>>

\* RING_PUSH_REQUESTS_AND_CHECK_NOTIFY: the requests are published, then req_event is read.
RingPushRequests ==
    /\ pc = "push" /\ pc' = "notify"
    /\ sring' = [sring EXCEPT !.req_prod = front.req_prod_pvt]
    /\ UNCHANGED <<held, grants, RingRef, media, SyncOps, ops, then, call, IoData, front,
                   frontState, fired, asserted, gaveUp, backend>>

\* Mutant: the backend is notified for the request before the one it asked for.
CheckNotifyEarly ==
    /\ pc = "notify"
    /\ backend' = IF sring.req_prod = EventIdx(sring.req_event - 1)
                  THEN [backend EXCEPT !.awake = TRUE] ELSE backend
    /\ pc' = IF Flushing THEN "Sync" ELSE "io"
    /\ UNCHANGED <<held, grants, RingRef, media, SyncOps, ops, then, call, IoData, front, sring,
                   frontState, fired, asserted, gaveUp>>

\* new - req_event < new - old, with new = old + 1.
CheckNotify ==
    /\ pc = "notify"
    /\ backend' = IF EventIdx(sring.req_prod - sring.req_event) < 1
                  THEN [backend EXCEPT !.awake = TRUE] ELSE backend
    /\ pc' = IF Flushing THEN "Sync" ELSE "io"
    /\ UNCHANGED <<held, grants, RingRef, media, SyncOps, ops, then, call, IoData, front, sring,
                   frontState, fired, asserted, gaveUp>>

Polling == \/ pc = "io" /\ (IoData.Status = "EFI_ALREADY_STARTED" \/ Full)
           \/ pc = "Sync" /\ (ops = <<>> \/ Full)

\* Mutant: one of the grants of a request is forgotten.
PollEndsOneGrant ==
    /\ Polling /\ front.rsp_cons # sring.rsp_prod
    /\ LET response == sring.slot[Slot(front.rsp_cons)]
       IN  IF response.op = "BLKIF_OP_READ"
           THEN /\ grants' = XenGrantTableEndAccess(grants, IoData.refs[1])
                /\ IoData' = [Status |-> response.status, refs |-> <<>>]
           ELSE UNCHANGED <<grants, IoData>>
    /\ front' = [front EXCEPT !.rsp_cons = EventIdx(@ + 1)]
    /\ sring' = [sring EXCEPT !.slot[Slot(front.rsp_cons)] = Empty]
    /\ UNCHANGED <<pc, held, RingRef, media, SyncOps, ops, then, call, frontState, fired,
                   asserted, gaveUp, backend>>

\* XenPvBlockAsyncIoPoll(), one response: the grants are ended and the I/O gets its status.
XenPvBlockAsyncIoPoll ==
    /\ Polling /\ front.rsp_cons # sring.rsp_prod
    /\ LET response == sring.slot[Slot(front.rsp_cons)]
       IN  IF response.op = "BLKIF_OP_READ"
           THEN /\ grants' = EndAll(IoData.refs)
                /\ IoData' = [Status |-> response.status, refs |-> <<>>]
           ELSE UNCHANGED <<grants, IoData>>
    /\ front' = [front EXCEPT !.rsp_cons = EventIdx(@ + 1)]
    /\ sring' = [sring EXCEPT !.slot[Slot(front.rsp_cons)] = Empty]
    /\ UNCHANGED <<pc, held, RingRef, media, SyncOps, ops, then, call, frontState, fired,
                   asserted, gaveUp, backend>>

\* The transfer goes on with its next request, or returns: done, or at the first error.
ReadWriteBlocksReturn ==
    /\ pc = "io"
    /\ \/ IoData.Status = "EFI_DEVICE_ERROR"
       \/ IoData.Status = "EFI_SUCCESS" /\ call.done = call.BufferSize
    /\ pc' = "idle"
    /\ call' = NoCall /\ IoData' = NoIo
    /\ UNCHANGED <<held, grants, RingRef, media, SyncOps, ops, then, front, sring, frontState,
                   fired, asserted, gaveUp, backend>>

XenPvBlkDxeBlockIoFlushBlocks ==
    /\ pc = "idle" /\ pc' = "Sync" /\ ops' = SyncOps /\ then' = "idle"
    /\ UNCHANGED <<held, grants, RingRef, media, SyncOps, call, IoData, front, sring, frontState,
                   fired, asserted, gaveUp, backend>>

\* XenPvBlockSync() ends when the ring is empty.
XenPvBlockSyncDone ==
    /\ pc = "Sync" /\ ops = <<>>
    /\ front.req_prod_pvt = front.rsp_cons
    /\ pc' = then /\ then' = "idle"
    /\ UNCHANGED <<held, grants, RingRef, media, SyncOps, ops, call, IoData, front, sring,
                   frontState, fired, asserted, gaveUp, backend>>

-----------------------------------------------------------------------------
(* The backend (external).                                                 *)

MapRefs(g, refs, mapped) ==
    [g EXCEPT !.entry = [ref \in Refs |-> IF ref \in refs THEN [@[ref] EXCEPT !.mapped = mapped]
                                                          ELSE @[ref]]]
SeqSet(s) == {s[k] : k \in DOMAIN s}

BackendConnect ==
    /\ frontState = Connected /\ backend.state = InitWait /\ RingRef # 0
    /\ backend' = [NoBackend EXCEPT !.state = Connected, !.ref = RingRef]
    /\ grants' = MapRefs(grants, {RingRef}, TRUE)
    /\ fired' = ("Watch" \in held)
    /\ UNCHANGED <<driver, sring, frontState, asserted, gaveUp>>

\* The toolstack unplugs the device.
BackendUnplug ==
    /\ backend.state \in {InitWait, Connected}
    /\ backend' = [backend EXCEPT !.state = Closing]
    /\ fired' = ("Watch" \in held)
    /\ UNCHANGED <<driver, grants, sring, frontState, asserted, gaveUp>>

\* It follows the frontend, and closes by itself when it is not connected; the ring is
\* unmapped when both are closed.
BackendFollow ==
    /\ \/ frontState = Closing /\ backend.state = Connected
          /\ backend' = [backend EXCEPT !.state = Closing] /\ UNCHANGED grants
       \/ frontState = Closed /\ backend.state \in {Connected, Closing} /\ backend.ref # 0
          /\ backend' = [NoBackend EXCEPT !.state = Closed]
          /\ grants' = MapRefs(grants, {backend.ref}, FALSE)
       \/ backend.ref = 0 /\ backend.state = Closing
          /\ backend' = [NoBackend EXCEPT !.state = Closed] /\ UNCHANGED grants
       \/ frontState = Initialising /\ backend.state = Closed
          /\ backend' = NoBackend /\ UNCHANGED grants
    /\ fired' = ("Watch" \in held)
    /\ UNCHANGED <<driver, sring, frontState, asserted, gaveUp>>

BackendTake ==
    /\ backend.ref # 0 /\ backend.awake
    /\ backend.req_cons # sring.req_prod
    /\ LET request == sring.slot[Slot(backend.req_cons)]
       IN  /\ backend' = [backend EXCEPT !.req_cons = EventIdx(@ + 1), !.checking = FALSE,
                                         !.taken = @ \cup {request}]
           /\ grants' = MapRefs(grants, SeqSet(request.refs), TRUE)
    /\ sring' = [sring EXCEPT !.slot[Slot(backend.req_cons)] = Empty]
    /\ UNCHANGED <<driver, frontState, fired, asserted, gaveUp>>

\* RING_FINAL_CHECK_FOR_REQUESTS: req_event is set, the ring is looked at again, then the
\* backend sleeps until it is notified.
BackendSleep ==
    /\ backend.ref # 0 /\ backend.awake
    /\ backend.req_cons = sring.req_prod
    /\ IF backend.checking
       THEN backend' = [backend EXCEPT !.awake = FALSE, !.checking = FALSE] /\ UNCHANGED sring
       ELSE /\ backend' = [backend EXCEPT !.checking = TRUE]
            /\ sring' = [sring EXCEPT !.req_event = EventIdx(backend.req_cons + 1)]
    /\ UNCHANGED <<driver, grants, frontState, fired, asserted, gaveUp>>

\* The sectors of a request and the memory they go to.
Moves(request) ==
    LET before[k \in 1 .. Len(request.segments) + 1] ==
            IF k = 1 THEN 0
            ELSE before[k - 1] + request.segments[k - 1].last - request.segments[k - 1].first + 1
    IN  UNION {{<<request.sector + before[k] + i - request.segments[k].first,
                  grants.entry[request.refs[k]].frame * PageSectors + i>> :
                    i \in request.segments[k].first .. request.segments[k].last} :
                  k \in DOMAIN request.segments}

\* The data is transferred or not; the pages are unmapped, then the response is published.
BackendRespond(request, status) ==
    /\ request \in backend.taken
    /\ call' = IF status = "EFI_SUCCESS" THEN [call EXCEPT !.moved = @ \cup Moves(request)]
                                         ELSE call
    /\ grants' = MapRefs(grants, SeqSet(request.refs), FALSE)
    /\ sring' = [sring EXCEPT
                    !.slot[Slot(sring.rsp_prod)] = [op |-> request.op, status |-> status],
                    !.rsp_prod = EventIdx(@ + 1)]
    /\ backend' = [backend EXCEPT !.taken = @ \ {request}]
    /\ UNCHANGED <<pc, held, RingRef, media, SyncOps, ops, then, IoData, front, frontState,
                   fired, asserted, gaveUp>>

-----------------------------------------------------------------------------
Calls ==
    \/ XenBusStart \/ XenBusStop \/ XenPvBlockFrontInitialization
    \/ XenPvBlkDxeDriverBindingStop \/ XenPvBlkDxeBlockIoFlushBlocks
    \/ \E lba \in Lbas, buffer \in Buffers, blocks \in BlockCounts :
          ReadWriteBlocks(lba, buffer, blocks)

Steps ==
    \/ PublishRing \/ RegisterWatchBackend \/ AwaitConnected \/ InstallBlockIo
    \/ XenPvBlockFrontShutdown \/ AwaitInitWait \/ UnregisterWatch \/ XenPvBlockFree
    \/ XenPvBlockAsyncIo \/ XenPvBlockPushOperation \/ RingPushRequests \/ CheckNotify
    \/ XenPvBlockAsyncIoPoll \/ ReadWriteBlocksReturn \/ XenPvBlockSyncDone

Respond ==
    \E request \in backend.taken, status \in {"EFI_SUCCESS", "EFI_DEVICE_ERROR"} :
        BackendRespond(request, status)
BackendSteps == BackendConnect \/ BackendFollow \/ BackendTake \/ BackendSleep \/ Respond

Next == Calls \/ Steps \/ BackendSteps \/ BackendUnplug

Spec == Init /\ [][Next]_vars

\* The driver polls; the backend does its work.
FairSpec == Spec /\ WF_vars(Steps) /\ WF_vars(BackendSteps)

-----------------------------------------------------------------------------
(* Properties.                                                             *)

Indices == 0 .. IdxMod - 1

TypeOK ==
    /\ held \subseteq {"Dev", "EventChannel", "Ring", "Watch", "BlockIo"}
    /\ grants.list \in [0 .. NR_GRANT_ENTRIES - 1 -> 0 .. NR_GRANT_ENTRIES - 1]
    /\ RingRef \in Refs \cup {0} /\ backend.ref \in Refs \cup {0}
    /\ {front.req_prod_pvt, front.rsp_cons, sring.req_prod, sring.req_event, sring.rsp_prod,
        backend.req_cons} \subseteq Indices
    /\ frontState \in 1 .. 6 /\ backend.state \in 1 .. 6
    /\ {fired, gaveUp} \subseteq BOOLEAN
    /\ asserted \subseteq Alignment \cup {"NumSegments", "Ref"}

\* The memory of the backend is the driver's: the ring lives as long as the backend may use
\* it, a page of a transfer until its response is out.  (Not when the driver gives up on a
\* backend because a call of the XenStore failed.)
BackendInOwnedPages ==
    /\ backend.ref # 0 /\ ~gaveUp => "Ring" \in held /\ backend.ref = RingRef
    /\ \A request \in backend.taken :
          request.refs # <<>> => pc = "io" \/ pc = "notify"
    /\ \A request \in backend.taken : \A k \in DOMAIN request.refs :
          /\ grants.entry[request.refs[k]].frame = request.segments[k].page
          /\ grants.entry[request.refs[k]].mapped

InUse == {ref \in Refs : grants.entry[ref].permit}

\* No reference is lost, handed out twice or left behind: those in use are the ring's and
\* the current request's, and all others are on the free list, also after the table was
\* set up again.  A free reference is found for every page (the ASSERT() of
\* XenGrantTableGetFreeEntry() holds), and no request has more segments than it may have.
GrantsAccounted ==
    /\ asserted \subseteq Alignment
    /\ ~gaveUp => InUse = ({RingRef} \ {0}) \cup SeqSet(IoData.refs)
    /\ pc # "off" => FreeEntries(grants, Cardinality(Refs \ InUse)) = Refs \ InUse

\* A transfer that succeeds has moved each of its blocks between the right place on the disk
\* and the right address, and nothing else, however large a block is and however the
\* transfer is split into requests and segments; and no sector is beyond the end of the disk.
TransferComplete ==
    pc = "io" /\ IoData.Status = "EFI_SUCCESS" =>
        /\ call.moved = {<<call.Lba * media.BlockSize + i, call.Buffer + i>> :
                            i \in 0 .. call.done - 1}
        /\ \A move \in call.moved : move[1] < Sectors * media.SectorSize

\* A request begins at a sector of the disk and consists of whole sectors, however the transfer
\* is cut at the segment limit: the first two ASSERT()s of XenPvBlockAsyncIo() hold.
RequestsInSectors == {"Sector", "Size"} \cap asserted = {}

\* "Can't io non-sector-aligned buffer", the third ASSERT(), does not fail.
BuffersAligned == "Buffer" \notin asserted

\* Every call of the driver returns, unless the device is unplugged time and again: no
\* notification of the backend is lost, and no change of its state is missed.  The exception
\* is a transaction that failed at its end: the driver then waits for a backend that was
\* never told of the ring.
CallsReturn ==
    <>[][~BackendUnplug]_vars =>
        (pc \notin {"off", "unbound", "idle"} ~>
            \/ pc \in {"unbound", "idle"}
            \/ pc = "watchConnected" /\ frontState # Connected)
=============================================================================
