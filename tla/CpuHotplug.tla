----------------------------- MODULE CpuHotplug -----------------------------
(***************************************************************************)
(* CPU hot-add and hot-eject in SMM: CpuHotplugSmm/*.c, its two assembly   *)
(* stubs, and the hook SmmCpuFeaturesRendezvousExit() that every CPU runs  *)
(* when it leaves SMM (Library/SmmCpuFeaturesLib).                         *)
(*                                                                         *)
(* The actors are the SMM Monarch (CPU 0, the BSP, which runs the root MMI *)
(* handler), the other CPUs, QEMU (which plugs CPUs at any time and obeys  *)
(* the hotplug registers) and the OS (which broadcasts the MMI).  The OS   *)
(* is the benign one of the cases (1.1) and (2.1) of SmbaseRelocate(): it  *)
(* does not boot a hot-added CPU before the MMI that announces it.         *)
(*                                                                         *)
(* A CPU is named by its QEMU selector; an SMBASE address by the number of *)
(* the CPU_HOT_PLUG_DATA slot it is pre-configured for.                    *)
(***************************************************************************)
EXTENDS Integers, Sequences, FiniteSets

CONSTANTS
    PossibleCpuCount,   \* mCpuHotPlugData->ArrayLength
    BootCpuCount,       \* CPUs present at boot, in slots 0 .. BootCpuCount - 1
    ArchId,             \* QEMU_CPUHP_CMD_GET_ARCH_ID: selector -> APIC ID
    HighSlots,          \* slots whose SmBase[] exceeds MAX_UINT32
    ServiceMayFail,     \* TRUE iff protocol services and port I/O may fail
    MAX_UINT64          \* no APIC ID / CPU_EJECT_QEMU_SELECTOR_INVALID

Cpus  == 0 .. PossibleCpuCount - 1
Slots == 0 .. PossibleCpuCount - 1
Bsp   == 0
SMM_DEFAULT_SMBASE == -1

ASSUME CpuCountAssumption ==
    /\ PossibleCpuCount \in Nat /\ PossibleCpuCount > 1
    /\ BootCpuCount \in Cpus \ {0}

\* APIC IDs are 32-bit numbers, distinct for distinct CPUs.
ASSUME ArchIdAssumption ==
    /\ ArchId \in [Cpus -> Nat]
    /\ \A c, d \in Cpus : ArchId[c] = ArchId[d] => c = d
    /\ MAX_UINT64 \notin Nat

ASSUME FaultAssumption == HighSlots \subseteq Slots /\ ServiceMayFail \in BOOLEAN

ApicIds == {ArchId[c] : c \in Cpus}

VARIABLES
    \* QEMU: the CPUs that exist, and the event bits of QEMU_CPUHP_R_CPU_STAT
    present, insert, remove, fwRemove,
    \* every CPU: what it executes, its SMBASE register, a latched SMI
    cpu, smbase, smiPending,
    \* FIRST_SMI_HANDLER_CONTEXT and the save state map, both at the default
    \* SMBASE and shared by all CPUs; and the last byte of the pen page
    ApicIdGate, NewSmbase, AboutToLeaveSmm, saveSmbase, SmmVacated,
    \* CPU_HOT_PLUG_DATA and CPU_HOT_EJECT_DATA
    ApicId, QemuSelectorMap, Handler,
    \* the Monarch: program counter and locals
    pc, ApmControl, CurrentSelector, Plugged, ToUnplug, NewSlot, EjectCount, Idx,
    \* the OS: CPUs whose insert event it has seen before it raised the MMI
    osSeen

qemu  == <<present, insert, remove, fwRemove>>
first == <<ApicIdGate, NewSmbase, AboutToLeaveSmm, saveSmbase, SmmVacated>>
data  == <<ApicId, QemuSelectorMap, Handler>>
mmi   == <<ApmControl, CurrentSelector, Plugged, ToUnplug, NewSlot, EjectCount, Idx>>
cpus  == <<cpu, smbase, smiPending>>
vars  == <<qemu, cpus, first, data, pc, mmi, osSeen>>

\* What a CPU other than the Monarch executes.
FirstSmi == {"knock", "update", "announce", "rsm"}   \* FirstSmiHandler.nasm
SmiExit  == {"exit", "ejectcheck", "halted"}         \* after the exit signal
CpuStates == {"absent", "reset", "pen", "run", "smm"} \cup FirstSmi \cup SmiExit

MonarchStates ==
    {"entry", "idle", "apm", "collect", "process", "boot", "expose", "ungate",
     "leaving", "vacating", "addproc", "unplug", "release", "exit", "eject",
     "clear", "dead"}

-----------------------------------------------------------------------------
(* Boot: PiSmmCpuDxeSmm has relocated the CPUs that are present.           *)

InitCpuHotEjectData ==
    /\ Handler = "NULL"
    /\ QemuSelectorMap = [s \in Slots |-> MAX_UINT64]

Init ==
    /\ present = 0 .. BootCpuCount - 1
    /\ insert = {} /\ remove = {} /\ fwRemove = {}
    /\ cpu = [c \in Cpus |-> IF c < BootCpuCount THEN "run" ELSE "absent"]
    /\ smbase = [c \in Cpus |-> IF c < BootCpuCount THEN c ELSE SMM_DEFAULT_SMBASE]
    /\ smiPending = {}
    /\ ApicIdGate \in {MAX_UINT64} \cup ApicIds     \* uninitialized SMRAM
    /\ NewSmbase = 0 /\ AboutToLeaveSmm = 0 /\ SmmVacated = 0
    /\ saveSmbase = SMM_DEFAULT_SMBASE
    /\ ApicId = [s \in Slots |-> IF s < BootCpuCount THEN ArchId[s] ELSE MAX_UINT64]
    /\ InitCpuHotEjectData
    /\ pc = "entry" /\ ApmControl = "other"
    /\ CurrentSelector = 0 /\ Plugged = <<>> /\ ToUnplug = <<>>
    /\ NewSlot = 0 /\ EjectCount = 0 /\ Idx = 0
    /\ osSeen = {}

\* Fatal: ASSERT (FALSE), CpuDeadLoop ().
Fatal == pc' = "dead"

\* Mutant: the gate is left as found.
GateNotShut == UNCHANGED ApicIdGate


SmbaseInstallFirstSmiHandler == ApicIdGate' = MAX_UINT64

\* The driver's entry point; whatever it releases on an error path, it ends
\* in the dead loop.
CpuHotplugEntry ==
    /\ pc = "entry"
    /\ \/ /\ SmbaseInstallFirstSmiHandler
          /\ pc' = "idle"
       \/ /\ ServiceMayFail
          /\ Fatal
          /\ UNCHANGED ApicIdGate
    /\ UNCHANGED <<qemu, cpus, NewSmbase, AboutToLeaveSmm, saveSmbase, SmmVacated,
                   data, mmi, osSeen>>

-----------------------------------------------------------------------------
(* QEMU and the OS (external).                                             *)

\* device_add: at any time, also in the middle of an MMI.
QemuPlug(c) ==
    /\ pc # "entry"
    /\ c \notin present
    /\ present' = present \cup {c}
    /\ insert' = insert \cup {c}
    /\ cpu' = [cpu EXCEPT ![c] = "reset"]
    /\ smbase' = [smbase EXCEPT ![c] = SMM_DEFAULT_SMBASE]
    /\ smiPending' = smiPending \ {c}
    /\ UNCHANGED <<remove, fwRemove, first, data, pc, mmi, osSeen>>

\* device_del: asks the OS to give the CPU up.
QemuRequestRemove(c) ==
    /\ pc # "entry"
    /\ c \in present \ ({Bsp} \cup remove)
    /\ remove' = remove \cup {c}
    /\ UNCHANGED <<present, insert, fwRemove, cpus, first, data, pc, mmi, osSeen>>

\* The OS offlines a CPU it runs and hands its ejection to the firmware.
OsEject(c) ==
    /\ pc = "idle"
    /\ c \in remove \ insert
    /\ cpu[c] = "run"
    /\ remove' = remove \ {c}
    /\ fwRemove' = fwRemove \cup {c}
    /\ UNCHANGED <<present, insert, cpus, first, data, pc, mmi, osSeen>>

\* After the MMI, the OS clears the insert event of a CPU it saw before the MMI
\* and boots that CPU with INIT-SIPI-SIPI.
OsOnline(c) ==
    /\ pc = "idle"
    /\ c \in osSeen
    /\ insert' = insert \ {c}
    /\ osSeen' = osSeen \ {c}
    /\ cpu' = [cpu EXCEPT ![c] =
                 CASE @ = "reset" /\ c \in smiPending -> "knock"
                   [] @ = "reset" /\ c \notin smiPending -> "run"
                   [] OTHER -> @]
    /\ UNCHANGED <<present, remove, fwRemove, smbase, smiPending, first, data, pc, mmi>>

\* The OS writes the command to ICH9_APM_CNT: a broadcast SMI.  It is latched by
\* a CPU in RESET.  The rendezvous of PiSmmCpuDxeSmm is complete only when every
\* CPU has come back out of the previous SMI.
BroadcastSmi(command) ==
    /\ pc = "idle"
    /\ \A c \in Cpus : cpu[c] \notin SmiExit
    /\ cpu' = [c \in Cpus |-> IF c # Bsp /\ cpu[c] = "run" THEN "smm" ELSE cpu[c]]
    /\ smiPending' = smiPending \cup {c \in Cpus : cpu[c] = "reset"}
    /\ osSeen' = IF command = "hotplug" THEN osSeen \cup insert ELSE osSeen
    /\ ApmControl' = command
    /\ pc' = "apm"
    /\ UNCHANGED <<qemu, smbase, first, data, CurrentSelector, Plugged, ToUnplug,
                   NewSlot, EjectCount, Idx>>

-----------------------------------------------------------------------------
(* The Monarch: CpuHotplugMmi() and QemuCpuhpCollectApicIds().             *)

CpuHotplugMmi ==
    /\ pc = "apm"
    /\ \/ ServiceMayFail /\ Fatal
       \/ ApmControl # "hotplug" /\ pc' = "release"
       \/ ApmControl = "hotplug" /\ pc' = "collect"
    /\ CurrentSelector' = 0 /\ Plugged' = <<>> /\ ToUnplug' = <<>>
    /\ NewSlot' = 0 /\ EjectCount' = 0 /\ Idx' = 0
    /\ UNCHANGED <<qemu, cpus, first, data, ApmControl, osSeen>>

\* An access to the hotplug registers fails: each accessor ends in CpuDeadLoop ().
RegisterAccessFails == ServiceMayFail /\ Fatal

Pending == insert \cup remove \cup fwRemove

SetMin(S) == CHOOSE x \in S : \A y \in S : x <= y

\* QEMU_CPUHP_CMD_GET_PENDING: the scan starts at the selector, inclusive, and
\* wraps around; without a pending event the selector stays.
GetPending(selector) ==
    IF \E c \in Pending : c >= selector
    THEN SetMin({c \in Pending : c >= selector})
    ELSE IF Pending # {} THEN SetMin(Pending) ELSE selector

ApicIdCount == PossibleCpuCount - 1

\* The event bits of the selected CPU that extend an array; a mere "remove" event
\* is left to the OS.
PlugEvent(sel)    == sel \in insert
\* Mutant: the event that is for the OS taken for the firmware's.
RemoveTakenForFwRemove(sel) == sel \in (fwRemove \cup remove) \ insert


UnplugEvent(sel)  == sel \in fwRemove \ insert

\* EFI_PROTOCOL_ERROR: "insert" guarantees "enabled" and excludes "fw_remove",
\* "fw_remove" guarantees "enabled".
InconsistentStatus(sel) ==
    \/ PlugEvent(sel) /\ (sel \in fwRemove \/ sel \notin present)
    \/ UnplugEvent(sel) /\ sel \notin present

\* EFI_BUFFER_TOO_SMALL.
ArrayFull(sel) ==
    \/ PlugEvent(sel) /\ Len(Plugged) = ApicIdCount
    \/ UnplugEvent(sel) /\ Len(ToUnplug) = ApicIdCount

\* Mutant: the scan misses the last CPU.
AdvanceStopsEarly(sel) ==
    /\ CurrentSelector' = sel + 1
    /\ pc' = IF sel + 1 < ApicIdCount THEN "collect" ELSE "process"

\* CurrentSelector++, and the loop condition.
Advance(sel) ==
    /\ CurrentSelector' = sel + 1
    /\ pc' = IF sel + 1 < PossibleCpuCount THEN "collect" ELSE "process"

\* One iteration of the scan; it never clears an event.
QemuCpuhpCollectApicIds ==
    /\ pc = "collect"
    /\ LET sel == GetPending(CurrentSelector)
           end == sel < CurrentSelector \/ sel \notin Pending
           bad == InconsistentStatus(sel) \/ ArrayFull(sel)
       IN
       \/ /\ RegisterAccessFails \/ (~end /\ bad /\ Fatal)
          /\ UNCHANGED <<CurrentSelector, Plugged, ToUnplug>>
       \/ /\ end
          /\ pc' = "process"
          /\ UNCHANGED <<CurrentSelector, Plugged, ToUnplug>>
       \/ /\ ~end /\ ~bad
          /\ Plugged' = IF PlugEvent(sel) THEN Append(Plugged, ArchId[sel])
                                          ELSE Plugged
          /\ ToUnplug' = IF UnplugEvent(sel)
                         THEN Append(ToUnplug, [id |-> ArchId[sel], selector |-> sel])
                         ELSE ToUnplug
          /\ Advance(sel)
    /\ UNCHANGED <<qemu, cpus, first, data, ApmControl, NewSlot, EjectCount, Idx, osSeen>>

-----------------------------------------------------------------------------
(* The Monarch: ProcessHotAddedCpus() and SmbaseRelocate().                *)

Known(id) == \E s \in Slots : ApicId[s] = id

\* RevokeNewSlot, then Fatal in the caller.
RevokeNewSlot ==
    /\ ApicId' = [ApicId EXCEPT ![NewSlot] = MAX_UINT64]
    /\ Fatal

\* The head of the loop over PluggedApicIds: a known CPU is skipped; another one
\* gets the first empty slot at or after NewSlot.  SmbaseRelocate() first checks
\* the SMBASE, then clears both of its flags.
ProcessHotAddedCpu ==
    /\ pc = "process"
    /\ Plugged # <<>>
    /\ LET free == {s \in Slots : s >= NewSlot /\ ApicId[s] = MAX_UINT64} IN
       \/ /\ Known(Head(Plugged))
          /\ Plugged' = Tail(Plugged)
          /\ UNCHANGED <<ApicId, NewSlot, AboutToLeaveSmm, SmmVacated, pc>>
       \/ /\ ~Known(Head(Plugged))
          /\ free # {} /\ SetMin(free) \notin HighSlots
          /\ NewSlot' = SetMin(free)
          /\ ApicId' = [ApicId EXCEPT ![SetMin(free)] = Head(Plugged)]
          /\ AboutToLeaveSmm' = 0
          /\ SmmVacated' = 0
          /\ pc' = "boot"
          /\ UNCHANGED Plugged
       \/ /\ ~Known(Head(Plugged))
          /\ \/ free = {}                       \* EFI_OUT_OF_RESOURCES
             \/ free # {} /\ SetMin(free) \in HighSlots    \* stored, revoked
          /\ Fatal
          /\ UNCHANGED <<ApicId, NewSlot, Plugged, AboutToLeaveSmm, SmmVacated>>
    /\ UNCHANGED <<qemu, cpus, ApicIdGate, NewSmbase, saveSmbase, QemuSelectorMap,
                   Handler, ApmControl, CurrentSelector, ToUnplug, EjectCount, Idx, osSeen>>

ProcessHotAddedCpusDone ==
    /\ pc = "process"
    /\ Plugged = <<>>
    /\ pc' = "unplug"
    /\ UNCHANGED <<qemu, cpus, first, data, mmi, osSeen>>

\* Mutant: without the directed SMI, a CPU plugged after the broadcast SMI starts
\* in the pen.
BootWithoutSmiIpi ==
    /\ pc = "boot"
    /\ \E c \in Cpus :
          /\ ArchId[c] = Head(Plugged)
          /\ cpu' = [cpu EXCEPT ![c] = IF c \in smiPending THEN "knock" ELSE "pen"]
          /\ smiPending' = smiPending \ {c}
          /\ saveSmbase' = SMM_DEFAULT_SMBASE
    /\ pc' = "expose"
    /\ UNCHANGED <<qemu, smbase, ApicIdGate, NewSmbase, AboutToLeaveSmm, SmmVacated,
                   data, mmi, osSeen>>

\* SendSmiIpi() latches an SMI in a CPU in RESET; SendInitSipiSipi() then starts
\* the CPU, which enters SMM before the pen's first instruction.  SMM entry at
\* the default SMBASE stores that SMBASE in the save state map there.
BootHotAddedCpu ==
    /\ pc = "boot"
    /\ \E c \in Cpus :
          /\ ArchId[c] = Head(Plugged)
          /\ cpu' = [cpu EXCEPT ![c] = IF @ = "reset" THEN "knock" ELSE @]
          /\ smiPending' = smiPending \ {c}
          /\ saveSmbase' = IF cpu[c] = "reset" THEN SMM_DEFAULT_SMBASE ELSE saveSmbase
    /\ pc' = "expose"
    /\ UNCHANGED <<qemu, smbase, ApicIdGate, NewSmbase, AboutToLeaveSmm, SmmVacated,
                   data, mmi, osSeen>>

\* Mutant: the hot-added CPU finds the SMBASE of an earlier relocation.
StaleNewSmbase ==
    /\ pc = "expose"
    /\ pc' = "ungate"
    /\ UNCHANGED <<qemu, cpus, first, data, mmi, osSeen>>

ExposeNewSmbase ==
    /\ pc = "expose"
    /\ NewSmbase' = NewSlot
    /\ pc' = "ungate"
    /\ UNCHANGED <<qemu, cpus, ApicIdGate, AboutToLeaveSmm, saveSmbase, SmmVacated,
                   data, mmi, osSeen>>

\* InterlockedCompareExchange64 (&ApicIdGate, MAX_UINT64, ApicId).
UngateHotAddedCpu ==
    /\ pc = "ungate"
    /\ \/ /\ ApicIdGate = MAX_UINT64
          /\ ApicIdGate' = Head(Plugged)
          /\ pc' = "leaving"
          /\ UNCHANGED ApicId
       \/ /\ ApicIdGate # MAX_UINT64
          /\ RevokeNewSlot                      \* EFI_PROTOCOL_ERROR
          /\ UNCHANGED ApicIdGate
    /\ UNCHANGED <<qemu, cpus, NewSmbase, AboutToLeaveSmm, saveSmbase, SmmVacated,
                   QemuSelectorMap, Handler, mmi, osSeen>>

AwaitAboutToLeaveSmm ==
    /\ pc = "leaving"
    /\ AboutToLeaveSmm = 1
    /\ pc' = "vacating"
    /\ UNCHANGED <<qemu, cpus, first, data, mmi, osSeen>>

\* Mutant: the Monarch goes on as soon as the CPU is about to leave SMM.
SmmVacatedNotAwaited ==
    /\ pc = "vacating"
    /\ pc' = "addproc"
    /\ UNCHANGED <<qemu, cpus, first, data, mmi, osSeen>>


AwaitSmmVacated ==
    /\ pc = "vacating"
    /\ SmmVacated = 1
    /\ pc' = "addproc"
    /\ UNCHANGED <<qemu, cpus, first, data, mmi, osSeen>>

AddProcessor ==
    /\ pc = "addproc"
    /\ \/ /\ NewSlot' = NewSlot + 1
          /\ Plugged' = Tail(Plugged)
          /\ pc' = "process"
          /\ UNCHANGED ApicId
       \/ /\ ServiceMayFail
          /\ RevokeNewSlot
          /\ UNCHANGED <<NewSlot, Plugged>>
    /\ UNCHANGED <<qemu, cpus, first, QemuSelectorMap, Handler, ApmControl,
                   CurrentSelector, ToUnplug, EjectCount, Idx, osSeen>>

-----------------------------------------------------------------------------
(* The hot-added CPU: FirstSmiHandler.nasm, then PostSmmPen.nasm.          *)

KnockOnGate(c) ==
    /\ cpu[c] = "knock"
    /\ ApicIdGate = ArchId[c]
    /\ ApicIdGate' = MAX_UINT64
    /\ cpu' = [cpu EXCEPT ![c] = "update"]
    /\ UNCHANGED <<qemu, smbase, smiPending, NewSmbase, AboutToLeaveSmm, saveSmbase,
                   SmmVacated, data, pc, mmi, osSeen>>

UpdateSmbase(c) ==
    /\ cpu[c] = "update"
    /\ saveSmbase' = NewSmbase
    /\ cpu' = [cpu EXCEPT ![c] = "announce"]
    /\ UNCHANGED <<qemu, smbase, smiPending, ApicIdGate, NewSmbase, AboutToLeaveSmm,
                   SmmVacated, data, pc, mmi, osSeen>>

SetAboutToLeaveSmm(c) ==
    /\ cpu[c] = "announce"
    /\ AboutToLeaveSmm' = 1
    /\ cpu' = [cpu EXCEPT ![c] = "rsm"]
    /\ UNCHANGED <<qemu, smbase, smiPending, ApicIdGate, NewSmbase, saveSmbase,
                   SmmVacated, data, pc, mmi, osSeen>>

\* RSM reloads the SMBASE register from the save state map.
Rsm(c) ==
    /\ cpu[c] = "rsm"
    /\ smbase' = [smbase EXCEPT ![c] = saveSmbase]
    /\ cpu' = [cpu EXCEPT ![c] = "pen"]
    /\ UNCHANGED <<qemu, smiPending, first, data, pc, mmi, osSeen>>

\* The pen sets its page's last byte and halts, until the OS boots the CPU.
PostSmmPen(c) ==
    /\ cpu[c] = "pen"
    /\ SmmVacated' = 1
    /\ cpu' = [cpu EXCEPT ![c] = "run"]
    /\ UNCHANGED <<qemu, smbase, smiPending, ApicIdGate, NewSmbase, AboutToLeaveSmm,
                   saveSmbase, data, pc, mmi, osSeen>>

-----------------------------------------------------------------------------
(* The Monarch: UnplugCpus().                                              *)

\* Mutant: the slot of the removed CPU stays taken.
UnplugKeepsSlot ==
    /\ pc = "unplug"
    /\ ToUnplug # <<>>
    /\ \E s \in Slots :
          /\ ApicId[s] = Head(ToUnplug).id
          /\ QemuSelectorMap' = [QemuSelectorMap EXCEPT ![s] = Head(ToUnplug).selector]
    /\ EjectCount' = EjectCount + 1
    /\ ToUnplug' = Tail(ToUnplug)
    /\ UNCHANGED <<qemu, cpus, first, ApicId, Handler, pc, ApmControl, CurrentSelector,
                   Plugged, NewSlot, Idx, osSeen>>

\* Mutant: the APIC ID is stashed in place of the QEMU selector.
UnplugStashesApicId ==
    /\ pc = "unplug"
    /\ ToUnplug # <<>>
    /\ \E s \in Slots :
          /\ ApicId[s] = Head(ToUnplug).id
          /\ ApicId' = [ApicId EXCEPT ![s] = MAX_UINT64]
          /\ QemuSelectorMap' = [QemuSelectorMap EXCEPT ![s] = Head(ToUnplug).id]
    /\ EjectCount' = EjectCount + 1
    /\ ToUnplug' = Tail(ToUnplug)
    /\ UNCHANGED <<qemu, cpus, first, Handler, pc, ApmControl, CurrentSelector,
                   Plugged, NewSlot, Idx, osSeen>>

\* RemoveProcessor() invalidates ApicId[ProcessorNum].
UnplugCpu ==
    /\ pc = "unplug"
    /\ ToUnplug # <<>>
    /\ LET head  == Head(ToUnplug)
           match == {s \in Slots : ApicId[s] = head.id}
       IN
       \/ /\ match = {}
          /\ ToUnplug' = Tail(ToUnplug)
          /\ UNCHANGED <<ApicId, QemuSelectorMap, EjectCount, pc>>
       \/ /\ match # {} /\ QemuSelectorMap[SetMin(match)] = MAX_UINT64
          /\ ApicId' = [ApicId EXCEPT ![SetMin(match)] = MAX_UINT64]
          /\ QemuSelectorMap' = [QemuSelectorMap EXCEPT ![SetMin(match)] = head.selector]
          /\ EjectCount' = EjectCount + 1
          /\ ToUnplug' = Tail(ToUnplug)
          /\ UNCHANGED pc
       \/ /\ match # {} /\ QemuSelectorMap[SetMin(match)] # MAX_UINT64
          /\ ApicId' = [ApicId EXCEPT ![SetMin(match)] = MAX_UINT64]
          /\ Fatal                              \* EFI_ALREADY_STARTED
          /\ UNCHANGED <<QemuSelectorMap, EjectCount, ToUnplug>>
       \/ /\ match # {} /\ ServiceMayFail       \* RemoveProcessor() failed
          /\ Fatal
          /\ UNCHANGED <<ApicId, QemuSelectorMap, EjectCount, ToUnplug>>
    /\ UNCHANGED <<qemu, cpus, first, Handler, ApmControl, CurrentSelector, Plugged,
                   NewSlot, Idx, osSeen>>

\* Mutant: the handler is armed from the second ejection on.
HandlerArmedLate ==
    /\ pc = "unplug"
    /\ ToUnplug = <<>>
    /\ Handler' = IF EjectCount > 1 THEN "EjectCpu" ELSE Handler
    /\ pc' = "release"
    /\ UNCHANGED <<qemu, cpus, first, ApicId, QemuSelectorMap, mmi, osSeen>>


UnplugCpusDone ==
    /\ pc = "unplug"
    /\ ToUnplug = <<>>
    /\ Handler' = IF EjectCount # 0 THEN "EjectCpu" ELSE Handler
    /\ pc' = "release"
    /\ UNCHANGED <<qemu, cpus, first, ApicId, QemuSelectorMap, mmi, osSeen>>

\* BspHandler() of PiSmmCpuDxeSmm clears AllCpusInSync.
ReleaseAps ==
    /\ pc = "release"
    /\ cpu' = [c \in Cpus |-> IF cpu[c] = "smm" THEN "exit" ELSE cpu[c]]
    /\ pc' = "exit"
    /\ UNCHANGED <<qemu, smbase, smiPending, first, data, mmi, osSeen>>

-----------------------------------------------------------------------------
(* SMI exit: SmmCpuFeaturesRendezvousExit() and EjectCpu().                *)

\* Mutant: the handler is reset before the ejections instead of after them.
HandlerResetEarly ==
    /\ pc = "exit"
    /\ pc' = IF Handler = "NULL" THEN "idle" ELSE "eject"
    /\ Handler' = "NULL"
    /\ UNCHANGED <<qemu, cpus, first, ApicId, QemuSelectorMap, mmi, osSeen>>


SmmCpuFeaturesRendezvousExitBsp ==
    /\ pc = "exit"
    /\ pc' = IF Handler = "NULL" THEN "idle" ELSE "eject"
    /\ UNCHANGED <<qemu, cpus, first, data, mmi, osSeen>>

\* QEMU_CPUHP_STAT_EJECT: QEMU stops the virtual CPU and deletes it before the
\* port write completes.
QemuEject(c) ==
    /\ present' = present \ {c}
    /\ fwRemove' = fwRemove \ {c}
    /\ cpu' = [cpu EXCEPT ![c] = "absent"]
    /\ UNCHANGED <<insert, remove>>

EjectCpuBsp ==
    /\ pc = "eject"
    /\ Idx < PossibleCpuCount
    /\ \/ /\ QemuSelectorMap[Idx] = MAX_UINT64
          /\ Idx' = Idx + 1
          /\ UNCHANGED <<qemu, cpu, pc>>
       \/ /\ QemuSelectorMap[Idx] # MAX_UINT64
          /\ \/ QemuEject(QemuSelectorMap[Idx]) /\ pc' = "clear"
             \/ RegisterAccessFails /\ UNCHANGED <<qemu, cpu>>
          /\ UNCHANGED Idx
    /\ UNCHANGED <<smbase, smiPending, first, data, ApmControl, CurrentSelector, Plugged,
                   ToUnplug, NewSlot, EjectCount, osSeen>>

EjectCpuBspClear ==
    /\ pc = "clear"
    /\ QemuSelectorMap' = [QemuSelectorMap EXCEPT ![Idx] = MAX_UINT64]
    /\ Idx' = Idx + 1
    /\ pc' = "eject"
    /\ UNCHANGED <<qemu, cpus, first, ApicId, Handler, ApmControl, CurrentSelector,
                   Plugged, ToUnplug, NewSlot, EjectCount, osSeen>>

EjectCpuBspDone ==
    /\ pc = "eject"
    /\ Idx = PossibleCpuCount
    /\ Handler' = "NULL"
    /\ pc' = "idle"
    /\ UNCHANGED <<qemu, cpus, first, ApicId, QemuSelectorMap, mmi, osSeen>>

SmmCpuFeaturesRendezvousExitAp(c) ==
    /\ cpu[c] = "exit"
    /\ cpu' = [cpu EXCEPT ![c] = IF Handler = "NULL" THEN "run" ELSE "ejectcheck"]
    /\ UNCHANGED <<qemu, smbase, smiPending, first, data, pc, mmi, osSeen>>

\* Mutant: the AP does not look its processor number up.
EjectCheckDropped(c) ==
    /\ cpu[c] = "ejectcheck"
    /\ cpu' = [cpu EXCEPT ![c] = "halted"]
    /\ UNCHANGED <<qemu, smbase, smiPending, first, data, pc, mmi, osSeen>>

\* The processor number is the slot whose SMBASE the CPU runs from.
EjectCpuAp(c) ==
    /\ cpu[c] = "ejectcheck"
    /\ cpu' = [cpu EXCEPT ![c] =
                 IF QemuSelectorMap[smbase[c]] = MAX_UINT64 THEN "run" ELSE "halted"]
    /\ UNCHANGED <<qemu, smbase, smiPending, first, data, pc, mmi, osSeen>>

-----------------------------------------------------------------------------
Monarch ==
    \/ CpuHotplugEntry \/ CpuHotplugMmi \/ QemuCpuhpCollectApicIds
    \/ ProcessHotAddedCpu \/ ProcessHotAddedCpusDone \/ BootHotAddedCpu
    \/ ExposeNewSmbase \/ UngateHotAddedCpu \/ AwaitAboutToLeaveSmm
    \/ AwaitSmmVacated \/ AddProcessor \/ UnplugCpu \/ UnplugCpusDone \/ ReleaseAps
    \/ SmmCpuFeaturesRendezvousExitBsp \/ EjectCpuBsp \/ EjectCpuBspClear
    \/ EjectCpuBspDone

HotAddedCpu(c) ==
    \/ KnockOnGate(c) \/ UpdateSmbase(c) \/ SetAboutToLeaveSmm(c) \/ Rsm(c)
    \/ PostSmmPen(c)

Ap(c) == SmmCpuFeaturesRendezvousExitAp(c) \/ EjectCpuAp(c)

Environment(c) ==
    QemuPlug(c) \/ QemuRequestRemove(c) \/ OsEject(c) \/ OsOnline(c)

Next ==
    \/ Monarch
    \/ \E command \in {"hotplug", "other"} : BroadcastSmi(command)
    \/ \E c \in Cpus : HotAddedCpu(c) \/ Ap(c) \/ Environment(c)

Spec == Init /\ [][Next]_vars

\* Every CPU that executes firmware code keeps executing; neither QEMU nor the OS
\* owes the firmware anything.
Fairness ==
    /\ WF_vars(Monarch)
    /\ \A c \in Cpus : WF_vars(HotAddedCpu(c)) /\ WF_vars(Ap(c))

FairSpec == Spec /\ Fairness

-----------------------------------------------------------------------------
(* Properties.                                                             *)

TypeOK ==
    /\ present \subseteq Cpus /\ insert \subseteq Cpus
    /\ remove \subseteq Cpus /\ fwRemove \subseteq Cpus
    /\ cpu \in [Cpus -> CpuStates]
    /\ smbase \in [Cpus -> Slots \cup {SMM_DEFAULT_SMBASE}]
    /\ smiPending \subseteq Cpus
    /\ ApicIdGate \in ApicIds \cup {MAX_UINT64}
    /\ NewSmbase \in Slots
    /\ AboutToLeaveSmm \in {0, 1} /\ SmmVacated \in {0, 1}
    /\ saveSmbase \in Slots \cup {SMM_DEFAULT_SMBASE}
    /\ ApicId \in [Slots -> ApicIds \cup {MAX_UINT64}]
    /\ QemuSelectorMap \in [Slots -> Cpus \cup {MAX_UINT64}]
    /\ Handler \in {"NULL", "EjectCpu"}
    /\ pc \in MonarchStates
    /\ ApmControl \in {"hotplug", "other"}
    /\ CurrentSelector \in Nat
    /\ Plugged \in Seq(ApicIds)
    /\ ToUnplug \in Seq([id : ApicIds, selector : Cpus])
    /\ NewSlot \in Nat /\ EjectCount \in Nat /\ Idx \in 0 .. PossibleCpuCount
    /\ osSeen \subseteq Cpus

\* Two CPUs never run SMM code from the same SMBASE (their save state maps would
\* overlap): the slot an ejected CPU gives back, SmBase[NewSlot], is handed on
\* only after that CPU is gone, and SmbaseRelocate() moves exactly one CPU to it.
SmbaseUnique ==
    \A c, d \in present :
        c # d /\ smbase[c] = smbase[d] => smbase[c] = SMM_DEFAULT_SMBASE

\* A CPU that executes outside SMM - in the OS, or halted in the pen - was
\* relocated, and CPU_HOT_PLUG_DATA has its APIC ID in the slot of its SMBASE:
\* no CPU slips into the OS unrelocated, and none that UnplugCpus() has removed
\* gets back to the OS from SmmCpuFeaturesRendezvousExit().
RunningRegistered ==
    pc # "dead" =>
        \A c \in Cpus : cpu[c] = "run" =>
            smbase[c] \in Slots /\ ApicId[smbase[c]] = ArchId[c]

\* The first SMI handler's context and save state map, at the default SMBASE, are
\* one piece of memory for all hot-added CPUs: one CPU at a time is in there.
DefaultSmbaseExclusive ==
    \A c, d \in Cpus : cpu[c] \in FirstSmi /\ cpu[d] \in FirstSmi => c = d

\* A CPU in EjectCpu()'s CpuSleep() loop is one whose ejection is still to come;
\* nobody else is penned (the comments at the reset of QemuSelectorMap[Idx]).
HaltedIsDoomed ==
    \A c \in Cpus : cpu[c] = "halted" =>
        Handler = "EjectCpu" /\ QemuSelectorMap[smbase[c]] = c

\* Between MMIs CPU_HOT_PLUG_DATA has no stale entry: each used slot belongs to a
\* CPU that exists and runs from the slot's SMBASE.  A stale one would make a
\* later hot-add of that CPU "hot-plugged before; ignoring it".
NoStaleSlot ==
    pc = "idle" =>
        \A s \in Slots : ApicId[s] # MAX_UINT64 =>
            \E c \in present : ArchId[c] = ApicId[s] /\ smbase[c] = s

\* If the services do not fail, the MMI handler never reaches its dead loop: the
\* APIC ID arrays of PossibleCpuCount - 1 elements suffice, there is a slot for
\* every CPU, the gate is shut whenever SmbaseRelocate() opens it, and
\* QemuSelectorMap[] never has a selector stashed twice ("this should never
\* happen").
NeverFatal == ~ServiceMayFail /\ HighSlots = {} => pc # "dead"

\* A CPU disappears only on the OS's request, and only after it has received the
\* BSP's SMI exit signal: EjectCpu() never ejects one with SMM work left, nor one
\* that runs in the OS.
EjectOnlyReleased ==
    [][\A c \in Cpus : c \in present /\ c \notin present' =>
          c \in fwRemove /\ cpu[c] \in SmiExit]_vars

\* Each MMI ends (the waits in SmbaseRelocate() are all answered) or was fatal.
MmiCompletes == pc # "idle" ~> pc \in {"idle", "dead"}

\* A CPU whose insert event the OS saw before it raised the MMI is in
\* CPU_HOT_PLUG_DATA afterwards, whatever the other CPUs' events are.
SeenCpuRegistered ==
    \A c \in Cpus :
        pc = "collect" /\ c \in osSeen ~> Known(ArchId[c]) \/ pc = "dead"

\* A CPU whose ejection the OS requested before the MMI is gone from QEMU.
RequestedCpuEjected ==
    \A c \in Cpus : pc = "collect" /\ c \in fwRemove ~> c \notin fwRemove \/ pc = "dead"
=============================================================================
