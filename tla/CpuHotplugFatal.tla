-------------------------- MODULE CpuHotplugFatal ---------------------------
(***************************************************************************)
(* The MMI handler never reaches its dead loop unless a service or a       *)
(* register access fails: the arrays that CpuHotplugEntry() allocates      *)
(* suffice, and there is a slot for every CPU.                             *)
(***************************************************************************)
EXTENDS CpuHotplugSafety, FiniteSetTheorems

-----------------------------------------------------------------------------
\* The scan collects at most one APIC ID per selector it has passed, and none for
\* the BSP; ProcessHotAddedCpus() leaves no empty slot behind NewSlot.
Room ==
    /\ pc = "collect" =>
          /\ Plugged = <<>> \/ Len(Plugged) < CurrentSelector
          /\ ToUnplug = <<>> \/ Len(ToUnplug) < CurrentSelector
          /\ NewSlot = 0
    /\ pc \in {"process"} \cup Relocating =>
          \A s \in Slots : s < NewSlot => ApicId[s] # MAX_UINT64

-----------------------------------------------------------------------------
(* Room is an invariant.                                                   *)

\* The BSP never has an event.
LEMMA PendingIsAp ==
    ASSUME IInv, NEW c \in Pending
    PROVE  c \in Cpus /\ c # 0 /\ c \in Nat /\ c < PossibleCpuCount
  <1>1. c \in Cpus /\ c # Bsp
    BY Types DEF IInv, Safe, Existence, Pending, TypeInv, TypeOK
  <1>. QED
    BY <1>1, Ranges DEF Bsp

LEMMA CollectRoom ==
    ASSUME IInv, Room, QemuCpuhpCollectApicIds
    PROVE  Room'
  <1>1. /\ pc = "collect" /\ TypeInv
        /\ UNCHANGED <<NewSlot, ApicId>>
    BY DEF QemuCpuhpCollectApicIds, IInv, data
  <1>2. /\ Len(Plugged) \in Nat /\ Len(ToUnplug) \in Nat /\ CurrentSelector \in Nat
        /\ NewSlot = 0
    BY <1>1, LenProperties DEF TypeInv, TypeOK, Room
  <1>3. \A s \in Slots : ~(s < NewSlot)
    BY <1>2, Ranges
  <1>4. ASSUME NEW sel \in Pending, sel >= CurrentSelector,
               Plugged' = IF PlugEvent(sel) THEN Append(Plugged, ArchId[sel]) ELSE Plugged,
               ToUnplug' = IF UnplugEvent(sel)
                           THEN Append(ToUnplug, [id |-> ArchId[sel], selector |-> sel])
                           ELSE ToUnplug,
               CurrentSelector' = sel + 1
        PROVE  /\ Plugged' = <<>> \/ Len(Plugged') < CurrentSelector'
               /\ ToUnplug' = <<>> \/ Len(ToUnplug') < CurrentSelector'
    <2>1. sel \in Nat /\ sel # 0 /\ sel \in Cpus
      BY PendingIsAp
    <2>2. /\ Len(<<>>) = 0
          /\ Plugged # <<>> => Len(Plugged) < CurrentSelector
          /\ ToUnplug # <<>> => Len(ToUnplug) < CurrentSelector
      BY <1>1 DEF Room
    <2>3. Len(Plugged) < sel /\ Len(ToUnplug) < sel
      BY <1>2, <1>4, <2>1, <2>2
    <2>4. Len(Plugged') \in {Len(Plugged), Len(Plugged) + 1}
      <3>1. Plugged \in Seq(ApicIds) /\ ArchId[sel] \in ApicIds
        BY <1>1, <2>1, Ranges DEF TypeInv, TypeOK
      <3>2. Len(Append(Plugged, ArchId[sel])) = Len(Plugged) + 1
        BY <3>1, AppendProperties
      <3>. QED
        BY <1>4, <3>2
    <2>5. Len(ToUnplug') \in {Len(ToUnplug), Len(ToUnplug) + 1}
      <3>. DEFINE E == [id : ApicIds, selector : Cpus]
                  e == [id |-> ArchId[sel], selector |-> sel]
      <3>1. ToUnplug \in Seq(E) /\ e \in E
        BY <1>1, <2>1, Ranges DEF TypeInv, TypeOK
      <3>. HIDE DEF E, e
      <3>2. Len(Append(ToUnplug, e)) = Len(ToUnplug) + 1
        BY <3>1, AppendProperties
      <3>. QED
        BY <1>4, <3>2 DEF e
    <2>. QED
      BY <1>2, <1>4, <2>1, <2>3, <2>4, <2>5
  <1>5. pc' \in {"process", "dead", "collect"}
    BY <1>1, CollectType
  <1>6. pc' = "collect" =>
          /\ Plugged' = <<>> \/ Len(Plugged') < CurrentSelector'
          /\ ToUnplug' = <<>> \/ Len(ToUnplug') < CurrentSelector'
    BY <1>1, <1>4, CollectCases DEF Advance
  <1>. QED
    BY <1>1, <1>2, <1>3, <1>5, <1>6 DEF Room, Relocating

\* Every slot before the one the handler picks is in use.
LEMMA ProcessRoom ==
    ASSUME IInv, Room, ProcessHotAddedCpu
    PROVE  Room'
  <1>. DEFINE free == {s \in Slots : s >= NewSlot /\ ApicId[s] = MAX_UINT64}
  <1>1. pc = "process" /\ TypeInv /\ NewSlot \in Nat
    BY DEF ProcessHotAddedCpu, IInv, TypeInv, TypeOK
  <1>2. CASE pc' = "boot"
    <2>1. /\ free # {} /\ NewSlot' = SetMin(free)
          /\ ApicId' = [ApicId EXCEPT ![SetMin(free)] = Head(Plugged)]
      BY <1>1, <1>2 DEF ProcessHotAddedCpu, Fatal
    <2>2. SetMin(free) \in free /\ \A s \in free : SetMin(free) <= s
      BY <2>1, SetMinIsMember, Ranges
    <2>3. ASSUME NEW s \in Slots, s < NewSlot'
          PROVE  ApicId[s] # MAX_UINT64 /\ ApicId'[s] = ApicId[s]
      <3>1. s \in Nat /\ SetMin(free) \in Nat
        BY <2>2, Ranges
      <3>2. s \notin free /\ s # SetMin(free)
        BY <2>1, <2>2, <2>3, <3>1
      <3>3. ApicId[s] # MAX_UINT64
        BY <1>1, <3>1, <3>2 DEF Room
      <3>. QED
        BY <1>1, <2>1, <3>2, <3>3, Types
    <2>. QED
      BY <1>2, <2>3 DEF Room
  <1>3. CASE pc' # "boot"
    BY <1>1, <1>3, ProcessCases DEF Room, Relocating
  <1>. QED
    BY <1>2, <1>3

LEMMA AddProcessorRoom ==
    ASSUME IInv, Room, AddProcessor
    PROVE  Room'
  <1>1. /\ pc = "addproc" /\ NewSlot \in Slots
        /\ ApicId[NewSlot] = Head(Plugged) /\ Head(Plugged) \in ApicIds
    BY LocalTypes DEF AddProcessor, IInv, Safe, Ownership, Relocating
  <1>2. CASE pc' = "process"
    <2>1. NewSlot' = NewSlot + 1 /\ UNCHANGED ApicId
      BY <1>2 DEF AddProcessor, RevokeNewSlot, Fatal
    <2>2. \A s \in Slots : s < NewSlot' => s < NewSlot \/ s = NewSlot
      BY <1>1, <2>1, Ranges
    <2>. QED
      BY <1>1, <1>2, <2>1, <2>2, Identities DEF Room, Relocating
  <1>3. CASE pc' = "dead"
    BY <1>3 DEF Room, Relocating
  <1>. QED
    BY <1>2, <1>3 DEF AddProcessor, RevokeNewSlot, Fatal

LEMMA RoomNext ==
    ASSUME IInv, Room, [Next]_vars
    PROVE  Room'
  <1>. USE DEF Room, Relocating, data, mmi
  <1>1. CASE CpuHotplugMmi
    BY <1>1 DEF CpuHotplugMmi, Fatal
  <1>2. CASE QemuCpuhpCollectApicIds
    BY <1>2, CollectRoom
  <1>3. CASE ProcessHotAddedCpu
    BY <1>3, ProcessRoom
  <1>4. CASE AddProcessor
    BY <1>4, AddProcessorRoom
  <1>5. CASE BootHotAddedCpu \/ ExposeNewSmbase \/ AwaitAboutToLeaveSmm \/ AwaitSmmVacated
    BY <1>5 DEF BootHotAddedCpu, ExposeNewSmbase, AwaitAboutToLeaveSmm, AwaitSmmVacated
  <1>6. CASE UngateHotAddedCpu
    BY <1>6 DEF UngateHotAddedCpu, RevokeNewSlot, Fatal
  <1>7. CASE \/ CpuHotplugEntry \/ ProcessHotAddedCpusDone \/ UnplugCpusDone \/ ReleaseAps
             \/ SmmCpuFeaturesRendezvousExitBsp \/ EjectCpuBsp \/ EjectCpuBspClear
             \/ EjectCpuBspDone
    BY <1>7 DEF CpuHotplugEntry, ProcessHotAddedCpusDone, UnplugCpusDone, ReleaseAps,
       SmmCpuFeaturesRendezvousExitBsp, EjectCpuBsp, EjectCpuBspClear, EjectCpuBspDone,
       QemuEject, RegisterAccessFails, Fatal
  <1>8. CASE UnplugCpu
    <2>1. pc' \in {"unplug", "dead"}
      BY <1>8, UnplugType DEF IInv
    <2>. QED
      BY <2>1
  <1>9. ASSUME NEW command \in {"hotplug", "other"}, BroadcastSmi(command)
        PROVE  Room'
    BY <1>9 DEF BroadcastSmi
  <1>10. ASSUME NEW c \in Cpus, HotAddedCpu(c) PROVE Room'
    BY <1>10 DEF HotAddedCpu, KnockOnGate, UpdateSmbase, SetAboutToLeaveSmm, Rsm, PostSmmPen
  <1>11. ASSUME NEW c \in Cpus, Ap(c) PROVE Room'
    BY <1>11 DEF Ap, SmmCpuFeaturesRendezvousExitAp, EjectCpuAp
  <1>12. ASSUME NEW c \in Cpus, Environment(c) PROVE Room'
    BY <1>12 DEF Environment, QemuPlug, QemuRequestRemove, OsEject, OsOnline
  <1>13. CASE UNCHANGED vars
    BY <1>13 DEF vars
  <1>. QED
    BY <1>1, <1>2, <1>3, <1>4, <1>5, <1>6, <1>7, <1>8, <1>9, <1>10, <1>11, <1>12, <1>13
       DEF Next, Monarch

-----------------------------------------------------------------------------
(* No step is fatal.                                                       *)

\* An unknown CPU finds an empty slot: the registered CPUs are distinct, so they
\* cannot fill every slot (pigeonhole).
LEMMA SlotForEveryCpu ==
    ASSUME IInv, Room, pc = "process", NEW c \in Cpus, ~Known(ArchId[c])
    PROVE  \E s \in Slots : s >= NewSlot /\ ApicId[s] = MAX_UINT64
  <1>. SUFFICES ASSUME \A s \in Slots : ~(s >= NewSlot /\ ApicId[s] = MAX_UINT64)
                PROVE  FALSE
    OBVIOUS
  <1>. DEFINE owner == [s \in Slots |-> CHOOSE d \in Cpus : ArchId[d] = ApicId[s]]
  <1>1. TypeInv /\ Ownership /\ NewSlot \in Nat
    BY DEF IInv, Safe, TypeInv, TypeOK
  <1>2. ASSUME NEW s \in Slots PROVE ApicId[s] \in ApicIds
    <2>1. s \in Nat
      BY Ranges
    <2>2. ApicId[s] # MAX_UINT64
      BY <1>1, <2>1 DEF Room
    <2>. QED
      BY <1>1, <2>2, Types
  <1>3. ASSUME NEW s \in Slots
        PROVE  owner[s] \in Cpus \ {c} /\ ArchId[owner[s]] = ApicId[s]
    <2>1. \E d \in Cpus : ArchId[d] = ApicId[s]
      BY <1>2, Identities
    <2>2. owner[s] \in Cpus /\ ArchId[owner[s]] = ApicId[s]
      BY <2>1
    <2>. QED
      BY <2>2 DEF Known
  <1>4. ASSUME NEW s \in Slots PROVE smbase[owner[s]] = s
    BY <1>1, <1>3 DEF Ownership, Target, Relocating
  <1>5. owner \in [Slots -> Cpus \ {c}]
    BY <1>3
  <1>6. /\ IsFiniteSet(Slots) /\ Cardinality(Slots) = PossibleCpuCount
        /\ PossibleCpuCount \in Nat
    <2>1. PossibleCpuCount \in Nat /\ PossibleCpuCount > 1
      BY CpuCountAssumption
    <2>2. 0 \in Int /\ PossibleCpuCount - 1 \in Int
      BY <2>1
    <2>3. /\ IsFiniteSet(0 .. PossibleCpuCount - 1)
          /\ Cardinality(0 .. PossibleCpuCount - 1) =
                IF 0 > PossibleCpuCount - 1 THEN 0 ELSE PossibleCpuCount - 1 - 0 + 1
      BY <2>2, FS_Interval
    <2>. QED
      BY <2>1, <2>3 DEF Slots
  <1>7. IsFiniteSet(Cpus \ {c}) /\ Cardinality(Cpus \ {c}) = PossibleCpuCount - 1
    BY <1>6, FS_RemoveElement, Ranges
  <1>8. Cardinality(Cpus \ {c}) < Cardinality(Slots)
    BY <1>6, <1>7
  <1>. HIDE DEF owner
  <1>9. \E s, t \in Slots : s # t /\ owner[s] = owner[t]
    BY <1>5, <1>6, <1>7, <1>8, FS_PigeonHole
  <1>. QED
    BY <1>4, <1>9

LEMMA CollectNotFatal ==
    ASSUME IInv, Room, QemuCpuhpCollectApicIds, ~ServiceMayFail
    PROVE  pc' # "dead"
  <1>. DEFINE sel == GetPending(CurrentSelector)
  <1>1. ASSUME sel \in Pending, sel >= CurrentSelector
        PROVE  ~InconsistentStatus(sel) /\ ~ArrayFull(sel)
    <2>. HIDE DEF sel
    <2>1. ~InconsistentStatus(sel)
      BY DEF InconsistentStatus, PlugEvent, UnplugEvent, IInv, Safe, Existence
    <2>2. sel \in Nat /\ sel # 0 /\ sel < PossibleCpuCount
      BY <1>1, PendingIsAp
    <2>3. /\ Len(Plugged) \in Nat /\ Len(ToUnplug) \in Nat /\ CurrentSelector \in Nat
          /\ pc = "collect" /\ PossibleCpuCount \in Nat /\ PossibleCpuCount > 1
      BY LenProperties, CpuCountAssumption
         DEF IInv, TypeInv, TypeOK, QemuCpuhpCollectApicIds
    <2>4. Len(Plugged) < sel /\ Len(ToUnplug) < sel
      <3>1. /\ Len(<<>>) = 0
            /\ Plugged # <<>> => Len(Plugged) < CurrentSelector
            /\ ToUnplug # <<>> => Len(ToUnplug) < CurrentSelector
        BY <2>3 DEF Room
      <3>. QED
        BY <1>1, <2>2, <2>3, <3>1
    <2>. QED
      BY <2>1, <2>2, <2>3, <2>4 DEF ArrayFull, ApicIdCount
  <1>2. sel \in Nat /\ CurrentSelector \in Nat
    BY GetPendingType DEF IInv, TypeInv, TypeOK
  <1>. QED
    BY <1>1, <1>2 DEF QemuCpuhpCollectApicIds, RegisterAccessFails, Advance

LEMMA ProcessNotFatal ==
    ASSUME IInv, Room, ProcessHotAddedCpu, HighSlots = {}
    PROVE  pc' # "dead"
  <1>1. pc = "process" /\ Plugged # <<>>
    BY DEF ProcessHotAddedCpu
  <1>2. Head(Plugged) \in ApicIds
    BY <1>1, PluggedType DEF IInv
  <1>3. PICK c \in Cpus : ArchId[c] = Head(Plugged)
    BY <1>2, Identities
  <1>4. ~Known(Head(Plugged)) => \E s \in Slots : s >= NewSlot /\ ApicId[s] = MAX_UINT64
    BY <1>1, <1>3, SlotForEveryCpu
  <1>. QED
    BY <1>1, <1>4 DEF ProcessHotAddedCpu

LEMMA UnplugNotFatal ==
    ASSUME IInv, UnplugCpu, ~ServiceMayFail
    PROVE  pc' # "dead"
  <1>. DEFINE match == {s \in Slots : ApicId[s] = Head(ToUnplug).id}
  <1>1. pc = "unplug" /\ ToUnplug # <<>>
    BY DEF UnplugCpu
  <1>2. Head(ToUnplug).id # MAX_UINT64
    BY <1>1, ToUnplugType, Identities DEF IInv
  <1>3. match # {} => SetMin(match) \in match
    BY SetMinIsMember, Ranges
  <1>4. match # {} => QemuSelectorMap[SetMin(match)] = MAX_UINT64
    BY <1>1, <1>2, <1>3 DEF IInv, Safe, Ejection, Stashed
  <1>. HIDE DEF match
  <1>. QED
    BY <1>1, <1>4 DEF UnplugCpu, match

LEMMA NotFatalNext ==
    ASSUME IInv, Room, NeverFatal, [Next]_vars
    PROVE  NeverFatal'
  <1>. SUFFICES ASSUME ~ServiceMayFail, HighSlots = {}, pc # "dead"
                PROVE  pc' # "dead"
    BY DEF NeverFatal
  <1>1. CASE CpuHotplugEntry \/ CpuHotplugMmi
    BY <1>1 DEF CpuHotplugEntry, CpuHotplugMmi
  <1>2. CASE QemuCpuhpCollectApicIds
    BY <1>2, CollectNotFatal
  <1>3. CASE ProcessHotAddedCpu
    BY <1>3, ProcessNotFatal
  <1>4. CASE UngateHotAddedCpu
    BY <1>4 DEF UngateHotAddedCpu, IInv, Safe, Handshake
  <1>5. CASE AddProcessor
    BY <1>5 DEF AddProcessor
  <1>6. CASE UnplugCpu
    BY <1>6, UnplugNotFatal
  <1>7. CASE EjectCpuBsp
    BY <1>7 DEF EjectCpuBsp, RegisterAccessFails
  <1>8. CASE \/ ProcessHotAddedCpusDone \/ BootHotAddedCpu \/ ExposeNewSmbase
             \/ AwaitAboutToLeaveSmm \/ AwaitSmmVacated \/ UnplugCpusDone \/ ReleaseAps
             \/ SmmCpuFeaturesRendezvousExitBsp \/ EjectCpuBspClear \/ EjectCpuBspDone
    BY <1>8 DEF ProcessHotAddedCpusDone, BootHotAddedCpu, ExposeNewSmbase,
       AwaitAboutToLeaveSmm, AwaitSmmVacated, UnplugCpusDone, ReleaseAps,
       SmmCpuFeaturesRendezvousExitBsp, EjectCpuBspClear, EjectCpuBspDone
  <1>9. ASSUME NEW command \in {"hotplug", "other"}, BroadcastSmi(command)
        PROVE  pc' # "dead"
    BY <1>9 DEF BroadcastSmi
  <1>10. ASSUME NEW c \in Cpus, HotAddedCpu(c) \/ Ap(c) \/ Environment(c)
         PROVE  UNCHANGED pc
    BY <1>10 DEF HotAddedCpu, KnockOnGate, UpdateSmbase, SetAboutToLeaveSmm, Rsm,
       PostSmmPen, Ap, SmmCpuFeaturesRendezvousExitAp, EjectCpuAp, Environment, QemuPlug,
       QemuRequestRemove, OsEject, OsOnline
  <1>11. CASE UNCHANGED vars
    BY <1>11 DEF vars
  <1>. QED
    BY <1>1, <1>2, <1>3, <1>4, <1>5, <1>6, <1>7, <1>8, <1>9, <1>10, <1>11
       DEF Next, Monarch

\* If no service fails, CpuHotplugMmi() never reaches CpuDeadLoop(): arrays of
\* PossibleCpuCount - 1 elements hold every event the scan can report, every unknown
\* CPU finds an empty slot at or after NewSlot, the gate is shut when
\* SmbaseRelocate() opens it, and no selector is stashed over another.
THEOREM HandlerNeverFatal == Spec => []NeverFatal
  <1>1. Init => Room /\ NeverFatal
    BY DEF Init, Room, NeverFatal, Relocating
  <1>2. IInv /\ Room /\ NeverFatal /\ [Next]_vars => Room' /\ NeverFatal'
    BY RoomNext, NotFatalNext
  <1>. QED
    BY <1>1, <1>2, Inductive, PTL DEF Spec
=============================================================================
