-------------------------- MODULE CpuHotplugProofs --------------------------
(***************************************************************************)
(* Type correctness of CpuHotplug, for every number of CPUs, every         *)
(* assignment of APIC IDs and with or without failing services; and the    *)
(* lemmas about the code's searches that the safety proofs share.          *)
(***************************************************************************)
EXTENDS CpuHotplug, SequenceTheorems, WellFoundedInduction, TLAPS

-----------------------------------------------------------------------------
(* Type correctness needs that the locals that index arrays are in range     *)
(* while they are used.                                                    *)

\* The phases of SmbaseRelocate().
Relocating == {"boot", "expose", "ungate", "leaving", "vacating", "addproc"}

LocalsInRange ==
    /\ pc \in Relocating => NewSlot \in Slots /\ Plugged # <<>>
    /\ pc = "clear" => Idx \in Slots

TypeInv == TypeOK /\ LocalsInRange

-----------------------------------------------------------------------------
(* Lemmas about the helpers.                                               *)

\* Nat is well founded.
LEMMA NatLess == \A x, y \in Nat : <<x, y>> \in OpToRel(<, Nat) <=> x < y
  BY DEF OpToRel

LEMMA MinimalNat ==
    ASSUME NEW S, S \subseteq Nat, S # {}
    PROVE  \E x \in S : \A y \in S : ~ (<<y, x>> \in OpToRel(<, Nat))
  BY WFMin, NatLessThanWellFounded, Zenon

\* The smallest member of a nonempty set of selectors or slots exists, so SetMin
\* returns it.
LEMMA SetMinIsMember ==
    ASSUME NEW S \in SUBSET Nat, S # {}
    PROVE  SetMin(S) \in S /\ \A y \in S : SetMin(S) <= y
  <1>1. \E x \in S : \A y \in S : ~ (<<y, x>> \in OpToRel(<, Nat))
    BY MinimalNat
  <1>2. \E x \in S : \A y \in S : ~ (y < x)
    BY <1>1, NatLess, Zenon
  <1>3. \E x \in S : \A y \in S : x <= y
    BY <1>2
  <1>. QED
    BY <1>3, Zenon DEF SetMin
-----------------------------------------------------------------------------
(* Type correctness.                                                       *)

\* The states' names, the APIC IDs and the array bounds, for use with the sets
\* themselves left abstract.
LEMMA StateNames ==
    /\ {"absent", "reset", "pen", "run", "smm", "knock", "update", "announce", "rsm",
        "exit", "ejectcheck", "halted"} \subseteq CpuStates
    /\ {"entry", "idle", "apm", "collect", "process", "boot", "expose", "ungate",
        "leaving", "vacating", "addproc", "unplug", "release", "exit", "eject",
        "clear", "dead"} \subseteq MonarchStates
  BY DEF CpuStates, FirstSmi, SmiExit, MonarchStates

LEMMA Ranges ==
    /\ Cpus = Slots /\ Cpus \subseteq Nat /\ Bsp \in Cpus
    /\ \A i \in Nat : i \in Slots <=> i < PossibleCpuCount
    /\ \A c \in Cpus : ArchId[c] \in ApicIds
    /\ MAX_UINT64 \notin ApicIds
    /\ PossibleCpuCount \in Nat
  BY CpuCountAssumption, ArchIdAssumption DEF Cpus, Slots, Bsp, ApicIds

\* APIC IDs identify CPUs; the markers are neither slots, CPUs nor APIC IDs.
LEMMA Identities ==
    /\ \A c, d \in Cpus : ArchId[c] = ArchId[d] => c = d
    /\ \A id \in ApicIds : \E c \in Cpus : ArchId[c] = id
    /\ MAX_UINT64 \notin ApicIds /\ MAX_UINT64 \notin Cpus
    /\ SMM_DEFAULT_SMBASE \notin Slots
  BY CpuCountAssumption, ArchIdAssumption DEF Cpus, Slots, ApicIds, SMM_DEFAULT_SMBASE

\* GET_PENDING answers with a CPU that has an event, or with the selector itself.
LEMMA GetPendingType ==
    ASSUME TypeInv
    PROVE  /\ GetPending(CurrentSelector) \in Nat
           /\ GetPending(CurrentSelector) \in Pending => GetPending(CurrentSelector) \in Cpus
  <1>. DEFINE from == {c \in Pending : c >= CurrentSelector}
  <1>1. Pending \subseteq Cpus /\ Cpus \subseteq Nat
    BY Ranges DEF Pending, TypeInv, TypeOK
  <1>2. CASE from # {}
    <2>1. SetMin(from) \in from
      BY <1>1, <1>2, SetMinIsMember
    <2>. QED
      BY <1>1, <1>2, <2>1 DEF GetPending
  <1>3. CASE from = {} /\ Pending # {}
    <2>1. SetMin(Pending) \in Pending
      BY <1>1, <1>3, SetMinIsMember
    <2>. QED
      BY <1>1, <1>3, <2>1 DEF GetPending
  <1>4. CASE from = {} /\ Pending = {}
    BY <1>4 DEF GetPending, TypeInv, TypeOK
  <1>. QED
    BY <1>2, <1>3, <1>4

LEMMA TypeInvInit == ASSUME Init PROVE TypeInv
  BY CpuCountAssumption, StateNames, Ranges
     DEF TypeInv, TypeOK, LocalsInRange, Relocating, Init, InitCpuHotEjectData, Cpus, Slots

\* The arrays of collected events, taken apart and put together.
LEMMA PluggedType ==
    ASSUME TypeInv
    PROVE  /\ Plugged # <<>> => Head(Plugged) \in ApicIds /\ Tail(Plugged) \in Seq(ApicIds)
           /\ \A c \in Cpus : Append(Plugged, ArchId[c]) \in Seq(ApicIds)
  <1>1. Plugged \in Seq(ApicIds)
    BY DEF TypeInv, TypeOK
  <1>. QED
    BY <1>1, HeadTailProperties, AppendProperties, Ranges

LEMMA ToUnplugType ==
    ASSUME TypeInv
    PROVE  /\ ToUnplug # <<>> =>
                /\ Head(ToUnplug).id \in ApicIds /\ Head(ToUnplug).selector \in Cpus
                /\ Tail(ToUnplug) \in Seq([id : ApicIds, selector : Cpus])
           /\ \A c \in Cpus : Append(ToUnplug, [id |-> ArchId[c], selector |-> c])
                                \in Seq([id : ApicIds, selector : Cpus])
  <1>. DEFINE E == [id : ApicIds, selector : Cpus]
  <1>1. ToUnplug \in Seq(E)
    BY DEF TypeInv, TypeOK
  <1>2. \A e \in E : e.id \in ApicIds /\ e.selector \in Cpus
    OBVIOUS
  <1>3. \A c \in Cpus : [id |-> ArchId[c], selector |-> c] \in E
    BY Ranges
  <1>. HIDE DEF E
  <1>4. ToUnplug # <<>> => Head(ToUnplug) \in E /\ Tail(ToUnplug) \in Seq(E)
    BY <1>1, HeadTailProperties
  <1>5. \A c \in Cpus : Append(ToUnplug, [id |-> ArchId[c], selector |-> c]) \in Seq(E)
    BY <1>1, <1>3, AppendProperties
  <1>. QED
    BY <1>2, <1>4, <1>5 DEF E

\* What the MMI handler's loops do to their arrays: the cases of the three actions
\* that search an array, with the searches' results typed.
LEMMA CollectCases ==
    ASSUME TypeInv, QemuCpuhpCollectApicIds
    PROVE  \/ /\ pc' = "dead"
              /\ UNCHANGED <<CurrentSelector, Plugged, ToUnplug>>
           \/ /\ \A c \in Pending : c < CurrentSelector
              /\ pc' = "process"
              /\ UNCHANGED <<CurrentSelector, Plugged, ToUnplug>>
           \/ \E sel \in Pending \cap Cpus :
              /\ sel >= CurrentSelector
              /\ \A c \in Pending : c >= CurrentSelector => c >= sel
              /\ ~InconsistentStatus(sel)
              /\ Plugged' = IF PlugEvent(sel) THEN Append(Plugged, ArchId[sel]) ELSE Plugged
              /\ ToUnplug' = IF UnplugEvent(sel)
                             THEN Append(ToUnplug, [id |-> ArchId[sel], selector |-> sel])
                             ELSE ToUnplug
              /\ Advance(sel)
  <1>. DEFINE sel == GetPending(CurrentSelector)
  <1>1. sel \in Nat /\ (sel \in Pending => sel \in Cpus)
    BY GetPendingType
  <1>2. CurrentSelector \in Nat /\ Pending \subseteq Nat
    BY Ranges DEF Pending, TypeInv, TypeOK
  <1>3. \/ /\ sel \in Pending /\ sel >= CurrentSelector
           /\ \A c \in Pending : c >= CurrentSelector => c >= sel
        \/ \A c \in Pending : c < CurrentSelector
    <2>. DEFINE from == {c \in Pending : c >= CurrentSelector}
    <2>1. CASE from # {}
      <3>1. from \subseteq Nat
        BY <1>2
      <3>2. SetMin(from) \in from /\ \A c \in from : SetMin(from) <= c
        BY <2>1, <3>1, SetMinIsMember
      <3>3. sel = SetMin(from)
        BY <2>1 DEF GetPending
      <3>. QED
        BY <1>1, <1>2, <3>2, <3>3
    <2>2. CASE from = {}
      BY <1>2, <2>2
    <2>. QED
      BY <2>1, <2>2
  <1>. HIDE DEF sel
  <1>4. CASE pc' = "dead"
    BY <1>4 DEF QemuCpuhpCollectApicIds, sel, RegisterAccessFails, Fatal, Advance
  <1>5. CASE pc' # "dead" /\ (sel < CurrentSelector \/ sel \notin Pending)
    BY <1>1, <1>2, <1>3, <1>5 DEF QemuCpuhpCollectApicIds, sel, RegisterAccessFails, Fatal
  <1>6. CASE /\ pc' # "dead"
             /\ ~(sel < CurrentSelector \/ sel \notin Pending)
    <2>1. /\ Plugged' = IF PlugEvent(sel) THEN Append(Plugged, ArchId[sel]) ELSE Plugged
          /\ ToUnplug' = IF UnplugEvent(sel)
                         THEN Append(ToUnplug, [id |-> ArchId[sel], selector |-> sel])
                         ELSE ToUnplug
          /\ Advance(sel)
          /\ ~InconsistentStatus(sel)
      BY <1>6 DEF QemuCpuhpCollectApicIds, sel, RegisterAccessFails, Fatal
    <2>. QED
      BY <1>1, <1>2, <1>3, <1>6, <2>1
  <1>. QED
    BY <1>4, <1>5, <1>6

LEMMA ProcessCases ==
    ASSUME TypeInv, ProcessHotAddedCpu
    PROVE  \/ /\ Known(Head(Plugged))
              /\ Plugged' = Tail(Plugged)
              /\ UNCHANGED <<ApicId, NewSlot, AboutToLeaveSmm, SmmVacated, pc>>
           \/ /\ ~Known(Head(Plugged))
              /\ \E s \in Slots :
                    /\ ApicId[s] = MAX_UINT64
                    /\ NewSlot' = s
                    /\ ApicId' = [ApicId EXCEPT ![s] = Head(Plugged)]
              /\ AboutToLeaveSmm' = 0 /\ SmmVacated' = 0
              /\ pc' = "boot"
              /\ UNCHANGED Plugged
           \/ /\ pc' = "dead"
              /\ UNCHANGED <<ApicId, NewSlot, Plugged, AboutToLeaveSmm, SmmVacated>>
  <1>. DEFINE free == {s \in Slots : s >= NewSlot /\ ApicId[s] = MAX_UINT64}
  <1>1. free # {} => SetMin(free) \in free
    BY SetMinIsMember, Ranges
  <1>2. free \subseteq {s \in Slots : ApicId[s] = MAX_UINT64}
    OBVIOUS
  <1>. HIDE DEF free
  <1>3. CASE Known(Head(Plugged))
    BY <1>3 DEF ProcessHotAddedCpu
  <1>4. CASE ~Known(Head(Plugged))
    <2>1. \/ /\ free # {}
             /\ NewSlot' = SetMin(free)
             /\ ApicId' = [ApicId EXCEPT ![SetMin(free)] = Head(Plugged)]
             /\ AboutToLeaveSmm' = 0 /\ SmmVacated' = 0 /\ pc' = "boot"
             /\ UNCHANGED Plugged
          \/ /\ pc' = "dead"
             /\ UNCHANGED <<ApicId, NewSlot, Plugged, AboutToLeaveSmm, SmmVacated>>
      BY <1>4 DEF ProcessHotAddedCpu, Fatal, free
    <2>. QED
      BY <1>1, <1>2, <1>4, <2>1
  <1>. QED
    BY <1>3, <1>4

LEMMA UnplugCases ==
    ASSUME TypeInv, UnplugCpu
    PROVE  \/ /\ ToUnplug' = Tail(ToUnplug)
              /\ UNCHANGED <<ApicId, QemuSelectorMap, EjectCount, pc>>
           \/ \E s \in Slots :
              /\ ApicId[s] = Head(ToUnplug).id
              /\ QemuSelectorMap[s] = MAX_UINT64
              /\ ApicId' = [ApicId EXCEPT ![s] = MAX_UINT64]
              /\ QemuSelectorMap' = [QemuSelectorMap EXCEPT ![s] = Head(ToUnplug).selector]
              /\ EjectCount' = EjectCount + 1
              /\ ToUnplug' = Tail(ToUnplug)
              /\ UNCHANGED pc
           \/ \E s \in Slots :
              /\ ApicId' \in {ApicId, [ApicId EXCEPT ![s] = MAX_UINT64]}
              /\ pc' = "dead"
              /\ UNCHANGED <<QemuSelectorMap, EjectCount, ToUnplug>>
  <1>. DEFINE match == {s \in Slots : ApicId[s] = Head(ToUnplug).id}
  <1>1. match # {} => SetMin(match) \in match
    BY SetMinIsMember, Ranges
  <1>2. match = {s \in Slots : ApicId[s] = Head(ToUnplug).id}
    OBVIOUS
  <1>. HIDE DEF match
  <1>3. \/ /\ ToUnplug' = Tail(ToUnplug)
           /\ UNCHANGED <<ApicId, QemuSelectorMap, EjectCount, pc>>
        \/ /\ match # {} /\ QemuSelectorMap[SetMin(match)] = MAX_UINT64
           /\ ApicId' = [ApicId EXCEPT ![SetMin(match)] = MAX_UINT64]
           /\ QemuSelectorMap' =
                 [QemuSelectorMap EXCEPT ![SetMin(match)] = Head(ToUnplug).selector]
           /\ EjectCount' = EjectCount + 1
           /\ ToUnplug' = Tail(ToUnplug)
           /\ UNCHANGED pc
        \/ /\ match # {}
           /\ ApicId' \in {ApicId, [ApicId EXCEPT ![SetMin(match)] = MAX_UINT64]}
           /\ pc' = "dead"
           /\ UNCHANGED <<QemuSelectorMap, EjectCount, ToUnplug>>
    BY Zenon DEF UnplugCpu, Fatal, match
  <1>. QED
    BY <1>1, <1>2, <1>3

LEMMA CollectType ==
    ASSUME TypeInv, QemuCpuhpCollectApicIds
    PROVE  /\ Plugged' \in Seq(ApicIds)
           /\ ToUnplug' \in Seq([id : ApicIds, selector : Cpus])
           /\ CurrentSelector' \in Nat
           /\ pc' \in {"process", "dead", "collect"}
  <1>1. /\ Plugged \in Seq(ApicIds)
        /\ ToUnplug \in Seq([id : ApicIds, selector : Cpus])
        /\ CurrentSelector \in Nat
    BY DEF TypeInv, TypeOK
  <1>2. CASE /\ pc' \in {"process", "dead"}
             /\ UNCHANGED <<CurrentSelector, Plugged, ToUnplug>>
    BY <1>1, <1>2
  <1>3. ASSUME NEW sel \in Cpus,
               Plugged' \in {Plugged, Append(Plugged, ArchId[sel])},
               ToUnplug' \in {ToUnplug,
                              Append(ToUnplug, [id |-> ArchId[sel], selector |-> sel])},
               Advance(sel)
        PROVE  /\ Plugged' \in Seq(ApicIds)
               /\ ToUnplug' \in Seq([id : ApicIds, selector : Cpus])
               /\ CurrentSelector' \in Nat
               /\ pc' \in {"process", "collect"}
    <2>1. Plugged' \in Seq(ApicIds)
      BY <1>1, <1>3, PluggedType
    <2>2. ToUnplug' \in Seq([id : ApicIds, selector : Cpus])
      BY <1>1, <1>3, ToUnplugType, Zenon
    <2>3. CurrentSelector' \in Nat /\ pc' \in {"process", "collect"}
      BY <1>3, Ranges DEF Advance
    <2>. QED
      BY <2>1, <2>2, <2>3
  <1>. QED
    BY <1>2, <1>3, CollectCases

LEMMA ProcessType ==
    ASSUME TypeInv, ProcessHotAddedCpu
    PROVE  /\ Plugged' \in Seq(ApicIds) /\ NewSlot' \in Nat
           /\ ApicId' \in [Slots -> ApicIds \cup {MAX_UINT64}]
           /\ AboutToLeaveSmm' \in {0, 1} /\ SmmVacated' \in {0, 1}
           /\ pc' \in {"process", "dead", "boot"}
           /\ pc' = "boot" => Plugged' # <<>> /\ NewSlot' \in Slots
  <1>1. /\ Plugged \in Seq(ApicIds) /\ NewSlot \in Nat
        /\ ApicId \in [Slots -> ApicIds \cup {MAX_UINT64}]
        /\ AboutToLeaveSmm \in {0, 1} /\ SmmVacated \in {0, 1}
    BY DEF TypeInv, TypeOK
  <1>2. pc = "process" /\ Plugged # <<>>
    BY DEF ProcessHotAddedCpu
  <1>3. Head(Plugged) \in ApicIds /\ Tail(Plugged) \in Seq(ApicIds)
    BY <1>2, PluggedType
  <1>. QED
    BY <1>1, <1>2, <1>3, ProcessCases, Ranges

LEMMA UnplugType ==
    ASSUME TypeInv, UnplugCpu
    PROVE  /\ ToUnplug' \in Seq([id : ApicIds, selector : Cpus])
           /\ ApicId' \in [Slots -> ApicIds \cup {MAX_UINT64}]
           /\ QemuSelectorMap' \in [Slots -> Cpus \cup {MAX_UINT64}]
           /\ EjectCount' \in Nat
           /\ pc' \in {"unplug", "dead"}
  <1>. DEFINE E == [id : ApicIds, selector : Cpus]
  <1>1. /\ ToUnplug \in Seq(E)
        /\ ApicId \in [Slots -> ApicIds \cup {MAX_UINT64}]
        /\ QemuSelectorMap \in [Slots -> Cpus \cup {MAX_UINT64}]
        /\ EjectCount \in Nat
    BY DEF TypeInv, TypeOK
  <1>2. pc = "unplug" /\ ToUnplug # <<>>
    BY DEF UnplugCpu
  <1>3. Head(ToUnplug).selector \in Cpus /\ Tail(ToUnplug) \in Seq(E)
    BY <1>2, ToUnplugType
  <1>. HIDE DEF E
  <1>4. /\ ToUnplug' \in Seq(E)
        /\ ApicId' \in [Slots -> ApicIds \cup {MAX_UINT64}]
        /\ QemuSelectorMap' \in [Slots -> Cpus \cup {MAX_UINT64}]
        /\ EjectCount' \in Nat
        /\ pc' \in {"unplug", "dead"}
    <2>1. CASE /\ ToUnplug' = Tail(ToUnplug)
               /\ UNCHANGED <<ApicId, QemuSelectorMap, EjectCount, pc>>
      BY <1>1, <1>2, <1>3, <2>1
    <2>2. ASSUME NEW s \in Slots,
                 ApicId' = [ApicId EXCEPT ![s] = MAX_UINT64],
                 QemuSelectorMap' = [QemuSelectorMap EXCEPT ![s] = Head(ToUnplug).selector],
                 EjectCount' = EjectCount + 1, ToUnplug' = Tail(ToUnplug), UNCHANGED pc
          PROVE  <1>4!:
      BY <1>1, <1>2, <1>3, <2>2
    <2>3. ASSUME NEW s \in Slots,
                 ApicId' \in {ApicId, [ApicId EXCEPT ![s] = MAX_UINT64]},
                 pc' = "dead", UNCHANGED <<QemuSelectorMap, EjectCount, ToUnplug>>
          PROVE  <1>4!:
      BY <1>1, <2>3
    <2>. QED
      BY <2>1, <2>2, <2>3, UnplugCases
  <1>. QED
    BY <1>4 DEF E

LEMMA TypeInvNext == ASSUME TypeInv, [Next]_vars PROVE TypeInv'
  <1>. USE StateNames, Ranges
         DEF TypeInv, TypeOK, LocalsInRange, Relocating, qemu, first, data, mmi, cpus
  <1>1. CASE CpuHotplugEntry
    BY <1>1 DEF CpuHotplugEntry, SmbaseInstallFirstSmiHandler, Fatal
  <1>2. CASE CpuHotplugMmi
    BY <1>2, SMTT(30) DEF CpuHotplugMmi, Fatal
  <1>3. CASE QemuCpuhpCollectApicIds
    <2>1. pc = "collect" /\ UNCHANGED <<qemu, cpus, first, data, ApmControl, NewSlot,
                                       EjectCount, Idx, osSeen>>
      BY <1>3 DEF QemuCpuhpCollectApicIds
    <2>. QED
      BY <1>3, <2>1, CollectType
  <1>4. CASE ProcessHotAddedCpu
    <2>1. pc = "process" /\ UNCHANGED <<qemu, cpus, ApicIdGate, NewSmbase, saveSmbase,
              QemuSelectorMap, Handler, ApmControl, CurrentSelector, ToUnplug, EjectCount,
              Idx, osSeen>>
      BY <1>4 DEF ProcessHotAddedCpu
    <2>. QED
      BY <1>4, <2>1, ProcessType
  <1>5. CASE ProcessHotAddedCpusDone
    BY <1>5 DEF ProcessHotAddedCpusDone
  <1>6. CASE BootHotAddedCpu
    BY <1>6, SMTT(30) DEF BootHotAddedCpu
  <1>7. CASE ExposeNewSmbase
    BY <1>7 DEF ExposeNewSmbase
  <1>8. CASE UngateHotAddedCpu
    <2>1. Head(Plugged) \in ApicIds /\ NewSlot \in Slots
      BY <1>8, PluggedType DEF UngateHotAddedCpu
    <2>. QED
      BY <1>8, <2>1 DEF UngateHotAddedCpu, RevokeNewSlot, Fatal
  <1>9. CASE AwaitAboutToLeaveSmm
    BY <1>9 DEF AwaitAboutToLeaveSmm
  <1>10. CASE AwaitSmmVacated
    BY <1>10 DEF AwaitSmmVacated
  <1>11. CASE AddProcessor
    <2>1. Tail(Plugged) \in Seq(ApicIds) /\ NewSlot \in Slots
      BY <1>11, PluggedType DEF AddProcessor
    <2>2. CASE pc' = "process"
      <3>1. /\ NewSlot' = NewSlot + 1 /\ Plugged' = Tail(Plugged) /\ UNCHANGED ApicId
            /\ UNCHANGED <<qemu, cpus, first, QemuSelectorMap, Handler, ApmControl,
                           CurrentSelector, ToUnplug, EjectCount, Idx, osSeen>>
        BY <1>11, <2>2 DEF AddProcessor, RevokeNewSlot, Fatal
      <3>2. NewSlot' \in Nat
        BY <2>1, <3>1
      <3>. QED
        BY <2>1, <2>2, <3>1, <3>2
    <2>3. CASE RevokeNewSlot
      BY <1>11, <2>1, <2>3 DEF AddProcessor, RevokeNewSlot, Fatal
    <2>. QED
      BY <1>11, <2>2, <2>3 DEF AddProcessor
  <1>12. CASE UnplugCpu
    <2>1. pc = "unplug" /\ UNCHANGED <<qemu, cpus, first, Handler, ApmControl,
              CurrentSelector, Plugged, NewSlot, Idx, osSeen>>
      BY <1>12 DEF UnplugCpu
    <2>. QED
      BY <1>12, <2>1, UnplugType
  <1>13. CASE UnplugCpusDone
    BY <1>13 DEF UnplugCpusDone
  <1>14. CASE ReleaseAps
    BY <1>14 DEF ReleaseAps
  <1>15. CASE SmmCpuFeaturesRendezvousExitBsp
    BY <1>15 DEF SmmCpuFeaturesRendezvousExitBsp
  <1>16. CASE EjectCpuBsp
    <2>1. Idx \in Slots
      BY <1>16 DEF EjectCpuBsp
    <2>2. CASE QemuSelectorMap[Idx] = MAX_UINT64
      <3>1. Idx' = Idx + 1 /\ UNCHANGED <<qemu, cpu, pc>>
        BY <1>16, <2>2 DEF EjectCpuBsp
      <3>2. Idx' \in 0 .. PossibleCpuCount /\ pc = "eject"
        BY <1>16, <2>1, <3>1 DEF EjectCpuBsp
      <3>3. UNCHANGED <<smbase, smiPending, first, data, ApmControl, CurrentSelector,
                        Plugged, ToUnplug, NewSlot, EjectCount, osSeen>>
        BY <1>16 DEF EjectCpuBsp
      <3>. QED
        BY <3>1, <3>2, <3>3
    <2>3. CASE QemuSelectorMap[Idx] # MAX_UINT64 /\ pc' = "dead"
      BY <1>16, <2>1, <2>3 DEF EjectCpuBsp, QemuEject, RegisterAccessFails, Fatal
    <2>4. CASE QemuSelectorMap[Idx] # MAX_UINT64 /\ pc' # "dead"
      <3>1. cpu' = [cpu EXCEPT ![QemuSelectorMap[Idx]] = "absent"]
        BY <1>16, <2>4 DEF EjectCpuBsp, QemuEject, RegisterAccessFails, Fatal
      <3>2. /\ present' \subseteq present /\ fwRemove' \subseteq fwRemove
            /\ pc' = "clear" /\ UNCHANGED <<insert, remove, Idx>>
        BY <1>16, <2>4 DEF EjectCpuBsp, QemuEject, RegisterAccessFails, Fatal
      <3>3. UNCHANGED <<smbase, smiPending, first, data, ApmControl, CurrentSelector,
                        Plugged, ToUnplug, NewSlot, EjectCount, osSeen>>
        BY <1>16 DEF EjectCpuBsp
      <3>. QED
        BY <2>1, <3>1, <3>2, <3>3
    <2>. QED
      BY <2>2, <2>3, <2>4
  <1>17. CASE EjectCpuBspClear
    BY <1>17 DEF EjectCpuBspClear
  <1>18. CASE EjectCpuBspDone
    BY <1>18 DEF EjectCpuBspDone
  <1>19. ASSUME NEW command \in {"hotplug", "other"}, BroadcastSmi(command)
        PROVE  TypeInv'
    BY <1>19 DEF BroadcastSmi
  <1>20. ASSUME NEW c \in Cpus, KnockOnGate(c) PROVE TypeInv'
    BY <1>20 DEF KnockOnGate
  <1>21. ASSUME NEW c \in Cpus, UpdateSmbase(c) PROVE TypeInv'
    BY <1>21 DEF UpdateSmbase
  <1>22. ASSUME NEW c \in Cpus, SetAboutToLeaveSmm(c) PROVE TypeInv'
    BY <1>22 DEF SetAboutToLeaveSmm
  <1>23. ASSUME NEW c \in Cpus, Rsm(c) PROVE TypeInv'
    BY <1>23 DEF Rsm
  <1>24. ASSUME NEW c \in Cpus, PostSmmPen(c) PROVE TypeInv'
    BY <1>24 DEF PostSmmPen
  <1>25. ASSUME NEW c \in Cpus, SmmCpuFeaturesRendezvousExitAp(c) PROVE TypeInv'
    BY <1>25 DEF SmmCpuFeaturesRendezvousExitAp
  <1>26. ASSUME NEW c \in Cpus, EjectCpuAp(c) PROVE TypeInv'
    BY <1>26 DEF EjectCpuAp
  <1>27. ASSUME NEW c \in Cpus, QemuPlug(c) PROVE TypeInv'
    BY <1>27 DEF QemuPlug
  <1>28. ASSUME NEW c \in Cpus, QemuRequestRemove(c) PROVE TypeInv'
    BY <1>28 DEF QemuRequestRemove
  <1>29. ASSUME NEW c \in Cpus, OsEject(c) PROVE TypeInv'
    BY <1>29 DEF OsEject
  <1>30. ASSUME NEW c \in Cpus, OsOnline(c) PROVE TypeInv'
    BY <1>30 DEF OsOnline
  <1>31. CASE UNCHANGED vars
    BY <1>31 DEF vars
  <1>. QED
    BY <1>1, <1>2, <1>3, <1>4, <1>5, <1>6, <1>7, <1>8, <1>9, <1>10, <1>11, <1>12,
       <1>13, <1>14, <1>15, <1>16, <1>17, <1>18, <1>19, <1>20, <1>21, <1>22, <1>23,
       <1>24, <1>25, <1>26, <1>27, <1>28, <1>29, <1>30, <1>31
       DEF Next, Monarch, HotAddedCpu, Ap, Environment

\* Every variable keeps its type; in particular every array index the MMI handler,
\* EjectCpu() and FirstSmiHandler.nasm use is in range.
THEOREM TypeCorrect == Spec => []TypeOK
  <1>1. Init => TypeInv
    BY TypeInvInit
  <1>2. TypeInv /\ [Next]_vars => TypeInv'
    BY TypeInvNext
  <1>3. TypeInv => TypeOK
    BY DEF TypeInv
  <1>. QED
    BY <1>1, <1>2, <1>3, PTL DEF Spec
=============================================================================
