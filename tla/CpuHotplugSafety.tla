-------------------------- MODULE CpuHotplugSafety --------------------------
(***************************************************************************)
(* The safety of CPU hotplug, for every number of CPUs: an inductive       *)
(* invariant of CpuHotplug, and the theorems that follow from it.          *)
(***************************************************************************)
EXTENDS CpuHotplugProofs

-----------------------------------------------------------------------------
(* The inductive invariant, by subject.                                    *)

\* The phases of the MMI up to the exit signal, and after it.
BeforeExit == {"apm", "collect", "process", "unplug", "release"} \cup Relocating
AfterExit  == {"exit", "eject", "clear"}

\* What QEMU's event bits and the CPU states say of each other.
Existence ==
    /\ \A c \in Cpus : c \in present <=> cpu[c] # "absent"
    /\ insert \subseteq present /\ osSeen \subseteq insert
    /\ fwRemove \subseteq present \ insert
    /\ cpu[Bsp] = "run" /\ smbase[Bsp] \in Slots
    /\ Bsp \notin insert /\ Bsp \notin remove /\ Bsp \notin fwRemove

\* Where a CPU is in its life tells whether it has been relocated, and when it can
\* be there.
Phases ==
    \A c \in Cpus :
        /\ cpu[c] \in {"reset"} \cup FirstSmi => smbase[c] = SMM_DEFAULT_SMBASE
        /\ cpu[c] \in {"pen", "run", "smm"} \cup SmiExit => smbase[c] \in Slots
        /\ cpu[c] = "smm" => pc \in BeforeExit \cup {"dead"}
        /\ cpu[c] \in SmiExit => pc \in AfterExit \cup {"idle", "dead"}
        /\ c \in fwRemove /\ pc \in BeforeExit => cpu[c] = "smm"
        /\ c \in fwRemove => cpu[c] \in {"run", "smm"} \cup SmiExit

\* The handshake of SmbaseRelocate() and the first SMI handler.
Target(c) == pc \in Relocating /\ Head(Plugged) = ArchId[c]

Handshake ==
    /\ pc \notin {"entry", "dead", "leaving"} => ApicIdGate = MAX_UINT64
    /\ pc \in {"boot", "expose", "ungate"} => AboutToLeaveSmm = 0 /\ SmmVacated = 0
    /\ pc \in {"ungate", "leaving"} => NewSmbase = NewSlot
    /\ \A c \in Cpus :
        /\ cpu[c] \in FirstSmi \cup {"pen"} => Target(c) /\ pc # "addproc"
        /\ Target(c) =>
            /\ pc = "boot" => cpu[c] = "reset"
            /\ pc \in {"expose", "ungate"} => cpu[c] = "knock"
            /\ pc = "leaving" => cpu[c] \in FirstSmi \cup {"pen", "run"}
            /\ pc = "vacating" => cpu[c] \in {"rsm", "pen", "run"}
            /\ pc = "addproc" => cpu[c] = "run"
            /\ pc = "leaving" /\ cpu[c] = "knock" => ApicIdGate = ArchId[c]
            /\ pc = "leaving" /\ cpu[c] # "knock" => ApicIdGate = MAX_UINT64
            /\ cpu[c] \in {"knock", "update", "announce"} => AboutToLeaveSmm = 0
            /\ cpu[c] \in FirstSmi \cup {"pen"} => SmmVacated = 0
            /\ cpu[c] \in {"announce", "rsm"} => saveSmbase = NewSlot
            /\ cpu[c] \in {"pen", "run"} => smbase[c] = NewSlot

\* Whose slot is it: a relocated CPU is registered under its SMBASE, or
\* UnplugCpus() has stashed its selector there and it has not left SMM since.
Stashed(s) == QemuSelectorMap[s] # MAX_UINT64 /\ ~(pc = "clear" /\ s = Idx)

Ownership ==
    pc # "dead" =>
    /\ \A c \in present : smbase[c] \in Slots =>
          \/ ApicId[smbase[c]] = ArchId[c]
          \/ Stashed(smbase[c]) /\ QemuSelectorMap[smbase[c]] = c
    /\ \A s \in Slots, c \in Cpus : ApicId[s] = ArchId[c] =>
          /\ c \in present
          /\ \/ smbase[c] = s
             \/ Target(c) /\ s = NewSlot /\ smbase[c] = SMM_DEFAULT_SMBASE
    /\ pc \in Relocating => ApicId[NewSlot] = Head(Plugged)

\* The ejection: what is stashed, and who may still look at it.
Ejection ==
    /\ \A s \in Slots : Stashed(s) =>
          LET c == QemuSelectorMap[s] IN
          /\ pc \in AfterExit \cup {"unplug", "release", "dead"}
          /\ pc = "unplug" => EjectCount # 0
          /\ pc \in {"release", "exit", "eject", "clear"} => Handler = "EjectCpu"
          /\ c \in fwRemove
          /\ smbase[c] = s /\ ApicId[s] = MAX_UINT64
          /\ cpu[c] \in {"smm"} \cup SmiExit
          /\ cpu[c] \in SmiExit => Handler = "EjectCpu"
    /\ pc = "clear" =>
          /\ QemuSelectorMap[Idx] # MAX_UINT64 /\ ApicId[Idx] = MAX_UINT64
          /\ \A c \in present : smbase[c] # Idx
          /\ Handler = "EjectCpu"
    /\ pc \in {"eject", "clear"} => \A s \in Slots : s < Idx => QemuSelectorMap[s]
       = MAX_UINT64
    /\ pc = "idle" => \A s \in Slots : QemuSelectorMap[s] = MAX_UINT64
    /\ Handler = "EjectCpu" => pc \in AfterExit \cup {"release", "dead"}
    /\ \A c \in Cpus : cpu[c] = "halted" =>
          /\ Stashed(smbase[c]) /\ QemuSelectorMap[smbase[c]] = c
          /\ Handler = "EjectCpu"
    /\ pc \in (BeforeExit \ {"apm"}) \cup {"exit"} => Idx = 0

\* What the scan has collected: CPUs with the event still set; and an insert event
\* the OS has seen is not lost before the CPU is registered.
Collection ==
    /\ pc \in {"collect", "process"} \cup Relocating =>
          \A id \in Range(Plugged) : \E c \in insert : ArchId[c] = id
    /\ pc \in BeforeExit \ {"apm"} =>
          \A e \in Range(ToUnplug) :
              e.selector \in fwRemove /\ e.id = ArchId[e.selector]
    /\ \A c \in osSeen :
          \/ Known(ArchId[c])
          \/ pc = "dead"
          \/ pc = "apm" /\ ApmControl = "hotplug"
          \/ pc = "collect" /\ CurrentSelector <= c
          \/ pc \in {"collect", "process"} \cup Relocating /\ ArchId[c] \in Range(Plugged)

Safe ==
    /\ Existence /\ Phases /\ Handshake /\ Ownership /\ Ejection /\ Collection
    /\ SmbaseUnique

IInv == TypeInv /\ Safe

-----------------------------------------------------------------------------
(* Lemmas.                                                                 *)

\* The elements of a sequence.
LEMMA RangeEmpty == Range(<<>>) = {}
  BY DEF Range

LEMMA RangeHeadTail ==
    ASSUME NEW S, NEW s \in Seq(S), s # <<>>
    PROVE  Range(s) = {Head(s)} \cup Range(Tail(s))
  <1>1. /\ Len(Tail(s)) = Len(s) - 1 /\ Tail(s) \in Seq(S)
        /\ \A i \in 1 .. Len(Tail(s)) : Tail(s)[i] = s[i + 1]
    BY HeadTailProperties
  <1>2. Len(s) \in Nat /\ Len(s) # 0 /\ Head(s) = s[1]
    BY EmptySeq
  <1>3. /\ Range(s) = {s[i] : i \in 1 .. Len(s)}
        /\ Range(Tail(s)) = {Tail(s)[i] : i \in 1 .. Len(Tail(s))}
    BY <1>1, RangeEquality
  <1>4. ASSUME NEW i \in 1 .. Len(s)
        PROVE  s[i] \in {Head(s)} \cup Range(Tail(s))
    <2>1. CASE i = 1
      BY <1>2, <2>1
    <2>2. CASE i # 1
      <3>1. i - 1 \in 1 .. Len(Tail(s)) /\ (i - 1) + 1 = i
        BY <1>1, <1>2, <2>2
      <3>2. Tail(s)[i - 1] = s[i]
        BY <1>1, <3>1
      <3>. QED
        BY <1>3, <3>1, <3>2
    <2>. QED
      BY <2>1, <2>2
  <1>5. ASSUME NEW i \in 1 .. Len(Tail(s))
        PROVE  Tail(s)[i] \in Range(s)
    <2>1. i + 1 \in 1 .. Len(s) /\ Tail(s)[i] = s[i + 1]
      BY <1>1, <1>2
    <2>. QED
      BY <1>3, <2>1
  <1>6. Head(s) \in Range(s)
    <2>1. 1 \in 1 .. Len(s)
      BY <1>2
    <2>. QED
      BY <1>2, <1>3, <2>1
  <1>. QED
    BY <1>3, <1>4, <1>5, <1>6

LEMMA RangeAppend ==
    ASSUME NEW S, NEW s \in Seq(S), NEW e \in S
    PROVE  Range(Append(s, e)) = Range(s) \cup {e}
  <1>. DEFINE t == Append(s, e)
  <1>1. /\ t \in Seq(S) /\ Len(t) = Len(s) + 1
        /\ \A i \in 1 .. Len(s) : t[i] = s[i]
        /\ t[Len(s) + 1] = e
    BY AppendProperties
  <1>2. /\ Range(s) = {s[i] : i \in 1 .. Len(s)} /\ Range(t) = {t[i] : i \in 1 .. Len(t)}
        /\ Len(s) \in Nat
    BY <1>1, RangeEquality, LenProperties
  <1>. HIDE DEF t
  <1>. QED
    BY <1>1, <1>2 DEF t

\* The parts of the type invariant the steps below need.
LEMMA Types ==
    ASSUME TypeInv
    PROVE  /\ cpu \in [Cpus -> CpuStates]
           /\ smbase \in [Cpus -> Slots \cup {SMM_DEFAULT_SMBASE}]
           /\ ApicId \in [Slots -> ApicIds \cup {MAX_UINT64}]
           /\ QemuSelectorMap \in [Slots -> Cpus \cup {MAX_UINT64}]
           /\ present \subseteq Cpus /\ insert \subseteq Cpus /\ fwRemove \subseteq Cpus
           /\ osSeen \subseteq Cpus
  BY DEF TypeInv, TypeOK

LEMMA LocalTypes ==
    ASSUME TypeInv
    PROVE  /\ pc \in MonarchStates
           /\ pc \in Relocating =>
                NewSlot \in Slots /\ Plugged # <<>> /\ Head(Plugged) \in ApicIds
           /\ pc = "clear" => Idx \in Slots
           /\ Idx \in 0 .. PossibleCpuCount /\ CurrentSelector \in Nat /\
              EjectCount \in Nat
           /\ Handler \in {"NULL", "EjectCpu"}
  BY PluggedType DEF TypeInv, TypeOK, LocalsInRange

LEMMA CollectedTypes ==
    ASSUME TypeInv
    PROVE  /\ Plugged # <<>> => Range(Plugged) = {Head(Plugged)} \cup Range(Tail(Plugged))
           /\ \A c \in Cpus : Range(Append(Plugged, ArchId[c])) =
              Range(Plugged) \cup {ArchId[c]}
           /\ ToUnplug # <<>> => Range(ToUnplug) = {Head(ToUnplug)} \cup
              Range(Tail(ToUnplug))
           /\ \A c \in Cpus :
                 Range(Append(ToUnplug, [id |-> ArchId[c], selector |-> c]))
                     = Range(ToUnplug) \cup {[id |-> ArchId[c], selector |-> c]}
  <1>. DEFINE E == [id : ApicIds, selector : Cpus]
  <1>1. Plugged \in Seq(ApicIds) /\ ToUnplug \in Seq(E)
    BY DEF TypeInv, TypeOK
  <1>2. \A c \in Cpus : ArchId[c] \in ApicIds /\ [id |-> ArchId[c], selector |-> c] \in E
    BY Ranges
  <1>. HIDE DEF E
  <1>3. /\ Plugged # <<>> => Range(Plugged) = {Head(Plugged)} \cup Range(Tail(Plugged))
        /\ ToUnplug # <<>> => Range(ToUnplug) = {Head(ToUnplug)} \cup
           Range(Tail(ToUnplug))
    BY <1>1, RangeHeadTail
  <1>4. \A c \in Cpus : Range(Append(Plugged, ArchId[c])) = Range(Plugged) \cup
     {ArchId[c]}
    <2>1. \A id \in ApicIds : Range(Append(Plugged, id)) = Range(Plugged) \cup {id}
      BY <1>1, RangeAppend
    <2>. QED
      BY <1>2, <2>1, Zenon
  <1>5. \A c \in Cpus :
           Range(Append(ToUnplug, [id |-> ArchId[c], selector |-> c]))
               = Range(ToUnplug) \cup {[id |-> ArchId[c], selector |-> c]}
    BY <1>1, <1>2, RangeAppend
  <1>. QED
    BY <1>3, <1>4, <1>5

\* The CPU that is next to be relocated still has its insert event.
LEMMA PluggedInserted ==
    ASSUME IInv, pc \in {"process"} \cup Relocating, Plugged # <<>>,
           NEW c \in Cpus, ArchId[c] = Head(Plugged)
    PROVE  c \in insert /\ c \in present
  <1>1. TypeInv /\ Existence /\ Collection
    BY DEF IInv, Safe
  <1>2. Head(Plugged) \in Range(Plugged)
    BY <1>1, CollectedTypes
  <1>3. PICK d \in insert : ArchId[d] = Head(Plugged)
    BY <1>1, <1>2 DEF Collection
  <1>4. d \in Cpus
    BY <1>1, Types
  <1>. QED
    BY <1>1, <1>3, <1>4, Identities DEF Existence

-----------------------------------------------------------------------------
(* One lemma per action: each part of the invariant is preserved.          *)

LEMMA CpuHotplugEntryStep ==
    ASSUME IInv, CpuHotplugEntry
    PROVE  Safe'
  <1>. USE DEF qemu, first, data, mmi, cpus, CpuHotplugEntry,
     SmbaseInstallFirstSmiHandler, Fatal
  <1>0. TypeInv /\ Safe
    BY DEF IInv
  <1>1. Existence'
    BY <1>0 DEF Safe, Existence
  <1>2. Phases'
    BY <1>0 DEF Safe, Phases, BeforeExit, AfterExit, Relocating, FirstSmi, SmiExit
  <1>3. Handshake'
    BY <1>0 DEF Safe, Handshake, Target, Relocating, FirstSmi
  <1>4. Ownership'
    BY <1>0 DEF Safe, Ownership, Target, Stashed, Relocating
  <1>5. Ejection'
    BY <1>0 DEF Safe, Ejection, Stashed, BeforeExit, AfterExit, Relocating, SmiExit
  <1>6. Collection'
    BY <1>0 DEF Safe, Collection, Known, BeforeExit, Relocating
  <1>7. SmbaseUnique'
    BY <1>0 DEF Safe, SmbaseUnique
  <1>. QED
    BY <1>1, <1>2, <1>3, <1>4, <1>5, <1>6, <1>7 DEF Safe

\* The collected arrays are empty again.
LEMMA CpuHotplugMmiStep ==
    ASSUME IInv, CpuHotplugMmi
    PROVE  Safe'
  <1>. USE DEF qemu, first, data, mmi, cpus, CpuHotplugMmi, Fatal
  <1>0. TypeInv /\ Safe
    BY DEF IInv
  <1>1. Existence'
    BY <1>0 DEF Safe, Existence
  <1>2. Phases'
    BY <1>0 DEF Safe, Phases, BeforeExit, AfterExit, Relocating, FirstSmi, SmiExit
  <1>3. Handshake'
    BY <1>0 DEF Safe, Handshake, Target, Relocating, FirstSmi
  <1>4. Ownership'
    BY <1>0 DEF Safe, Ownership, Target, Stashed, Relocating
  <1>5. Ejection'
    BY <1>0 DEF Safe, Ejection, Stashed, BeforeExit, AfterExit, Relocating, SmiExit
  <1>6. Collection'
    BY <1>0, Types, RangeEmpty DEF Safe, Collection, Known, BeforeExit, Relocating
  <1>7. SmbaseUnique'
    BY <1>0 DEF Safe, SmbaseUnique
  <1>. QED
    BY <1>1, <1>2, <1>3, <1>4, <1>5, <1>6, <1>7 DEF Safe

LEMMA ProcessHotAddedCpusDoneStep ==
    ASSUME IInv, ProcessHotAddedCpusDone
    PROVE  Safe'
  <1>. USE DEF qemu, first, data, mmi, cpus, ProcessHotAddedCpusDone
  <1>0. TypeInv /\ Safe
    BY DEF IInv
  <1>1. Existence'
    BY <1>0 DEF Safe, Existence
  <1>2. Phases'
    BY <1>0 DEF Safe, Phases, BeforeExit, AfterExit, Relocating, FirstSmi, SmiExit
  <1>3. Handshake'
    BY <1>0 DEF Safe, Handshake, Target, Relocating, FirstSmi
  <1>4. Ownership'
    BY <1>0 DEF Safe, Ownership, Target, Stashed, Relocating
  <1>5. Ejection'
    BY <1>0 DEF Safe, Ejection, Stashed, BeforeExit, AfterExit, Relocating, SmiExit
  <1>6. Collection'
    BY <1>0, RangeEmpty DEF Safe, Collection, Known, BeforeExit, Relocating
  <1>7. SmbaseUnique'
    BY <1>0 DEF Safe, SmbaseUnique
  <1>. QED
    BY <1>1, <1>2, <1>3, <1>4, <1>5, <1>6, <1>7 DEF Safe

\* The target of the relocation is in RESET, and takes its latched SMI.
LEMMA BootHotAddedCpuStep ==
    ASSUME IInv, BootHotAddedCpu
    PROVE  Safe'
  <1>. USE DEF qemu, first, data, mmi, cpus, BootHotAddedCpu
  <1>0. TypeInv /\ Safe
    BY DEF IInv
  <1>1. Existence'
    BY <1>0 DEF Safe, Existence
  <1>2. Phases'
    BY <1>0 DEF Safe, Phases, BeforeExit, AfterExit, Relocating, FirstSmi, SmiExit
  <1>3. Handshake'
    BY <1>0, Identities, Types DEF Safe, Handshake, Target, Relocating, FirstSmi
  <1>4. Ownership'
    BY <1>0 DEF Safe, Ownership, Target, Stashed, Relocating
  <1>5. Ejection'
    BY <1>0 DEF Safe, Ejection, Stashed, BeforeExit, AfterExit, Relocating, SmiExit
  <1>6. Collection'
    BY <1>0 DEF Safe, Collection, Known, BeforeExit, Relocating
  <1>7. SmbaseUnique'
    BY <1>0 DEF Safe, SmbaseUnique
  <1>. QED
    BY <1>1, <1>2, <1>3, <1>4, <1>5, <1>6, <1>7 DEF Safe

LEMMA ExposeNewSmbaseStep ==
    ASSUME IInv, ExposeNewSmbase
    PROVE  Safe'
  <1>. USE DEF qemu, first, data, mmi, cpus, ExposeNewSmbase
  <1>0. TypeInv /\ Safe
    BY DEF IInv
  <1>1. Existence'
    BY <1>0 DEF Safe, Existence
  <1>2. Phases'
    BY <1>0 DEF Safe, Phases, BeforeExit, AfterExit, Relocating, FirstSmi, SmiExit
  <1>3. Handshake'
    BY <1>0 DEF Safe, Handshake, Target, Relocating, FirstSmi
  <1>4. Ownership'
    BY <1>0 DEF Safe, Ownership, Target, Stashed, Relocating
  <1>5. Ejection'
    BY <1>0 DEF Safe, Ejection, Stashed, BeforeExit, AfterExit, Relocating, SmiExit
  <1>6. Collection'
    BY <1>0 DEF Safe, Collection, Known, BeforeExit, Relocating
  <1>7. SmbaseUnique'
    BY <1>0 DEF Safe, SmbaseUnique
  <1>. QED
    BY <1>1, <1>2, <1>3, <1>4, <1>5, <1>6, <1>7 DEF Safe

\* The gate is shut, so the exchange succeeds and admits the target only.
LEMMA UngateHotAddedCpuStep ==
    ASSUME IInv, UngateHotAddedCpu
    PROVE  Safe'
  <1>. USE DEF qemu, first, data, mmi, cpus, UngateHotAddedCpu, RevokeNewSlot, Fatal
  <1>0. TypeInv /\ Safe
    BY DEF IInv
  <1>1. Existence'
    BY <1>0 DEF Safe, Existence
  <1>2. Phases'
    BY <1>0 DEF Safe, Phases, BeforeExit, AfterExit, Relocating, FirstSmi, SmiExit
  <1>3. Handshake'
    BY <1>0 DEF Safe, Handshake, Target, Relocating, FirstSmi
  <1>4. Ownership'
    BY <1>0 DEF Safe, Ownership, Target, Stashed, Relocating
  <1>5. Ejection'
    BY <1>0 DEF Safe, Ejection, Stashed, BeforeExit, AfterExit, Relocating, SmiExit
  <1>6. Collection'
    BY <1>0 DEF Safe, Collection, Known, BeforeExit, Relocating
  <1>7. SmbaseUnique'
    BY <1>0 DEF Safe, SmbaseUnique
  <1>. QED
    BY <1>1, <1>2, <1>3, <1>4, <1>5, <1>6, <1>7 DEF Safe

\* Only the target sets the flag, after it has shut the gate behind it.
LEMMA AwaitAboutToLeaveSmmStep ==
    ASSUME IInv, AwaitAboutToLeaveSmm
    PROVE  Safe'
  <1>. USE DEF qemu, first, data, mmi, cpus, AwaitAboutToLeaveSmm
  <1>0. TypeInv /\ Safe
    BY DEF IInv
  <1>1. Existence'
    BY <1>0 DEF Safe, Existence
  <1>2. Phases'
    BY <1>0 DEF Safe, Phases, BeforeExit, AfterExit, Relocating, FirstSmi, SmiExit
  <1>3. Handshake'
    BY <1>0, Identities, LocalTypes DEF Safe, Handshake, Target, Relocating, FirstSmi
  <1>4. Ownership'
    BY <1>0 DEF Safe, Ownership, Target, Stashed, Relocating
  <1>5. Ejection'
    BY <1>0 DEF Safe, Ejection, Stashed, BeforeExit, AfterExit, Relocating, SmiExit
  <1>6. Collection'
    BY <1>0 DEF Safe, Collection, Known, BeforeExit, Relocating
  <1>7. SmbaseUnique'
    BY <1>0 DEF Safe, SmbaseUnique
  <1>. QED
    BY <1>1, <1>2, <1>3, <1>4, <1>5, <1>6, <1>7 DEF Safe

LEMMA AwaitSmmVacatedStep ==
    ASSUME IInv, AwaitSmmVacated
    PROVE  Safe'
  <1>. USE DEF qemu, first, data, mmi, cpus, AwaitSmmVacated
  <1>0. TypeInv /\ Safe
    BY DEF IInv
  <1>1. Existence'
    BY <1>0 DEF Safe, Existence
  <1>2. Phases'
    BY <1>0 DEF Safe, Phases, BeforeExit, AfterExit, Relocating, FirstSmi, SmiExit
  <1>3. Handshake'
    BY <1>0 DEF Safe, Handshake, Target, Relocating, FirstSmi
  <1>4. Ownership'
    BY <1>0 DEF Safe, Ownership, Target, Stashed, Relocating
  <1>5. Ejection'
    BY <1>0 DEF Safe, Ejection, Stashed, BeforeExit, AfterExit, Relocating, SmiExit
  <1>6. Collection'
    BY <1>0 DEF Safe, Collection, Known, BeforeExit, Relocating
  <1>7. SmbaseUnique'
    BY <1>0 DEF Safe, SmbaseUnique
  <1>. QED
    BY <1>1, <1>2, <1>3, <1>4, <1>5, <1>6, <1>7 DEF Safe

\* The CPU just relocated is registered; the next one has not started.
LEMMA AddProcessorStep ==
    ASSUME IInv, AddProcessor
    PROVE  Safe'
  <1>. USE DEF qemu, first, data, mmi, cpus, AddProcessor, RevokeNewSlot, Fatal
  <1>0. TypeInv /\ Safe
    BY DEF IInv
  <1>1. Existence'
    BY <1>0 DEF Safe, Existence
  <1>2. Phases'
    BY <1>0 DEF Safe, Phases, BeforeExit, AfterExit, Relocating, FirstSmi, SmiExit
  <1>3. Handshake'
    BY <1>0 DEF Safe, Handshake, Target, Relocating, FirstSmi
  <1>4. Ownership'
    BY <1>0 DEF Safe, Ownership, Target, Stashed, Relocating, FirstSmi, Handshake
  <1>5. Ejection'
    BY <1>0 DEF Safe, Ejection, Stashed, BeforeExit, AfterExit, Relocating, SmiExit
  <1>6. Collection'
    <2>1. CASE pc' = "dead"
      BY <1>0, <2>1 DEF Safe, Collection, BeforeExit, Relocating
    <2>2. CASE pc' = "process"
      <3>1. /\ pc = "addproc" /\ Plugged' = Tail(Plugged)
            /\ UNCHANGED <<ApicId, insert, fwRemove, ToUnplug, osSeen>>
        BY <2>2
      <3>2. /\ Range(Plugged) = {Head(Plugged)} \cup Range(Plugged')
            /\ ApicId[NewSlot] = Head(Plugged) /\ NewSlot \in Slots
        BY <1>0, <3>1, LocalTypes, CollectedTypes DEF Safe, Ownership, Relocating
      <3>. QED
        BY <1>0, <2>2, <3>1, <3>2 DEF Safe, Collection, Known, BeforeExit, Relocating
    <2>. QED
      BY <2>1, <2>2
  <1>7. SmbaseUnique'
    BY <1>0 DEF Safe, SmbaseUnique
  <1>. QED
    BY <1>1, <1>2, <1>3, <1>4, <1>5, <1>6, <1>7 DEF Safe

\* Whatever is stashed was counted, so the handler is armed for it.
LEMMA UnplugCpusDoneStep ==
    ASSUME IInv, UnplugCpusDone
    PROVE  Safe'
  <1>. USE DEF qemu, first, data, mmi, cpus, UnplugCpusDone
  <1>0. TypeInv /\ Safe
    BY DEF IInv
  <1>1. Existence'
    BY <1>0 DEF Safe, Existence
  <1>2. Phases'
    BY <1>0 DEF Safe, Phases, BeforeExit, AfterExit, Relocating, FirstSmi, SmiExit
  <1>3. Handshake'
    BY <1>0 DEF Safe, Handshake, Target, Relocating, FirstSmi
  <1>4. Ownership'
    BY <1>0 DEF Safe, Ownership, Target, Stashed, Relocating
  <1>5. Ejection'
    BY <1>0 DEF Safe, Ejection, Stashed, BeforeExit, AfterExit, Relocating, SmiExit
  <1>6. Collection'
    BY <1>0 DEF Safe, Collection, Known, BeforeExit, Relocating
  <1>7. SmbaseUnique'
    BY <1>0 DEF Safe, SmbaseUnique
  <1>. QED
    BY <1>1, <1>2, <1>3, <1>4, <1>5, <1>6, <1>7 DEF Safe

LEMMA ReleaseApsStep ==
    ASSUME IInv, ReleaseAps
    PROVE  Safe'
  <1>. USE DEF qemu, first, data, mmi, cpus, ReleaseAps
  <1>0. TypeInv /\ Safe
    BY DEF IInv
  <1>1. Existence'
    BY <1>0, Ranges DEF Safe, Existence
  <1>2. Phases'
    BY <1>0 DEF Safe, Phases, BeforeExit, AfterExit, Relocating, FirstSmi, SmiExit
  <1>3. Handshake'
    BY <1>0 DEF Safe, Handshake, Target, Relocating, FirstSmi
  <1>4. Ownership'
    BY <1>0 DEF Safe, Ownership, Target, Stashed, Relocating
  <1>5. Ejection'
    BY <1>0, Types DEF Safe, Ejection, Stashed, BeforeExit, AfterExit, Relocating, SmiExit
  <1>6. Collection'
    BY <1>0 DEF Safe, Collection, Known, BeforeExit, Relocating
  <1>7. SmbaseUnique'
    BY <1>0 DEF Safe, SmbaseUnique
  <1>. QED
    BY <1>1, <1>2, <1>3, <1>4, <1>5, <1>6, <1>7 DEF Safe

\* Without the handler nothing is stashed.
LEMMA SmmCpuFeaturesRendezvousExitBspStep ==
    ASSUME IInv, SmmCpuFeaturesRendezvousExitBsp
    PROVE  Safe'
  <1>. USE DEF qemu, first, data, mmi, cpus, SmmCpuFeaturesRendezvousExitBsp
  <1>0. TypeInv /\ Safe
    BY DEF IInv
  <1>1. Existence'
    BY <1>0 DEF Safe, Existence
  <1>2. Phases'
    BY <1>0 DEF Safe, Phases, BeforeExit, AfterExit, Relocating, FirstSmi, SmiExit
  <1>3. Handshake'
    BY <1>0 DEF Safe, Handshake, Target, Relocating, FirstSmi
  <1>4. Ownership'
    BY <1>0 DEF Safe, Ownership, Target, Stashed, Relocating
  <1>5. Ejection'
    BY <1>0, Ranges
       DEF Safe, Ejection, Stashed, BeforeExit, AfterExit, Relocating, SmiExit
  <1>6. Collection'
    BY <1>0 DEF Safe, Collection, Known, BeforeExit, Relocating
  <1>7. SmbaseUnique'
    BY <1>0 DEF Safe, SmbaseUnique
  <1>. QED
    BY <1>1, <1>2, <1>3, <1>4, <1>5, <1>6, <1>7 DEF Safe

\* The CPU of the cleared entry is gone.
LEMMA EjectCpuBspClearStep ==
    ASSUME IInv, EjectCpuBspClear
    PROVE  Safe'
  <1>. USE DEF qemu, first, data, mmi, cpus, EjectCpuBspClear
  <1>0. TypeInv /\ Safe
    BY DEF IInv
  <1>1. Existence'
    BY <1>0 DEF Safe, Existence
  <1>2. Phases'
    BY <1>0 DEF Safe, Phases, BeforeExit, AfterExit, Relocating, FirstSmi, SmiExit
  <1>3. Handshake'
    BY <1>0 DEF Safe, Handshake, Target, Relocating, FirstSmi
  <1>4. Ownership'
    BY <1>0 DEF Safe, Ownership, Target, Stashed, Relocating
  <1>5. Ejection'
    BY <1>0, Types, LocalTypes, Ranges
       DEF Safe, Ejection, Stashed, BeforeExit, AfterExit, Relocating, SmiExit
  <1>6. Collection'
    BY <1>0 DEF Safe, Collection, Known, BeforeExit, Relocating
  <1>7. SmbaseUnique'
    BY <1>0 DEF Safe, SmbaseUnique
  <1>. QED
    BY <1>1, <1>2, <1>3, <1>4, <1>5, <1>6, <1>7 DEF Safe

\* The loop has cleared every entry.
LEMMA EjectCpuBspDoneStep ==
    ASSUME IInv, EjectCpuBspDone
    PROVE  Safe'
  <1>. USE DEF qemu, first, data, mmi, cpus, EjectCpuBspDone
  <1>0. TypeInv /\ Safe
    BY DEF IInv
  <1>1. Existence'
    BY <1>0 DEF Safe, Existence
  <1>2. Phases'
    BY <1>0 DEF Safe, Phases, BeforeExit, AfterExit, Relocating, FirstSmi, SmiExit
  <1>3. Handshake'
    BY <1>0 DEF Safe, Handshake, Target, Relocating, FirstSmi
  <1>4. Ownership'
    BY <1>0 DEF Safe, Ownership, Target, Stashed, Relocating
  <1>5. Ejection'
    <2>1. \A s \in Slots : QemuSelectorMap[s] = MAX_UINT64
      BY <1>0, Ranges DEF Safe, Ejection
    <2>2. \A c \in Cpus : cpu[c] # "halted"
      BY <1>0, <2>1 DEF Safe, Ejection, Phases, Stashed, SmiExit
    <2>. QED
      BY <2>1, <2>2 DEF Ejection, Stashed, BeforeExit, AfterExit, Relocating, SmiExit
  <1>6. Collection'
    BY <1>0 DEF Safe, Collection, Known, BeforeExit, Relocating
  <1>7. SmbaseUnique'
    BY <1>0 DEF Safe, SmbaseUnique
  <1>. QED
    BY <1>1, <1>2, <1>3, <1>4, <1>5, <1>6, <1>7 DEF Safe

LEMMA BroadcastSmiStep ==
    ASSUME IInv, NEW command \in {"hotplug", "other"}, BroadcastSmi(command)
    PROVE  Safe'
  <1>. USE DEF qemu, first, data, mmi, cpus, BroadcastSmi
  <1>0. TypeInv /\ Safe
    BY DEF IInv
  <1>1. Existence'
    BY <1>0, Ranges DEF Safe, Existence
  <1>2. Phases'
    BY <1>0
       DEF Safe, Phases, BeforeExit, AfterExit, Relocating, FirstSmi, SmiExit,
       Existence
  <1>3. Handshake'
    BY <1>0 DEF Safe, Handshake, Target, Relocating, FirstSmi
  <1>4. Ownership'
    BY <1>0 DEF Safe, Ownership, Target, Stashed, Relocating
  <1>5. Ejection'
    BY <1>0 DEF Safe, Ejection, Stashed, BeforeExit, AfterExit, Relocating, SmiExit
  <1>6. Collection'
    BY <1>0 DEF Safe, Collection, Known, BeforeExit, Relocating
  <1>7. SmbaseUnique'
    BY <1>0 DEF Safe, SmbaseUnique
  <1>. QED
    BY <1>1, <1>2, <1>3, <1>4, <1>5, <1>6, <1>7 DEF Safe

LEMMA KnockOnGateStep ==
    ASSUME IInv, NEW e \in Cpus, KnockOnGate(e)
    PROVE  Safe'
  <1>. USE DEF qemu, first, data, mmi, cpus, KnockOnGate
  <1>0. TypeInv /\ Safe
    BY DEF IInv
  <1>1. Existence'
    BY <1>0 DEF Safe, Existence
  <1>2. Phases'
    BY <1>0 DEF Safe, Phases, BeforeExit, AfterExit, Relocating, FirstSmi, SmiExit
  <1>3. Handshake'
    BY <1>0, Identities, Types, LocalTypes
       DEF Safe, Handshake, Target, Relocating, FirstSmi
  <1>4. Ownership'
    BY <1>0 DEF Safe, Ownership, Target, Stashed, Relocating
  <1>5. Ejection'
    BY <1>0 DEF Safe, Ejection, Stashed, BeforeExit, AfterExit, Relocating, SmiExit
  <1>6. Collection'
    BY <1>0 DEF Safe, Collection, Known, BeforeExit, Relocating
  <1>7. SmbaseUnique'
    BY <1>0 DEF Safe, SmbaseUnique
  <1>. QED
    BY <1>1, <1>2, <1>3, <1>4, <1>5, <1>6, <1>7 DEF Safe

LEMMA UpdateSmbaseStep ==
    ASSUME IInv, NEW e \in Cpus, UpdateSmbase(e)
    PROVE  Safe'
  <1>. USE DEF qemu, first, data, mmi, cpus, UpdateSmbase
  <1>0. TypeInv /\ Safe
    BY DEF IInv
  <1>1. Existence'
    BY <1>0 DEF Safe, Existence
  <1>2. Phases'
    BY <1>0 DEF Safe, Phases, BeforeExit, AfterExit, Relocating, FirstSmi, SmiExit
  <1>3. Handshake'
    BY <1>0 DEF Safe, Handshake, Target, Relocating, FirstSmi
  <1>4. Ownership'
    BY <1>0 DEF Safe, Ownership, Target, Stashed, Relocating
  <1>5. Ejection'
    BY <1>0 DEF Safe, Ejection, Stashed, BeforeExit, AfterExit, Relocating, SmiExit
  <1>6. Collection'
    BY <1>0 DEF Safe, Collection, Known, BeforeExit, Relocating
  <1>7. SmbaseUnique'
    BY <1>0 DEF Safe, SmbaseUnique
  <1>. QED
    BY <1>1, <1>2, <1>3, <1>4, <1>5, <1>6, <1>7 DEF Safe

LEMMA SetAboutToLeaveSmmStep ==
    ASSUME IInv, NEW e \in Cpus, SetAboutToLeaveSmm(e)
    PROVE  Safe'
  <1>. USE DEF qemu, first, data, mmi, cpus, SetAboutToLeaveSmm
  <1>0. TypeInv /\ Safe
    BY DEF IInv
  <1>1. Existence'
    BY <1>0 DEF Safe, Existence
  <1>2. Phases'
    BY <1>0 DEF Safe, Phases, BeforeExit, AfterExit, Relocating, FirstSmi, SmiExit
  <1>3. Handshake'
    BY <1>0, Identities, Types DEF Safe, Handshake, Target, Relocating, FirstSmi
  <1>4. Ownership'
    BY <1>0 DEF Safe, Ownership, Target, Stashed, Relocating
  <1>5. Ejection'
    BY <1>0 DEF Safe, Ejection, Stashed, BeforeExit, AfterExit, Relocating, SmiExit
  <1>6. Collection'
    BY <1>0 DEF Safe, Collection, Known, BeforeExit, Relocating
  <1>7. SmbaseUnique'
    BY <1>0 DEF Safe, SmbaseUnique
  <1>. QED
    BY <1>1, <1>2, <1>3, <1>4, <1>5, <1>6, <1>7 DEF Safe

\* The target takes the SMBASE of its slot, which no other CPU has.
LEMMA RsmStep ==
    ASSUME IInv, NEW e \in Cpus, Rsm(e)
    PROVE  Safe'
  <1>. USE DEF qemu, first, data, mmi, cpus, Rsm
  <1>0. TypeInv /\ Safe
    BY DEF IInv
  <1>1. Existence'
    BY <1>0 DEF Safe, Existence
  <1>2. Phases'
    BY <1>0, Types, LocalTypes
       DEF Safe, Phases, BeforeExit, AfterExit, Relocating, FirstSmi, SmiExit,
       Handshake, Target
  <1>3. Handshake'
    BY <1>0, Types DEF Safe, Handshake, Target, Relocating, FirstSmi
  <1>4. Ownership'
    BY <1>0, Identities
       DEF Safe, Ownership, Target, Stashed, Relocating, Handshake, FirstSmi,
       Phases, BeforeExit, AfterExit, SmiExit
  <1>5. Ejection'
    BY <1>0
       DEF Safe, Ejection, Stashed, BeforeExit, AfterExit, Relocating, SmiExit,
       Handshake, Target, FirstSmi
  <1>6. Collection'
    BY <1>0 DEF Safe, Collection, Known, BeforeExit, Relocating
  <1>7. SmbaseUnique'
    BY <1>0, Identities, Types
       DEF Safe, SmbaseUnique, Ownership, Target, Stashed, Relocating, Handshake,
       FirstSmi, Ejection, BeforeExit, AfterExit, SmiExit
  <1>. QED
    BY <1>1, <1>2, <1>3, <1>4, <1>5, <1>6, <1>7 DEF Safe

LEMMA PostSmmPenStep ==
    ASSUME IInv, NEW e \in Cpus, PostSmmPen(e)
    PROVE  Safe'
  <1>. USE DEF qemu, first, data, mmi, cpus, PostSmmPen
  <1>0. TypeInv /\ Safe
    BY DEF IInv
  <1>1. Existence'
    BY <1>0 DEF Safe, Existence
  <1>2. Phases'
    BY <1>0 DEF Safe, Phases, BeforeExit, AfterExit, Relocating, FirstSmi, SmiExit
  <1>3. Handshake'
    BY <1>0, Identities, Types DEF Safe, Handshake, Target, Relocating, FirstSmi
  <1>4. Ownership'
    BY <1>0 DEF Safe, Ownership, Target, Stashed, Relocating
  <1>5. Ejection'
    BY <1>0 DEF Safe, Ejection, Stashed, BeforeExit, AfterExit, Relocating, SmiExit
  <1>6. Collection'
    BY <1>0 DEF Safe, Collection, Known, BeforeExit, Relocating
  <1>7. SmbaseUnique'
    BY <1>0 DEF Safe, SmbaseUnique
  <1>. QED
    BY <1>1, <1>2, <1>3, <1>4, <1>5, <1>6, <1>7 DEF Safe

\* A CPU that skips the handler is not stashed.
LEMMA SmmCpuFeaturesRendezvousExitApStep ==
    ASSUME IInv, NEW e \in Cpus, SmmCpuFeaturesRendezvousExitAp(e)
    PROVE  Safe'
  <1>. USE DEF qemu, first, data, mmi, cpus, SmmCpuFeaturesRendezvousExitAp
  <1>0. TypeInv /\ Safe
    BY DEF IInv
  <1>1. Existence'
    BY <1>0 DEF Safe, Existence
  <1>2. Phases'
    BY <1>0 DEF Safe, Phases, BeforeExit, AfterExit, Relocating, FirstSmi, SmiExit
  <1>3. Handshake'
    BY <1>0 DEF Safe, Handshake, Target, Relocating, FirstSmi
  <1>4. Ownership'
    BY <1>0 DEF Safe, Ownership, Target, Stashed, Relocating
  <1>5. Ejection'
    BY <1>0 DEF Safe, Ejection, Stashed, BeforeExit, AfterExit, Relocating, SmiExit
  <1>6. Collection'
    BY <1>0 DEF Safe, Collection, Known, BeforeExit, Relocating
  <1>7. SmbaseUnique'
    BY <1>0 DEF Safe, SmbaseUnique
  <1>. QED
    BY <1>1, <1>2, <1>3, <1>4, <1>5, <1>6, <1>7 DEF Safe

\* The stashed selector of its own slot is the CPU itself.
LEMMA EjectCpuApStep ==
    ASSUME IInv, NEW e \in Cpus, EjectCpuAp(e)
    PROVE  Safe'
  <1>. USE DEF qemu, first, data, mmi, cpus, EjectCpuAp
  <1>0. TypeInv /\ Safe
    BY DEF IInv
  <1>1. Existence'
    BY <1>0 DEF Safe, Existence
  <1>2. Phases'
    BY <1>0 DEF Safe, Phases, BeforeExit, AfterExit, Relocating, FirstSmi, SmiExit
  <1>3. Handshake'
    BY <1>0 DEF Safe, Handshake, Target, Relocating, FirstSmi
  <1>4. Ownership'
    BY <1>0 DEF Safe, Ownership, Target, Stashed, Relocating
  <1>5. Ejection'
    BY <1>0, Identities
       DEF Safe, Ejection, Stashed, BeforeExit, AfterExit, Relocating, SmiExit,
       Phases, FirstSmi, Existence, SmbaseUnique
  <1>6. Collection'
    BY <1>0 DEF Safe, Collection, Known, BeforeExit, Relocating
  <1>7. SmbaseUnique'
    BY <1>0 DEF Safe, SmbaseUnique
  <1>. QED
    BY <1>1, <1>2, <1>3, <1>4, <1>5, <1>6, <1>7 DEF Safe

\* A new CPU is not registered, stashed or collected: those CPUs exist.
LEMMA QemuPlugStep ==
    ASSUME IInv, NEW e \in Cpus, QemuPlug(e)
    PROVE  Safe'
  <1>. USE DEF qemu, first, data, mmi, cpus, QemuPlug
  <1>0. TypeInv /\ Safe
    BY DEF IInv
  <1>1. Existence'
    BY <1>0, Types DEF Safe, Existence
  <1>2. Phases'
    BY <1>0, Types
       DEF Safe, Phases, BeforeExit, AfterExit, Relocating, FirstSmi, SmiExit,
       Existence
  <1>3. Handshake'
    BY <1>0 DEF Safe, Handshake, Target, Relocating, FirstSmi, Existence
  <1>4. Ownership'
    BY <1>0, Identities, Types DEF Safe, Ownership, Target, Stashed, Relocating
  <1>5. Ejection'
    BY <1>0, Identities, Types, LocalTypes
       DEF Safe, Ejection, Stashed, BeforeExit, AfterExit, Relocating, SmiExit,
       Existence
  <1>6. Collection'
    BY <1>0 DEF Safe, Collection, Known, BeforeExit, Relocating
  <1>7. SmbaseUnique'
    BY <1>0, Types DEF Safe, SmbaseUnique
  <1>. QED
    BY <1>1, <1>2, <1>3, <1>4, <1>5, <1>6, <1>7 DEF Safe

LEMMA QemuRequestRemoveStep ==
    ASSUME IInv, NEW e \in Cpus, QemuRequestRemove(e)
    PROVE  Safe'
  <1>. USE DEF qemu, first, data, mmi, cpus, QemuRequestRemove
  <1>0. TypeInv /\ Safe
    BY DEF IInv
  <1>1. Existence'
    BY <1>0 DEF Safe, Existence
  <1>2. Phases'
    BY <1>0 DEF Safe, Phases, BeforeExit, AfterExit, Relocating, FirstSmi, SmiExit
  <1>3. Handshake'
    BY <1>0 DEF Safe, Handshake, Target, Relocating, FirstSmi
  <1>4. Ownership'
    BY <1>0 DEF Safe, Ownership, Target, Stashed, Relocating
  <1>5. Ejection'
    BY <1>0 DEF Safe, Ejection, Stashed, BeforeExit, AfterExit, Relocating, SmiExit
  <1>6. Collection'
    BY <1>0 DEF Safe, Collection, Known, BeforeExit, Relocating
  <1>7. SmbaseUnique'
    BY <1>0 DEF Safe, SmbaseUnique
  <1>. QED
    BY <1>1, <1>2, <1>3, <1>4, <1>5, <1>6, <1>7 DEF Safe

LEMMA OsEjectStep ==
    ASSUME IInv, NEW e \in Cpus, OsEject(e)
    PROVE  Safe'
  <1>. USE DEF qemu, first, data, mmi, cpus, OsEject
  <1>0. TypeInv /\ Safe
    BY DEF IInv
  <1>1. Existence'
    BY <1>0 DEF Safe, Existence
  <1>2. Phases'
    BY <1>0 DEF Safe, Phases, BeforeExit, AfterExit, Relocating, FirstSmi, SmiExit
  <1>3. Handshake'
    BY <1>0 DEF Safe, Handshake, Target, Relocating, FirstSmi
  <1>4. Ownership'
    BY <1>0 DEF Safe, Ownership, Target, Stashed, Relocating
  <1>5. Ejection'
    BY <1>0 DEF Safe, Ejection, Stashed, BeforeExit, AfterExit, Relocating, SmiExit
  <1>6. Collection'
    BY <1>0 DEF Safe, Collection, Known, BeforeExit, Relocating
  <1>7. SmbaseUnique'
    BY <1>0 DEF Safe, SmbaseUnique
  <1>. QED
    BY <1>1, <1>2, <1>3, <1>4, <1>5, <1>6, <1>7 DEF Safe

\* An insert event the OS saw before the MMI is of a CPU relocated since.
LEMMA OsOnlineStep ==
    ASSUME IInv, NEW e \in Cpus, OsOnline(e)
    PROVE  Safe'
  <1>. USE DEF qemu, first, data, mmi, cpus, OsOnline
  <1>0. TypeInv /\ Safe
    BY DEF IInv
  <1>1. Existence'
    BY <1>0 DEF Safe, Existence
  <1>2. Phases'
    BY <1>0
       DEF Safe, Phases, BeforeExit, AfterExit, Relocating, FirstSmi, SmiExit,
       Collection, Known, Ownership, Target, Stashed
  <1>3. Handshake'
    BY <1>0, Identities
       DEF Safe, Handshake, Target, Relocating, FirstSmi, Collection, Known,
       BeforeExit, Ownership, Stashed, Phases, AfterExit, SmiExit
  <1>4. Ownership'
    BY <1>0 DEF Safe, Ownership, Target, Stashed, Relocating
  <1>5. Ejection'
    BY <1>0 DEF Safe, Ejection, Stashed, BeforeExit, AfterExit, Relocating, SmiExit
  <1>6. Collection'
    BY <1>0 DEF Safe, Collection, Known, BeforeExit, Relocating
  <1>7. SmbaseUnique'
    BY <1>0 DEF Safe, SmbaseUnique
  <1>. QED
    BY <1>1, <1>2, <1>3, <1>4, <1>5, <1>6, <1>7 DEF Safe

\* The scan passes no pending CPU.
LEMMA QemuCpuhpCollectApicIdsStep ==
    ASSUME IInv, QemuCpuhpCollectApicIds
    PROVE  Safe'
  <1>. USE DEF qemu, first, data, mmi, cpus
  <1>0. TypeInv /\ Safe
    BY DEF IInv
  <1>a. /\ pc = "collect"
        /\ UNCHANGED <<qemu, cpus, first, data, ApmControl, NewSlot,
           EjectCount, Idx, osSeen>>
    BY DEF QemuCpuhpCollectApicIds
  <1>b. pc' \in {"process", "dead", "collect"}
    BY <1>0, CollectType
  <1>1. Existence'
    BY <1>0, <1>a DEF Safe, Existence
  <1>2. Phases'
    BY <1>0, <1>a, <1>b
       DEF Safe, Phases, BeforeExit, AfterExit, Relocating, FirstSmi, SmiExit
  <1>3. Handshake'
    BY <1>0, <1>a, <1>b DEF Safe, Handshake, Target, Relocating, FirstSmi
  <1>4. Ownership'
    BY <1>0, <1>a, <1>b DEF Safe, Ownership, Target, Stashed, Relocating
  <1>5. Ejection'
    BY <1>0, <1>a, <1>b
       DEF Safe, Ejection, Stashed, BeforeExit, AfterExit, Relocating, SmiExit
  <1>6. Collection'
    <2>1. CASE pc' = "dead"
      BY <1>0, <2>1 DEF Safe, Collection, BeforeExit, Relocating
    <2>2. CASE /\ \A c \in Pending : c < CurrentSelector
               /\ pc' = "process"
               /\ UNCHANGED <<CurrentSelector, Plugged, ToUnplug>>
      <3>1. \A c \in osSeen : ~(CurrentSelector <= c)
        <4>1. \A c \in osSeen : c \in Pending /\ c \in Nat
          BY <1>0, Types, Ranges DEF Safe, Existence, Pending
        <4>. QED
          BY <1>0, <2>2, <4>1, LocalTypes
      <3>. QED
        BY <1>0, <1>a, <2>2, <3>1 DEF Safe, Collection, Known, BeforeExit, Relocating
    <2>3. ASSUME NEW sel \in Pending \cap Cpus,
                 \A c \in Pending : c >= CurrentSelector => c >= sel,
                 Plugged' = IF PlugEvent(sel) THEN Append(Plugged,
                    ArchId[sel]) ELSE Plugged,
                 ToUnplug' = IF UnplugEvent(sel)
                             THEN Append(ToUnplug, [id |-> ArchId[sel], selector |-> sel])
                             ELSE ToUnplug,
                 Advance(sel)
          PROVE  Collection'
      <3>1. /\ Range(Plugged') = Range(Plugged) \cup
                                     {id \in {ArchId[sel]} : PlugEvent(sel)}
            /\ Range(ToUnplug') = Range(ToUnplug) \cup
                  {e \in {[id |-> ArchId[sel], selector |-> sel]} : UnplugEvent(sel)}
        BY <1>0, <2>3, CollectedTypes
      <3>2. \A id \in Range(Plugged') : \E c \in insert : ArchId[c] = id
        BY <1>0, <1>a, <3>1 DEF Safe, Collection, PlugEvent
      <3>3. \A e \in Range(ToUnplug') :
               e.selector \in fwRemove /\ e.id = ArchId[e.selector]
        BY <1>0, <1>a, <3>1 DEF Safe, Collection, UnplugEvent, BeforeExit
      <3>4. ASSUME NEW c \in osSeen
            PROVE  \/ Known(ArchId[c])
                   \/ pc' = "collect" /\ CurrentSelector' <= c
                   \/ ArchId[c] \in Range(Plugged')
        <4>1. c \in insert /\ c \in Pending /\ c \in Cpus
          BY <1>0, Types DEF Safe, Existence, Pending
        <4>2. CASE CurrentSelector <= c /\ c # sel
          <5>1. c >= sel + 1 /\ sel \in Nat /\ c \in Nat
            BY <1>0, <2>3, <4>1, <4>2, LocalTypes, Ranges
          <5>. QED
            BY <2>3, <4>1, <5>1, Ranges DEF Advance
        <4>3. CASE c = sel
          BY <3>1, <4>1, <4>3 DEF PlugEvent
        <4>4. CASE ~(CurrentSelector <= c)
          BY <1>0, <1>a, <3>1, <4>4 DEF Safe, Collection, Relocating
        <4>. QED
          BY <4>2, <4>3, <4>4
      <3>. QED
        BY <1>a, <1>b, <3>2, <3>3, <3>4 DEF Collection, Known, Relocating
    <2>. QED
      BY <1>0, <2>1, <2>2, <2>3, CollectCases
  <1>7. SmbaseUnique'
    BY <1>0, <1>a DEF Safe, SmbaseUnique
  <1>. QED
    BY <1>1, <1>2, <1>3, <1>4, <1>5, <1>6, <1>7 DEF Safe

\* An unknown CPU with an insert event is in RESET; its slot belongs to nobody.
LEMMA ProcessHotAddedCpuStep ==
    ASSUME IInv, ProcessHotAddedCpu
    PROVE  Safe'
  <1>. USE DEF qemu, first, data, mmi, cpus
  <1>0. TypeInv /\ Safe
    BY DEF IInv
  <1>a. /\ pc = "process" /\ Plugged # <<>>
        /\ UNCHANGED <<qemu, cpus, ApicIdGate, NewSmbase, saveSmbase, QemuSelectorMap,
                       Handler, ApmControl, CurrentSelector,
                          ToUnplug, EjectCount, Idx, osSeen>>
    BY DEF ProcessHotAddedCpu
  <1>b. pc' \in {"process", "dead", "boot"}
    BY <1>0, ProcessType
  <1>1. Existence'
    BY <1>0, <1>a DEF Safe, Existence
  <1>2. Phases'
    BY <1>0, <1>a, <1>b
       DEF Safe, Phases, BeforeExit, AfterExit, Relocating, FirstSmi, SmiExit
  <1>3. Handshake'
    <2>1. CASE pc' = "dead"
      BY <1>0, <1>a, <2>1 DEF Safe, Handshake, Target, Relocating, FirstSmi
    <2>2. CASE UNCHANGED pc
      BY <1>0, <1>a, <2>2 DEF Safe, Handshake, Target, Relocating, FirstSmi
    <2>3. CASE /\ pc' = "boot" /\ ~Known(Head(Plugged)) /\ UNCHANGED Plugged
               /\ AboutToLeaveSmm' = 0 /\ SmmVacated' = 0
      <3>1. ASSUME NEW c \in Cpus, ArchId[c] = Head(Plugged)
            PROVE  cpu[c] = "reset"
        <4>1. c \in insert /\ c \in present
          BY <1>a, <3>1, PluggedInserted
        <4>2. smbase[c] = SMM_DEFAULT_SMBASE
          BY <1>0, <1>a, <2>3, <3>1, <4>1, Types
             DEF Safe, Ownership, Ejection, Stashed, Known, AfterExit
        <4>3. cpu[c] # "absent" /\ cpu[c] \notin {"pen", "run", "smm"} \cup SmiExit
          BY <1>0, <4>1, <4>2, Types, Identities DEF Safe, Existence, Phases
        <4>4. cpu[c] \notin FirstSmi
          BY <1>0, <1>a DEF Safe, Handshake, Target, Relocating
        <4>. QED
          BY <1>0, <4>3, <4>4, Types DEF CpuStates
      <3>2. \A c \in Cpus : cpu[c] \notin FirstSmi \cup {"pen"}
        BY <1>0, <1>a DEF Safe, Handshake, Target, Relocating
      <3>. QED
        BY <1>0, <1>a, <2>3, <3>1, <3>2 DEF Safe, Handshake, Target, Relocating, FirstSmi
    <2>. QED
      BY <1>0, <2>1, <2>2, <2>3, ProcessCases
  <1>4. Ownership'
    <2>1. CASE pc' = "dead"
      BY <2>1 DEF Ownership
    <2>2. CASE UNCHANGED <<ApicId, pc>>
      BY <1>0, <1>a, <2>2 DEF Safe, Ownership, Target, Stashed, Relocating
    <2>3. ASSUME NEW s \in Slots, ApicId[s] = MAX_UINT64, NewSlot' = s,
                 ApicId' = [ApicId EXCEPT ![s] = Head(Plugged)],
                 ~Known(Head(Plugged)), pc' = "boot", UNCHANGED Plugged
          PROVE  Ownership'
      <3>1. \A t \in Slots : QemuSelectorMap[t] = MAX_UINT64
        BY <1>0, <1>a DEF Safe, Ejection, Stashed, AfterExit
      <3>2. \A c \in present : smbase[c] \in Slots => ApicId[smbase[c]] = ArchId[c]
        BY <1>0, <1>a, <3>1 DEF Safe, Ownership, Stashed
      <3>3. \A c \in present : smbase[c] # s
        <4>1. \A c \in present : ArchId[c] # MAX_UINT64
          <5>1. present \subseteq Cpus
            BY <1>0, Types
          <5>2. \A c \in Cpus : ArchId[c] # MAX_UINT64
            BY Ranges
          <5>. QED
            BY <5>1, <5>2
        <4>. QED
          BY <2>3, <3>2, <4>1
      <3>4. ASSUME NEW c \in Cpus, ArchId[c] = Head(Plugged)
            PROVE  c \in present /\ smbase[c] = SMM_DEFAULT_SMBASE
        <4>1. c \in present
          BY <1>a, <3>4, PluggedInserted
        <4>. QED
          BY <1>0, <2>3, <3>2, <3>4, <4>1, Types DEF Known
      <3>5. \A t \in Slots, c \in Cpus : ApicId[t] = ArchId[c] =>
               c \in present /\ smbase[c] = t
        BY <1>0, <1>a DEF Safe, Ownership, Target, Relocating
      <3>. QED
        BY <1>0, <1>a, <2>3, <3>2, <3>3, <3>4, <3>5, Types
           DEF Ownership, Target, Relocating
    <2>. QED
      BY <1>0, <2>1, <2>2, <2>3, ProcessCases
  <1>5. Ejection'
    BY <1>0, <1>a, <1>b
       DEF Safe, Ejection, Stashed, BeforeExit, AfterExit, Relocating, SmiExit
  <1>6. Collection'
    <2>1. CASE pc' = "dead"
      BY <1>0, <2>1 DEF Safe, Collection, BeforeExit, Relocating
    <2>2. CASE /\ Known(Head(Plugged)) /\ Plugged' = Tail(Plugged)
               /\ UNCHANGED <<ApicId, pc>>
      <3>1. Range(Plugged) = {Head(Plugged)} \cup Range(Plugged')
        BY <1>0, <1>a, <2>2, CollectedTypes
      <3>. QED
        BY <1>0, <1>a, <2>2, <3>1 DEF Safe, Collection, Known, BeforeExit, Relocating
    <2>3. ASSUME NEW s \in Slots, ApicId[s] = MAX_UINT64,
                 ApicId' = [ApicId EXCEPT ![s] = Head(Plugged)],
                 pc' = "boot", UNCHANGED Plugged
          PROVE  Collection'
      <3>1. \A c \in Cpus : Known(ArchId[c]) => Known(ArchId[c])'
        BY <1>0, <2>3, Types, Ranges DEF Known
      <3>. QED
        BY <1>0, <1>a, <2>3, <3>1, Types DEF Safe, Collection, BeforeExit, Relocating
    <2>. QED
      BY <1>0, <2>1, <2>2, <2>3, ProcessCases
  <1>7. SmbaseUnique'
    BY <1>0, <1>a DEF Safe, SmbaseUnique
  <1>. QED
    BY <1>1, <1>2, <1>3, <1>4, <1>5, <1>6, <1>7 DEF Safe

\* The slot found is the SMBASE of the CPU whose selector is stashed.
LEMMA UnplugCpuStep ==
    ASSUME IInv, UnplugCpu
    PROVE  Safe'
  <1>. USE DEF qemu, first, data, mmi, cpus
  <1>0. TypeInv /\ Safe
    BY DEF IInv
  <1>a. /\ pc = "unplug" /\ ToUnplug # <<>>
        /\ UNCHANGED <<qemu, cpus, first, Handler, ApmControl, CurrentSelector, Plugged,
                       NewSlot, Idx, osSeen>>
    BY DEF UnplugCpu
  <1>b. pc' \in {"unplug", "dead"}
    BY <1>0, UnplugType
  <1>1. Existence'
    BY <1>0, <1>a DEF Safe, Existence
  <1>2. Phases'
    BY <1>0, <1>a, <1>b
       DEF Safe, Phases, BeforeExit, AfterExit, Relocating, FirstSmi, SmiExit
  <1>3. Handshake'
    BY <1>0, <1>a, <1>b DEF Safe, Handshake, Target, Relocating, FirstSmi
  <1>4. Ownership'
    <2>1. CASE pc' = "dead"
      BY <2>1 DEF Ownership
    <2>2. CASE UNCHANGED <<ApicId, QemuSelectorMap, pc>>
      BY <1>0, <1>a, <2>2 DEF Safe, Ownership, Target, Stashed, Relocating
    <2>3. ASSUME NEW s \in Slots, ApicId[s] = Head(ToUnplug).id,
                 ApicId' = [ApicId EXCEPT ![s] = MAX_UINT64],
                 QemuSelectorMap' = [QemuSelectorMap EXCEPT ![s] =
                    Head(ToUnplug).selector],
                 UNCHANGED pc
          PROVE  Ownership'
      <3>. DEFINE gone == Head(ToUnplug).selector
      <3>1. gone \in Cpus /\ ApicId[s] = ArchId[gone]
        BY <1>0, <1>a, <2>3, Types, CollectedTypes DEF Safe, Collection, BeforeExit
      <3>. HIDE DEF gone
      <3>2. \A c \in present : smbase[c] = s /\ ApicId[s] = ArchId[c] => c = gone
        BY <1>0, <3>1, Types, Identities
      <3>3. QemuSelectorMap' = [QemuSelectorMap EXCEPT ![s] = gone]
        BY <2>3 DEF gone
      <3>4. gone # MAX_UINT64
        BY <3>1, Identities
      <3>5. \A c \in present : smbase[c] \in Slots =>
               \/ ApicId'[smbase[c]] = ArchId[c]
               \/ QemuSelectorMap'[smbase[c]] # MAX_UINT64 /\
                  QemuSelectorMap'[smbase[c]] = c
        <4>. SUFFICES ASSUME NEW c \in present, smbase[c] \in Slots
                      PROVE  \/ ApicId'[smbase[c]] = ArchId[c]
                             \/ /\ QemuSelectorMap'[smbase[c]] # MAX_UINT64
                                /\ QemuSelectorMap'[smbase[c]] = c
          OBVIOUS
        <4>1. \/ ApicId[smbase[c]] = ArchId[c]
              \/ /\ QemuSelectorMap[smbase[c]] # MAX_UINT64
                 /\ QemuSelectorMap[smbase[c]] = c
                 /\ ApicId[smbase[c]] = MAX_UINT64
          BY <1>0, <1>a DEF Safe, Ownership, Ejection, Stashed
        <4>2. CASE smbase[c] = s
          BY <1>0, <2>3, <3>1, <3>2, <3>3, <3>4, <4>1, <4>2, Types, Ranges
        <4>3. CASE smbase[c] # s
          BY <1>0, <2>3, <3>3, <4>1, <4>3, Types
        <4>. QED
          BY <4>2, <4>3
      <3>6. \A t \in Slots, c \in Cpus : ApicId'[t] = ArchId[c] => ApicId[t] = ArchId[c]
        BY <1>0, <2>3, Types, Ranges
      <3>. QED
        BY <1>0, <1>a, <2>3, <3>5, <3>6 DEF Safe, Ownership, Target, Stashed, Relocating
    <2>. QED
      BY <1>0, <2>1, <2>2, <2>3, UnplugCases
  <1>5. Ejection'
    BY <1>0, Types, LocalTypes, UnplugCases, CollectedTypes, <1>a
       DEF Safe, Ejection, Stashed, BeforeExit, AfterExit, Relocating, SmiExit,
       Collection, Known, Phases, FirstSmi, Ownership, Target
  <1>6. Collection'
    <2>1. CASE pc' = "dead"
      BY <1>0, <2>1 DEF Safe, Collection, BeforeExit, Relocating
    <2>2. ASSUME ToUnplug' = Tail(ToUnplug), UNCHANGED pc,
                 \A c \in osSeen : Known(ArchId[c])'
          PROVE  Collection'
      <3>1. Range(ToUnplug) = {Head(ToUnplug)} \cup Range(ToUnplug')
        BY <1>0, <1>a, <2>2, CollectedTypes
      <3>. QED
        BY <1>0, <1>a, <2>2, <3>1 DEF Safe, Collection, BeforeExit, Relocating
    <2>3. \A c \in osSeen : Known(ArchId[c])
      BY <1>0, <1>a DEF Safe, Collection, Relocating
    <2>4. ASSUME NEW s \in Slots, ApicId[s] = Head(ToUnplug).id,
                 ApicId' = [ApicId EXCEPT ![s] = MAX_UINT64],
                 NEW c \in osSeen
          PROVE  Known(ArchId[c])'
      <3>1. /\ Head(ToUnplug).selector \in fwRemove
            /\ ApicId[s] = ArchId[Head(ToUnplug).selector]
        BY <1>0, <1>a, <2>4, CollectedTypes DEF Safe, Collection, BeforeExit
      <3>2. ApicId[s] # ArchId[c]
        BY <1>0, <2>4, <3>1, Types, Identities DEF Safe, Existence
      <3>. QED
        BY <1>0, <2>3, <2>4, <3>2, Types DEF Known
    <2>5. CASE UNCHANGED ApicId
      <3>1. \A c \in osSeen : Known(ArchId[c])'
        BY <2>3, <2>5 DEF Known
      <3>. QED
        BY <1>0, <2>1, <2>2, <3>1, UnplugCases
    <2>. QED
      BY <1>0, <2>1, <2>2, <2>4, <2>5, UnplugCases
  <1>7. SmbaseUnique'
    BY <1>0, <1>a DEF Safe, SmbaseUnique
  <1>. QED
    BY <1>1, <1>2, <1>3, <1>4, <1>5, <1>6, <1>7 DEF Safe

\* The ejected CPU is the stashed one, after its exit signal.
LEMMA EjectCpuBspStep ==
    ASSUME IInv, EjectCpuBsp
    PROVE  Safe'
  <1>. USE DEF qemu, first, data, mmi, cpus, EjectCpuBsp, QemuEject,
     RegisterAccessFails, Fatal
  <1>0. TypeInv /\ Safe
    BY DEF IInv
  <1>1. Existence'
    BY <1>0, Types, LocalTypes, Ranges
       DEF Safe, Existence, Ejection, Stashed, BeforeExit, AfterExit, Relocating,
       SmiExit
  <1>2. Phases'
    BY <1>0, Types DEF Safe, Phases, BeforeExit, AfterExit, Relocating, FirstSmi, SmiExit
  <1>3. Handshake'
    BY <1>0, Types DEF Safe, Handshake, Target, Relocating, FirstSmi
  <1>4. Ownership'
    BY <1>0, LocalTypes, Ranges
       DEF Safe, Ownership, Target, Stashed, Relocating, Ejection, BeforeExit,
       AfterExit, SmiExit
  <1>5. Ejection'
    BY <1>0, Identities, Types, LocalTypes, Ranges
       DEF Safe, Ejection, Stashed, BeforeExit, AfterExit, Relocating, SmiExit,
       Existence, SmbaseUnique
  <1>6. Collection'
    BY <1>0 DEF Safe, Collection, Known, BeforeExit, Relocating
  <1>7. SmbaseUnique'
    BY <1>0 DEF Safe, SmbaseUnique
  <1>. QED
    BY <1>1, <1>2, <1>3, <1>4, <1>5, <1>6, <1>7 DEF Safe

-----------------------------------------------------------------------------
(* The invariant and what follows from it.                                 *)

LEMMA IInvInit == ASSUME Init PROVE IInv
  <1>. USE Identities, Ranges, CpuCountAssumption
       DEF Init, InitCpuHotEjectData
  <1>1. TypeInv
    BY TypeInvInit
  <1>2. Existence
    <2>1. \A c \in Cpus : c \in present <=> c < BootCpuCount
      BY DEF Cpus
    <2>2. Bsp \in Cpus /\ Bsp < BootCpuCount
      BY DEF Cpus, Bsp
    <2>. QED
      BY <2>1, <2>2 DEF Existence
  <1>3. Phases
    BY DEF Phases, Cpus, Slots, FirstSmi, SmiExit
  <1>4. Handshake
    BY DEF Handshake, Target, Relocating, FirstSmi
  <1>5. Ownership
    BY DEF Ownership, Target, Stashed, Relocating, Cpus, Slots
  <1>6. Ejection
    BY DEF Ejection, Stashed, BeforeExit, AfterExit, Relocating, SmiExit
  <1>7. Collection
    BY DEF Collection, BeforeExit, Relocating
  <1>8. SmbaseUnique
    BY DEF SmbaseUnique, Cpus
  <1>. QED
    BY <1>1, <1>2, <1>3, <1>4, <1>5, <1>6, <1>7, <1>8 DEF IInv, Safe

LEMMA SafeNext == ASSUME IInv, [Next]_vars PROVE Safe'
  <1>1. CASE CpuHotplugEntry
    BY <1>1, CpuHotplugEntryStep
  <1>2. CASE CpuHotplugMmi
    BY <1>2, CpuHotplugMmiStep
  <1>3. CASE ProcessHotAddedCpusDone
    BY <1>3, ProcessHotAddedCpusDoneStep
  <1>4. CASE BootHotAddedCpu
    BY <1>4, BootHotAddedCpuStep
  <1>5. CASE ExposeNewSmbase
    BY <1>5, ExposeNewSmbaseStep
  <1>6. CASE UngateHotAddedCpu
    BY <1>6, UngateHotAddedCpuStep
  <1>7. CASE AwaitAboutToLeaveSmm
    BY <1>7, AwaitAboutToLeaveSmmStep
  <1>8. CASE AwaitSmmVacated
    BY <1>8, AwaitSmmVacatedStep
  <1>9. CASE AddProcessor
    BY <1>9, AddProcessorStep
  <1>10. CASE UnplugCpusDone
    BY <1>10, UnplugCpusDoneStep
  <1>11. CASE ReleaseAps
    BY <1>11, ReleaseApsStep
  <1>12. CASE SmmCpuFeaturesRendezvousExitBsp
    BY <1>12, SmmCpuFeaturesRendezvousExitBspStep
  <1>13. CASE EjectCpuBspClear
    BY <1>13, EjectCpuBspClearStep
  <1>14. CASE EjectCpuBspDone
    BY <1>14, EjectCpuBspDoneStep
  <1>15. ASSUME NEW command \in {"hotplug", "other"}, BroadcastSmi(command)
        PROVE  Safe'
    BY <1>15, BroadcastSmiStep
  <1>16. ASSUME NEW e \in Cpus, KnockOnGate(e)
        PROVE  Safe'
    BY <1>16, KnockOnGateStep
  <1>17. ASSUME NEW e \in Cpus, UpdateSmbase(e)
        PROVE  Safe'
    BY <1>17, UpdateSmbaseStep
  <1>18. ASSUME NEW e \in Cpus, SetAboutToLeaveSmm(e)
        PROVE  Safe'
    BY <1>18, SetAboutToLeaveSmmStep
  <1>19. ASSUME NEW e \in Cpus, Rsm(e)
        PROVE  Safe'
    BY <1>19, RsmStep
  <1>20. ASSUME NEW e \in Cpus, PostSmmPen(e)
        PROVE  Safe'
    BY <1>20, PostSmmPenStep
  <1>21. ASSUME NEW e \in Cpus, SmmCpuFeaturesRendezvousExitAp(e)
        PROVE  Safe'
    BY <1>21, SmmCpuFeaturesRendezvousExitApStep
  <1>22. ASSUME NEW e \in Cpus, EjectCpuAp(e)
        PROVE  Safe'
    BY <1>22, EjectCpuApStep
  <1>23. ASSUME NEW e \in Cpus, QemuPlug(e)
        PROVE  Safe'
    BY <1>23, QemuPlugStep
  <1>24. ASSUME NEW e \in Cpus, QemuRequestRemove(e)
        PROVE  Safe'
    BY <1>24, QemuRequestRemoveStep
  <1>25. ASSUME NEW e \in Cpus, OsEject(e)
        PROVE  Safe'
    BY <1>25, OsEjectStep
  <1>26. ASSUME NEW e \in Cpus, OsOnline(e)
        PROVE  Safe'
    BY <1>26, OsOnlineStep
  <1>27. CASE QemuCpuhpCollectApicIds
    BY <1>27, QemuCpuhpCollectApicIdsStep
  <1>28. CASE ProcessHotAddedCpu
    BY <1>28, ProcessHotAddedCpuStep
  <1>29. CASE UnplugCpu
    BY <1>29, UnplugCpuStep
  <1>30. CASE EjectCpuBsp
    BY <1>30, EjectCpuBspStep
  <1>31. CASE UNCHANGED vars
    BY <1>31 DEF vars, qemu, cpus, first, data, mmi, IInv, Safe, Existence, Phases,
       Handshake, Ownership, Ejection, Collection, SmbaseUnique, Target, Stashed, Known
  <1>. QED
    BY <1>1, <1>2, <1>3, <1>4, <1>5, <1>6, <1>7, <1>8, <1>9, <1>10, <1>11, <1>12,
       <1>13, <1>14, <1>15, <1>16, <1>17, <1>18, <1>19, <1>20, <1>21, <1>22, <1>23,
       <1>24, <1>25, <1>26, <1>27, <1>28, <1>29, <1>30, <1>31
       DEF Next, Monarch, HotAddedCpu, Ap, Environment

\* The inductive invariant holds: each property below is a consequence of it.
THEOREM Inductive == Spec => []IInv
  <1>1. Init => IInv
    BY IInvInit
  <1>2. IInv /\ [Next]_vars => IInv'
    BY TypeInvNext, SafeNext DEF IInv
  <1>. QED
    BY <1>1, <1>2, PTL DEF Spec

\* Two CPUs never share an SMBASE other than the default one, however plugs, ejects,
\* MMIs and the first SMI handler interleave: a slot that RemoveProcessor() gives
\* back is not handed on before its CPU is gone.
THEOREM SmbasesDisjoint == Spec => []SmbaseUnique
  <1>1. IInv => SmbaseUnique
    BY DEF IInv, Safe
  <1>. QED
    BY <1>1, Inductive, PTL

\* Every CPU that executes in the OS was relocated, and CPU_HOT_PLUG_DATA has it in
\* the slot of its SMBASE; none that UnplugCpus() removed gets back to the OS.
THEOREM RunningCpusRegistered == Spec => []RunningRegistered
  <1>1. ASSUME IInv, pc # "dead", NEW c \in Cpus, cpu[c] = "run"
        PROVE  smbase[c] \in Slots /\ ApicId[smbase[c]] = ArchId[c]
    <2>1. c \in present /\ smbase[c] \in Slots
      BY <1>1 DEF IInv, Safe, Existence, Phases
    <2>2. ~(Stashed(smbase[c]) /\ QemuSelectorMap[smbase[c]] = c)
      BY <1>1, <2>1 DEF IInv, Safe, Ejection, SmiExit
    <2>. QED
      BY <1>1, <2>1, <2>2 DEF IInv, Safe, Ownership
  <1>2. IInv => RunningRegistered
    BY <1>1 DEF RunningRegistered
  <1>. QED
    BY <1>2, Inductive, PTL

\* FirstSmiHandler.nasm, with its context and save state map at the default SMBASE,
\* is executed by one CPU at a time.
THEOREM FirstSmiHandlerExclusive == Spec => []DefaultSmbaseExclusive
  <1>1. IInv => DefaultSmbaseExclusive
    BY Identities DEF IInv, Safe, Handshake, Target, DefaultSmbaseExclusive
  <1>. QED
    BY <1>1, Inductive, PTL

\* EjectCpu() halts only CPUs whose own selector is stashed and that the BSP is
\* going to eject.
THEOREM OnlyDoomedHalt == Spec => []HaltedIsDoomed
  <1>1. IInv => HaltedIsDoomed
    BY DEF IInv, Safe, Ejection, HaltedIsDoomed
  <1>. QED
    BY <1>1, Inductive, PTL

\* Between MMIs each used slot of CPU_HOT_PLUG_DATA belongs to a CPU that exists
\* and runs from the slot's SMBASE.
THEOREM SlotsAreCurrent == Spec => []NoStaleSlot
  <1>1. ASSUME IInv, pc = "idle", NEW s \in Slots, ApicId[s] # MAX_UINT64
        PROVE  \E c \in present : ArchId[c] = ApicId[s] /\ smbase[c] = s
    <2>1. ApicId[s] \in ApicIds
      BY <1>1, Types DEF IInv
    <2>2. PICK c \in Cpus : ArchId[c] = ApicId[s]
      BY <2>1, Identities
    <2>3. c \in present /\ smbase[c] = s
      BY <1>1, <2>2 DEF IInv, Safe, Ownership, Target, Relocating
    <2>. QED
      BY <2>2, <2>3
  <1>2. IInv => NoStaleSlot
    BY <1>1 DEF NoStaleSlot
  <1>. QED
    BY <1>2, Inductive, PTL

\* EjectCpu() makes a CPU disappear only on the OS's request, and only after the CPU
\* has received the BSP's SMI exit signal.
THEOREM EjectsOnlyReleased == Spec => EjectOnlyReleased
  <1>. DEFINE Released ==
          \A c \in Cpus : c \in present /\ c \notin present' =>
             c \in fwRemove /\ cpu[c] \in SmiExit
  <1>1. ASSUME IInv, EjectCpuBsp PROVE Released
    <2>1. CASE UNCHANGED present
      BY <2>1
    <2>2. CASE /\ QemuSelectorMap[Idx] # MAX_UINT64
               /\ present' = present \ {QemuSelectorMap[Idx]}
      <3>1. Idx \in Slots /\ pc = "eject"
        BY <1>1, LocalTypes, Ranges DEF EjectCpuBsp, IInv
      <3>2. Stashed(Idx)
        BY <2>2, <3>1 DEF Stashed
      <3>3. /\ QemuSelectorMap[Idx] \in fwRemove
            /\ cpu[QemuSelectorMap[Idx]] \in {"smm"} \cup SmiExit
            /\ QemuSelectorMap[Idx] \in Cpus
        BY <1>1, <2>2, <3>1, <3>2, Types DEF IInv, Safe, Ejection
      <3>4. cpu[QemuSelectorMap[Idx]] # "smm"
        BY <1>1, <3>1, <3>3 DEF IInv, Safe, Phases, BeforeExit, Relocating
      <3>. QED
        BY <2>2, <3>3, <3>4
    <2>. QED
      BY <1>1, <2>1, <2>2 DEF EjectCpuBsp, QemuEject, RegisterAccessFails, qemu
  <1>2. ASSUME [Next]_vars, ~EjectCpuBsp PROVE present \subseteq present'
    BY <1>2 DEF Next, Monarch, HotAddedCpu, Ap, Environment, vars, qemu, first, data, mmi,
       cpus, CpuHotplugEntry, CpuHotplugMmi, QemuCpuhpCollectApicIds, ProcessHotAddedCpu,
       ProcessHotAddedCpusDone, BootHotAddedCpu, ExposeNewSmbase, UngateHotAddedCpu,
       AwaitAboutToLeaveSmm, AwaitSmmVacated, AddProcessor, UnplugCpu, UnplugCpusDone,
       ReleaseAps, SmmCpuFeaturesRendezvousExitBsp, EjectCpuBspClear, EjectCpuBspDone,
       KnockOnGate, UpdateSmbase, SetAboutToLeaveSmm, Rsm, PostSmmPen,
       SmmCpuFeaturesRendezvousExitAp, EjectCpuAp, QemuPlug, QemuRequestRemove, OsEject,
       OsOnline, BroadcastSmi
  <1>3. IInv /\ [Next]_vars => [Released]_vars
    BY <1>1, <1>2
  <1>. QED
    BY <1>3, Inductive, PTL DEF Spec, EjectOnlyReleased
=============================================================================
