-------------------------- MODULE AcpiLoaderProofs --------------------------
(***************************************************************************)
(* The linker/loader script of AcpiPlatformDxe, for every script, every    *)
(* number of files and slots and a failure at every step: an inductive     *)
(* invariant of AcpiLoader, and the theorems that follow from it.          *)
(***************************************************************************)
EXTENDS AcpiLoader, SequenceTheorems, WellFoundedInduction, TLAPS

-----------------------------------------------------------------------------
(* The inductive invariant, by subject.                                    *)

BeforeFirstPass == {"AllocateLoader", "CollectAllocationsRestrictedTo32Bit",
                    "AllocateS3Context", "InitTracker"}
BeforeSecondPass == BeforeFirstPass \cup {"FirstPass", "AllocateKeys", "InitSeenPointers"}
TrackerFreed == {"FreeS3Context", "FreeAllocationsRestrictedTo32Bit", "FreeLoader", "Returned"}
Ended == Labels \cup {"Returned"}

\* A file that a successful run does not free, and what it is kept for.
Pinned(f) == f \in mem /\ (f \in DOMAIN Tracker => ~Tracker[f])
Wanted(f) ==
    \/ \E i \in 1 .. Len(script) : script[i].Type = "WritePointer" /\ script[i].target[1] = f
    \/ \E t \in DOMAIN content : t[1] = f /\ content[t] = "Opaque"

Memory ==
    /\ DOMAIN Tracker \subseteq mem
    /\ Status = "Error" \/ pc \notin TrackerFreed \cup {"FreeTracker", "DeadLoop"}
          => mem = DOMAIN Tracker
    /\ pc \in BeforeFirstPass \cup TrackerFreed => DOMAIN Tracker = {}
    /\ \A f \in mem : Pinned(f) => Wanted(f)

\* QEMU's addresses, and the commands that wrote them.
Told(slot, n) ==
    \E i \in 1 .. n : script[i].Type = "WritePointer" /\ script[i].slot = slot

HostPointers ==
    /\ \A slot \in Slots : host[slot] # NoTarget => Pinned(host[slot][1])
    /\ pc \notin TrackerFreed \cup {"UndoWritePointers", "FreeTracker", "DeadLoop"} =>
          \A slot \in Slots : host[slot] # NoTarget => Told(slot, WritePointerSubsetEnd)
    /\ pc = "UndoWritePointers" =>
          \A slot \in Slots : host[slot] # NoTarget => Told(slot, pos)
    /\ pc \in BeforeFirstPass \/ (Status = "Error" /\ pc \in TrackerFreed \cup {"FreeTracker"}) =>
          \A slot \in Slots : host[slot] = NoTarget
    /\ pc \in BeforeFirstPass => s3 = <<>>
    /\ Status = "Success" => \A w \in Range(s3) : Pinned(w.value[1])

\* The address a slot was last given in the S3 context.
LastWrite(ws) ==
    [slot \in Slots |->
        LET W == {k \in 1 .. Len(ws) : ws[k].slot = slot}
        IN  IF W = {} THEN NoTarget ELSE ws[Max(W)].value]

\* The way of the S3 context to the boot script; nothing fails after it is handed over.
Context ==
    /\ pc \in {"AllocateLoader", "CollectAllocationsRestrictedTo32Bit", "AllocateS3Context"}
          => ~S3Context
    /\ pc \in {"InitTracker", "FirstPass", "AllocateKeys", "InitSeenPointers", "SecondPass"}
          => (S3Context <=> S3Enabled)
    /\ pc \in S3Steps => S3Context /\ S3Enabled
    /\ pc \in S3Steps \ {"TransferS3ContextToBootScript"} => s3 # <<>>
    /\ pc \in TrackerFreed \ {"FreeS3Context"} => ~S3Context
    /\ queued \/ bootScript # <<>> => pc \in Ended \cup {"DeadLoop"} /\ Status = "Success"
    /\ queued => bootScript = <<>> /\ ~S3Context /\ s3 # <<>>
    /\ bootScript \in {<<>>, OpcodesOf(s3)}
    /\ pc \in Ended /\ Status = "Success" /\ S3Enabled =>
          ~S3Context /\ (queued \/ bootScript = OpcodesOf(s3))
    /\ Status = "Success" /\ S3Enabled => host = LastWrite(s3)
    /\ Status = "Error" => pc \in Ended \cup {"CloseEvent", "FreeDmaAccess"}
    /\ pc \in {"CloseEvent", "FreeDmaAccess"} => Status = "Error"
    /\ pc = "UndoWritePointers" => Status = "Error"
    /\ pc = "DeadLoop" => queued

\* What is held where.
Holds(object, where) == pc # "DeadLoop" => (object \in held <=> pc \in where)

Holdings ==
    /\ Holds("Loader", {"CollectAllocationsRestrictedTo32Bit", "AllocateS3Context", "InitTracker",
                        "FirstPass", "AllocateKeys", "InitSeenPointers", "SecondPass"}
                       \cup S3Steps \cup Labels)
    /\ Holds("AllocationsRestrictedTo32Bit",
             {"AllocateS3Context", "InitTracker", "FirstPass", "AllocateKeys",
              "InitSeenPointers", "SecondPass"} \cup S3Steps \cup (Labels \ {"FreeLoader"}))
    /\ Holds("Tracker", {"FirstPass", "AllocateKeys", "InitSeenPointers", "SecondPass"}
                        \cup S3Steps \cup (Labels \ TrackerFreed))
    /\ Holds("InstalledKey", {"InitSeenPointers", "SecondPass", "UninstallAcpiTables", "FreeKeys"}
                             \cup S3Steps)
    /\ Holds("SeenPointers", {"SecondPass", "UninstallAcpiTables"} \cup S3Steps)
    /\ pc # "DeadLoop" => ("S3Context" \in held <=> S3Context \/ queued)
    /\ pc # "DeadLoop" => ("DmaAccess" \in held <=>
          queued \/ bootScript # <<>> \/ pc \in S3Steps \ {"TransferS3ContextToBootScript"})
    /\ pc # "DeadLoop" => ("S3SaveStateInstalledEvent" \in held <=>
          queued \/ pc \in {"RegisterProtocolNotify", "SignalEvent", "CloseEvent"})
    /\ pc = "DeadLoop" => {"S3Context", "DmaAccess", "S3SaveStateInstalledEvent"} \subseteq held

\* The tables installed, and the addresses looked at.
Tables ==
    /\ DOMAIN acpi = 1 .. Installed
    /\ Range(acpi) \subseteq SeenPointers
    /\ IsInjective(acpi)
    /\ DOMAIN content = SeenPointers
    /\ pc \in BeforeSecondPass => Installed = 0
    /\ Status = "Error" /\ pc \in Ended \ {"UninstallAcpiTables"} => Installed = 0
    /\ Status = "Success" =>
          \A t \in DOMAIN content : content[t] = "Table" => t \in Range(acpi)
    /\ Status = "Success" => \A t \in DOMAIN content : content[t] = "Opaque" => Pinned(t[1])

\* Every relocated pointer is followed by the second pass.
Pointers ==
    /\ \A i \in 1 .. Len(script) : script[i].Type = "AddPointer" =>
          script[i].pointer \in DOMAIN fields
    /\ \A p \in DOMAIN fields : \E i \in 1 .. Len(script) :
          script[i].Type = "AddPointer" /\ script[i].pointer = p
    /\ pc \notin TrackerFreed \cup {"FreeTracker", "DeadLoop"} =>
          \A p \in DOMAIN fields : fields[p][1] \in DOMAIN Tracker
    /\ pc \in {"AllocateKeys", "InitSeenPointers"} => pos = 1
    /\ pc = "SecondPass" => pos > 0
    /\ pc = "SecondPass" => \A i \in 1 .. pos - 1 : script[i].Type = "AddPointer" =>
          fields[script[i].pointer] \in SeenPointers
    /\ Status = "Success" /\ pc \in S3Steps \cup Ended =>
          \A p \in DOMAIN fields : fields[p] \in SeenPointers

Inv == TypeOK /\ Memory /\ HostPointers /\ Context /\ Holdings /\ Tables /\ Pointers
-----------------------------------------------------------------------------
(* Lemmas about partial functions and about the script.                    *)

PartialFcns(D, R) == UNION {[S -> R] : S \in SUBSET D}

\* What membership in PartialFcns means.
LEMMA PartialFcn ==
    ASSUME NEW D, NEW R, NEW f
    PROVE  f \in PartialFcns(D, R) <=> DOMAIN f \subseteq D /\ f \in [DOMAIN f -> R]
  <1>1. ASSUME f \in PartialFcns(D, R)
        PROVE  DOMAIN f \subseteq D /\ f \in [DOMAIN f -> R]
    <2>1. PICK S \in SUBSET D : f \in [S -> R]
      BY <1>1 DEF PartialFcns
    <2>2. DOMAIN f = S
      BY <2>1
    <2>. QED
      BY <2>1, <2>2
  <1>2. ASSUME DOMAIN f \subseteq D, f \in [DOMAIN f -> R]
        PROVE  f \in PartialFcns(D, R)
    BY <1>2 DEF PartialFcns
  <1>. QED
    BY <1>1, <1>2

\* Extending, restricting and changing a partial function.
LEMMA PartialFcnOps ==
    ASSUME NEW D, NEW R, NEW f \in PartialFcns(D, R)
    PROVE  /\ \A x \in D, y \in R : Extend(f, x, y) \in PartialFcns(D, R)
           /\ \A x : Restrict(f, DOMAIN f \ {x}) \in PartialFcns(D, R)
           /\ \A x, y \in R : [f EXCEPT ![x] = y] \in PartialFcns(D, R)
  <1>1. DOMAIN f \subseteq D /\ f \in [DOMAIN f -> R]
    BY PartialFcn
  <1>2. ASSUME NEW x \in D, NEW y \in R
        PROVE  Extend(f, x, y) \in PartialFcns(D, R)
    <2>1. Extend(f, x, y) \in [DOMAIN f \cup {x} -> R]
      BY <1>1 DEF Extend
    <2>. QED
      BY <1>1, <2>1 DEF PartialFcns
  <1>3. ASSUME NEW x
        PROVE  Restrict(f, DOMAIN f \ {x}) \in PartialFcns(D, R)
    <2>1. Restrict(f, DOMAIN f \ {x}) \in [DOMAIN f \ {x} -> R]
      BY <1>1 DEF Restrict
    <2>. QED
      BY <1>1, <2>1 DEF PartialFcns
  <1>4. ASSUME NEW x, NEW y \in R
        PROVE  [f EXCEPT ![x] = y] \in PartialFcns(D, R)
    <2>1. [f EXCEPT ![x] = y] \in [DOMAIN f -> R]
      BY <1>1
    <2>. QED
      BY <1>1, <2>1 DEF PartialFcns
  <1>. QED
    BY <1>2, <1>3, <1>4

\* A command is appended; the commands before it stay.
LEMMA Appended ==
    ASSUME NEW S, NEW s \in Seq(S), NEW c \in S
    PROVE  /\ Append(s, c) \in Seq(S) /\ Len(Append(s, c)) = Len(s) + 1
           /\ Append(s, c)[Len(s) + 1] = c
           /\ \A i \in 1 .. Len(s) : Append(s, c)[i] = s[i]
           /\ Len(s) \in Nat
  BY AppendProperties

\* What TypeOK says of the partial functions.
LEMMA Fcns ==
    /\ TypeOK => /\ Tracker \in PartialFcns(Files, BOOLEAN)
                 /\ fields \in PartialFcns(Locations, Locations)
                 /\ content \in PartialFcns(Locations, Contents)
                 /\ acpi \in PartialFcns(1 .. INSTALLED_TABLES_MAX, Locations)
  BY DEF TypeOK, PartialFcns

\* The steps and the labels of InstallQemuFwCfgTables(), by name.
LEMMA Names ==
    Acquisitions \cup S3Steps \cup Labels
        = {"AllocateLoader", "CollectAllocationsRestrictedTo32Bit", "AllocateS3Context",
           "InitTracker", "AllocateKeys", "InitSeenPointers", "TransferS3ContextToBootScript",
           "CreateEvent", "RegisterProtocolNotify", "SignalEvent", "CloseEvent",
           "FreeDmaAccess", "UninstallAcpiTables", "FreeKeys",
           "RollbackWritePointersAndFreeTracker", "UndoWritePointers", "FreeTracker",
           "FreeS3Context", "FreeAllocationsRestrictedTo32Bit", "FreeLoader"}
  BY DEF Acquisitions, S3Steps, Labels

-----------------------------------------------------------------------------
(* Type correctness.                                                       *)

\* The types hold initially.
LEMMA TypeInit == ASSUME Init PROVE TypeOK
  <1>1. EmptyFcn = [x \in {} |-> x] /\ \A D, R : EmptyFcn \in PartialFcns(D, R)
    BY DEF EmptyFcn, PartialFcns
  <1>2. /\ Tracker \in PartialFcns(Files, BOOLEAN) /\ fields \in PartialFcns(Locations, Locations)
        /\ content \in PartialFcns(Locations, Contents)
        /\ acpi \in PartialFcns(1 .. INSTALLED_TABLES_MAX, Locations)
    BY <1>1 DEF Init
  <1>3. host \in [Slots -> Locations \cup {NoTarget}]
    BY DEF Init
  <1>4. /\ script \in Seq(Commands) /\ s3 \in Seq([slot : Slots, value : Locations])
        /\ bootScript \in Seq(Opcodes) /\ Len(script) = 0
    BY DEF Init
  <1>5. /\ pc \in Acquisitions /\ Status \in {"Success", "Error"}
        /\ S3Context \in BOOLEAN /\ queued \in BOOLEAN /\ S3Enabled \in BOOLEAN
    BY DEF Init, Acquisitions
  <1>6. /\ pos \in 0 .. Len(script) + 1 /\ WritePointerSubsetEnd \in 0 .. Len(script)
        /\ Installed \in 0 .. INSTALLED_TABLES_MAX
    BY <1>4, AcpiLoaderAssumption DEF Init
  <1>7. held \subseteq Objects /\ mem \subseteq Files /\ SeenPointers \subseteq Locations
    BY DEF Init
  <1>. QED
    BY <1>2, <1>3, <1>4, <1>5, <1>6, <1>7 DEF TypeOK, PartialFcns

\* The steps that change neither the first pass's nor the second pass's results.
Control ==
    \/ AllocateLoader \/ CollectAllocationsRestrictedTo32Bit \/ AllocateS3Context
    \/ InitTracker \/ AllocateKeys \/ InitSeenPointers
    \/ CommandFails \/ FirstPassDone \/ SkipCommand
    \/ Process2ndPassFails \/ SecondPassDone \/ TransferEmptyContext
    \/ ReserveDmaAccess \/ CreateEvent \/ RegisterProtocolNotify
    \/ SignalEvent \/ CloseEvent \/ FreeDmaAccess
    \/ FreeSeenPointers \/ FreeKeys \/ RollbackWritePointersAndFreeTracker
    \/ FreeTracker \/ FreeS3Context \/ FreeAllocationsRestrictedTo32Bit
    \/ FreeLoader \/ AppendFatalError

\* Steps that only move pc and release objects keep the types.
LEMMA ControlType == ASSUME TypeOK, Control PROVE TypeOK'
  <1>. USE Names DEF TypeOK, firstPass, secondPass, s3State, Objects
  <1>1. CASE AllocateLoader
    BY <1>1 DEF AllocateLoader, Acquire
  <1>2. CASE CollectAllocationsRestrictedTo32Bit
    BY <1>2 DEF CollectAllocationsRestrictedTo32Bit, Acquire
  <1>3. CASE AllocateS3Context
    BY <1>3 DEF AllocateS3Context
  <1>4. CASE InitTracker
    BY <1>4 DEF InitTracker, Acquire
  <1>5. CASE AllocateKeys
    BY <1>5 DEF AllocateKeys, Acquire
  <1>6. CASE InitSeenPointers
    BY <1>6 DEF InitSeenPointers, Acquire
  <1>7. CASE CommandFails
    BY <1>7 DEF CommandFails
  <1>8. CASE FirstPassDone
    BY <1>8 DEF FirstPassDone
  <1>9. CASE SkipCommand
    BY <1>9 DEF SkipCommand
  <1>10. CASE Process2ndPassFails
    BY <1>10 DEF Process2ndPassFails
  <1>11. CASE SecondPassDone
    BY <1>11 DEF SecondPassDone
  <1>12. CASE TransferEmptyContext
    BY <1>12 DEF TransferEmptyContext
  <1>13. CASE ReserveDmaAccess
    BY <1>13 DEF ReserveDmaAccess, Acquire
  <1>14. CASE CreateEvent
    BY <1>14 DEF CreateEvent, Acquire
  <1>15. CASE RegisterProtocolNotify
    BY <1>15 DEF RegisterProtocolNotify
  <1>16. CASE SignalEvent
    BY <1>16 DEF SignalEvent
  <1>17. CASE CloseEvent
    BY <1>17 DEF CloseEvent, Release
  <1>18. CASE FreeDmaAccess
    BY <1>18 DEF FreeDmaAccess, Release
  <1>19. CASE FreeSeenPointers
    BY <1>19 DEF FreeSeenPointers, Release
  <1>20. CASE FreeKeys
    BY <1>20 DEF FreeKeys, Release
  <1>21. CASE RollbackWritePointersAndFreeTracker
    BY <1>21 DEF RollbackWritePointersAndFreeTracker
  <1>22. CASE FreeTracker
    BY <1>22 DEF FreeTracker, Release
  <1>23. CASE FreeS3Context
    BY <1>23 DEF FreeS3Context
  <1>24. CASE FreeAllocationsRestrictedTo32Bit
    BY <1>24 DEF FreeAllocationsRestrictedTo32Bit, Release
  <1>25. CASE FreeLoader
    BY <1>25 DEF FreeLoader, Release
  <1>26. CASE AppendFatalError
    BY <1>26 DEF AppendFatalError
  <1>. QED
    BY <1>1, <1>2, <1>3, <1>4, <1>5, <1>6, <1>7, <1>8, <1>9, <1>10, <1>11, <1>12,
       <1>13, <1>14, <1>15, <1>16, <1>17, <1>18, <1>19, <1>20, <1>21, <1>22, <1>23, <1>24,
       <1>25, <1>26 DEF Control

\* Locations and the commands of the script.
LEMMA CommandTypes ==
    /\ \A p \in Locations, t \in Locations :
           [Type |-> "AddPointer", pointer |-> p, target |-> t] \in Commands
    /\ \A slot \in Slots, t \in Locations :
           [Type |-> "WritePointer", slot |-> slot, target |-> t] \in Commands
    /\ \A f \in Files : [Type |-> "Allocate", file |-> f] \in Commands
    /\ [Type |-> "Other"] \in Commands
    /\ \A t \in Locations : t[1] \in Files /\ t # NoTarget
  BY AcpiLoaderAssumption DEF Commands, Locations

\* The locations a command of the script names.
LEMMA CommandsTaken ==
    /\ \A c \in Commands : c.Type = "AddPointer" => c.pointer \in Locations /\ c.target \in Locations
    /\ \A c \in Commands : c.Type = "WritePointer" => c.slot \in Slots /\ c.target \in Locations
  BY DEF Commands

\* The opcodes of a context: a skip, then a write, for each of its pointers.
LEMMA OpcodesType ==
    ASSUME NEW ws \in Seq([slot : Slots, value : Locations])
    PROVE  /\ OpcodesOf(ws) \in Seq(Opcodes) /\ Len(OpcodesOf(ws)) = 2 * Len(ws)
           /\ \A k \in 1 .. Len(ws) :
                 /\ OpcodesOf(ws)[2 * k - 1] = SkipBytes(ws[k])
                 /\ OpcodesOf(ws)[2 * k] = WriteBytes(ws[k])
           /\ OpcodesOf(ws) = <<>> <=> ws = <<>>
  <1>1. Len(ws) \in Nat /\ \A k \in 1 .. Len(ws) : ws[k] \in [slot : Slots, value : Locations]
    BY LenProperties, ElementOfSeq
  <1>2. ASSUME NEW k \in 1 .. Len(ws)
        PROVE  SkipBytes(ws[k]) \in Opcodes /\ WriteBytes(ws[k]) \in Opcodes
    BY <1>1 DEF SkipBytes, WriteBytes, Opcodes
  <1>3. ASSUME NEW k \in 1 .. 2 * Len(ws)
        PROVE  /\ k % 2 = 1 => (k + 1) \div 2 \in 1 .. Len(ws)
               /\ k % 2 # 1 => k \div 2 \in 1 .. Len(ws)
    BY <1>1
  <1>4. OpcodesOf(ws) \in [1 .. 2 * Len(ws) -> Opcodes]
    BY <1>2, <1>3 DEF OpcodesOf
  <1>5. OpcodesOf(ws) \in Seq(Opcodes) /\ Len(OpcodesOf(ws)) = 2 * Len(ws)
    <2>1. 2 * Len(ws) \in Nat
      BY <1>1
    <2>. HIDE DEF OpcodesOf
    <2>. QED
      BY <1>4, <2>1, LenProperties
  <1>6. ASSUME NEW k \in 1 .. Len(ws)
        PROVE  /\ OpcodesOf(ws)[2 * k - 1] = SkipBytes(ws[k])
               /\ OpcodesOf(ws)[2 * k] = WriteBytes(ws[k])
    <2>1. /\ 2 * k - 1 \in 1 .. 2 * Len(ws) /\ 2 * k \in 1 .. 2 * Len(ws)
          /\ (2 * k - 1) % 2 = 1 /\ (2 * k) % 2 = 0
          /\ ((2 * k - 1) + 1) \div 2 = k /\ (2 * k) \div 2 = k
      BY <1>1
    <2>. QED
      BY <2>1 DEF OpcodesOf
  <1>7. OpcodesOf(ws) = <<>> <=> ws = <<>>
    BY <1>1, <1>5, EmptySeq
  <1>. QED
    BY <1>5, <1>6, <1>7

-----------------------------------------------------------------------------
(* What the boot script does at S3 resume.                                 *)

\* Nat is well founded.
LEMMA NatLess == \A x, y \in Nat : <<x, y>> \in OpToRel(<, Nat) <=> x < y
  BY DEF OpToRel

\* A nonempty set of naturals has a least member.
LEMMA MinimalNat ==
    ASSUME NEW S, S \subseteq Nat, S # {}
    PROVE  \E x \in S : \A y \in S : ~ (<<y, x>> \in OpToRel(<, Nat))
  BY WFMin, NatLessThanWellFounded, Zenon

\* The largest of finitely many indices exists.
LEMMA MaxIsMember ==
    ASSUME NEW n \in Nat, NEW S \in SUBSET (1 .. n), S # {}
    PROVE  Max(S) \in S /\ \A y \in S : y <= Max(S)
  <1>. DEFINE T == {d \in Nat : n - d \in S}
  <1>1. T \subseteq Nat /\ T # {}
    <2>1. PICK x \in S : TRUE
      OBVIOUS
    <2>2. n - x \in Nat /\ n - (n - x) = x
      BY <2>1
    <2>. QED
      BY <2>1, <2>2
  <1>2. \E d \in T : \A e \in T : ~ (<<e, d>> \in OpToRel(<, Nat))
    BY <1>1, MinimalNat
  <1>3. PICK d \in T : \A e \in T : ~ (e < d)
    BY <1>1, <1>2, NatLess, Zenon
  <1>4. ASSUME NEW y \in S
        PROVE  n - d >= y
    <2>1. n - y \in Nat /\ n - (n - y) = y
      OBVIOUS
    <2>2. n - y \in T
      BY <2>1
    <2>. QED
      BY <1>3, <2>1, <2>2
  <1>5. \E x \in S : \A y \in S : x >= y
    BY <1>3, <1>4
  <1>6. Max(S) \in S /\ \A y \in S : Max(S) >= y
    BY <1>5, Zenon DEF Max
  <1>. QED
    BY <1>6

WritesOf(ws, slot) == {k \in 1 .. Len(ws) : ws[k].slot = slot}

\* What LastWrite() says of a slot.
LEMMA LastWriteOf ==
    ASSUME NEW ws, NEW slot \in Slots
    PROVE  LastWrite(ws)[slot] = IF WritesOf(ws, slot) = {} THEN NoTarget
                                 ELSE ws[Max(WritesOf(ws, slot))].value
  BY DEF LastWrite, WritesOf

\* The writes of the boot script to a slot are those of the context.
LEMMA WritesReplayed ==
    ASSUME NEW ws \in Seq([slot : Slots, value : Locations]), NEW slot \in Slots
    PROVE  WritesTo(OpcodesOf(ws), slot) = {2 * k : k \in WritesOf(ws, slot)}
  <1>. DEFINE ops == OpcodesOf(ws)
  <1>1. /\ Len(ws) \in Nat /\ Len(ops) = 2 * Len(ws)
        /\ \A k \in 1 .. Len(ws) : ops[2 * k - 1] = SkipBytes(ws[k]) /\ ops[2 * k] = WriteBytes(ws[k])
    BY OpcodesType, LenProperties
  <1>. HIDE DEF ops
  <1>2. ASSUME NEW k \in WritesOf(ws, slot)
        PROVE  2 * k \in WritesTo(ops, slot)
    <2>1. k \in 1 .. Len(ws) /\ ws[k].slot = slot
      BY DEF WritesOf
    <2>2. /\ 2 * k \in 1 .. Len(ops) /\ 2 * k - 1 \in 1 .. 2 * k - 1
          /\ (2 * k - 1) + 1 .. 2 * k - 1 = {}
      BY <1>1, <2>1
    <2>3. ops[2 * k - 1] = SkipBytes(ws[k]) /\ ops[2 * k] = WriteBytes(ws[k])
      BY <1>1, <2>1
    <2>4. ops[2 * k].op = "Write" /\ ops[2 * k - 1].op = "Skip" /\ ops[2 * k - 1].slot = slot
      BY <2>1, <2>3 DEF SkipBytes, WriteBytes
    <2>. QED
      BY <2>2, <2>4 DEF WritesTo
  <1>3. ASSUME NEW m \in WritesTo(ops, slot)
        PROVE  \E k \in WritesOf(ws, slot) : m = 2 * k
    <2>1. PICK j \in 1 .. m - 1 : /\ ops[j].op = "Skip" /\ ops[j].slot = slot
                                  /\ \A i \in j + 1 .. m - 1 : ops[i].op # "Skip"
      BY DEF WritesTo
    <2>2. m \in 1 .. Len(ops) /\ ops[m].op = "Write"
      BY DEF WritesTo
    <2>3. \E k \in 1 .. Len(ws) : m = 2 * k - 1 \/ m = 2 * k
      <3>1. CASE m % 2 = 0
        <4>1. m \div 2 \in 1 .. Len(ws) /\ m = 2 * (m \div 2)
          BY <1>1, <2>2, <3>1
        <4>. QED
          BY <4>1
      <3>2. CASE m % 2 = 1
        <4>1. m \div 2 \in Int /\ m = 2 * (m \div 2) + 1
          BY <1>1, <2>2, <3>2
        <4>2. m \div 2 + 1 \in 1 .. Len(ws) /\ m = 2 * (m \div 2 + 1) - 1
          BY <1>1, <2>2, <4>1
        <4>. QED
          BY <4>2
      <3>. QED
        BY <1>1, <2>2, <3>1, <3>2
    <2>4. PICK k \in 1 .. Len(ws) : m = 2 * k
      <3>1. PICK k \in 1 .. Len(ws) : m = 2 * k - 1 \/ m = 2 * k
        BY <2>3
      <3>2. ops[2 * k - 1] = SkipBytes(ws[k])
        BY <1>1, <3>1
      <3>3. m # 2 * k - 1
        BY <2>2, <3>2 DEF SkipBytes
      <3>. QED
        BY <3>1, <3>3
    <2>5. ops[m - 1].op = "Skip" /\ ops[m - 1].slot = ws[k].slot
      <3>1. ops[2 * k - 1] = SkipBytes(ws[k]) /\ m - 1 = 2 * k - 1
        BY <1>1, <2>4
      <3>. QED
        BY <3>1 DEF SkipBytes
    <2>6. j = m - 1
      <3>1. m \in Int /\ j \in Int
        BY <2>4
      <3>2. CASE j < m - 1
        <4>1. m - 1 \in j + 1 .. m - 1
          BY <3>1, <3>2
        <4>. QED
          BY <2>1, <2>5, <4>1
      <3>. QED
        BY <3>1, <3>2
    <2>. QED
      BY <2>1, <2>4, <2>5, <2>6 DEF WritesOf
  <1>. QED
    BY <1>2, <1>3 DEF ops

\* Replaying the boot script tells QEMU the addresses of the context, the last one of
\* each slot.
LEMMA ReplayOpcodes ==
    ASSUME NEW ws \in Seq([slot : Slots, value : Locations])
    PROVE  Replay(OpcodesOf(ws)) = LastWrite(ws)
  <1>. DEFINE ops == OpcodesOf(ws)
  <1>1. ASSUME NEW slot \in Slots
        PROVE  Replay(ops)[slot] = LastWrite(ws)[slot]
    <2>. DEFINE W == WritesOf(ws, slot)
                V == WritesTo(ops, slot)
    <2>1. V = {2 * k : k \in W}
      BY WritesReplayed
    <2>2. Replay(ops)[slot] = IF V = {} THEN NoTarget ELSE ops[Max(V)].value
      BY DEF Replay
    <2>3. Len(ws) \in Nat /\ W \subseteq 1 .. Len(ws) /\ Len(ops) = 2 * Len(ws)
      BY OpcodesType, LenProperties DEF WritesOf
    <2>4. V \subseteq 1 .. Len(ops) /\ Len(ops) \in Nat
      BY <2>3 DEF WritesTo
    <2>. HIDE DEF W, V, ops
    <2>5. CASE W = {}
      BY <2>1, <2>2, <2>5, LastWriteOf DEF W
    <2>6. CASE W # {}
      <3>1. Max(W) \in W /\ \A y \in W : y <= Max(W)
        BY <2>3, <2>6, MaxIsMember
      <3>2. V # {}
        BY <2>1, <2>6
      <3>3. Max(V) \in V /\ \A y \in V : y <= Max(V)
        BY <2>4, <3>2, MaxIsMember
      <3>4. PICK k \in W : Max(V) = 2 * k
        BY <2>1, <3>3
      <3>5. 2 * Max(W) <= Max(V) /\ k <= Max(W)
        BY <2>1, <3>1, <3>3, <3>4
      <3>6. Max(W) \in 1 .. Len(ws) /\ k \in 1 .. Len(ws)
        BY <2>3, <3>1
      <3>7. Max(V) = 2 * Max(W)
        BY <2>3, <3>4, <3>5, <3>6
      <3>8. ops[2 * Max(W)] = WriteBytes(ws[Max(W)])
        BY <3>6, OpcodesType DEF ops
      <3>9. ops[Max(V)].value = ws[Max(W)].value
        BY <3>7, <3>8 DEF WriteBytes
      <3>. QED
        BY <2>2, <2>6, <3>2, <3>9, LastWriteOf DEF W
    <2>. QED
      BY <2>5, <2>6
  <1>. QED
    BY <1>1 DEF Replay, LastWrite

\* A boot script without opcodes writes nothing.
LEMMA ReplayNothing == Replay(<<>>) = [slot \in Slots |-> NoTarget]
  BY DEF Replay, WritesTo

\* A pointer saved in the context is the last one of its slot.
LEMMA LastWriteAppended ==
    ASSUME NEW ws \in Seq([slot : Slots, value : Locations]),
           NEW slot \in Slots, NEW t \in Locations
    PROVE  LastWrite(Append(ws, [slot |-> slot, value |-> t])) = [LastWrite(ws) EXCEPT ![slot] = t]
  <1>. DEFINE w == [slot |-> slot, value |-> t]
              new == Append(ws, w)
  <1>1. /\ Len(new) = Len(ws) + 1 /\ Len(ws) \in Nat /\ new[Len(ws) + 1] = w
        /\ \A i \in 1 .. Len(ws) : new[i] = ws[i]
    BY Appended
  <1>. HIDE DEF new
  <1>2. WritesOf(new, slot) = WritesOf(ws, slot) \cup {Len(ws) + 1}
    BY <1>1 DEF WritesOf
  <1>3. ASSUME NEW other \in Slots \ {slot}
        PROVE  /\ WritesOf(new, other) = WritesOf(ws, other)
               /\ WritesOf(ws, other) # {} => Max(WritesOf(ws, other)) \in 1 .. Len(ws)
    <2>1. WritesOf(new, other) = WritesOf(ws, other)
      BY <1>1 DEF WritesOf
    <2>. QED
      BY <1>1, <2>1, MaxIsMember DEF WritesOf
  <1>4. LastWrite(new)[slot] = t
    <2>1. WritesOf(new, slot) \subseteq 1 .. Len(ws) + 1 /\ Len(ws) + 1 \in WritesOf(new, slot)
      BY <1>1, <1>2 DEF WritesOf
    <2>. DEFINE S == WritesOf(new, slot)
                n == Len(ws) + 1
    <2>2. n \in Nat /\ S \in SUBSET (1 .. n) /\ S # {} /\ n \in S
      BY <1>1, <2>1
    <2>. HIDE DEF S, n
    <2>3. Max(S) \in 1 .. n /\ n <= Max(S)
      BY <2>2, MaxIsMember
    <2>4. Max(S) = n
      BY <2>2, <2>3
    <2>. QED
      BY <1>1, <2>2, <2>4, LastWriteOf DEF S, n
  <1>5. ASSUME NEW other \in Slots \ {slot}
        PROVE  LastWrite(new)[other] = LastWrite(ws)[other]
    BY <1>1, <1>3, LastWriteOf
  <1>. QED
    BY <1>4, <1>5 DEF LastWrite, new

-----------------------------------------------------------------------------
(* The invariant.                                                          *)

\* The invariant holds initially.
LEMMA InvInit == ASSUME Init PROVE Inv
  <1>1. DOMAIN EmptyFcn = {}
    BY DEF EmptyFcn
  <1>2. /\ Tables /\ Pointers /\ Memory /\ HostPointers
    <2>1. Len(script) = 0 /\ Range(s3) = {} /\ Range(acpi) = {}
      BY <1>1 DEF Init, Range
    <2>. QED
      BY <1>1, <2>1
         DEF Init, Tables, Pointers, Memory, HostPointers, BeforeFirstPass, TrackerFreed,
             BeforeSecondPass, IsInjective, Pinned, Ended, Labels, S3Steps
  <1>3. host = LastWrite(s3)
    BY DEF Init, LastWrite
  <1>4. Context
    BY <1>3 DEF Init, Context, S3Steps, TrackerFreed, Ended, Labels
  <1>5. Holdings
    BY DEF Init, Holdings, Holds, S3Steps, Labels, TrackerFreed
  <1>. QED
    BY <1>2, <1>4, <1>5, TypeInit DEF Inv

\* What the control steps leave alone.
LEMMA ControlFrame ==
    ASSUME Control
    PROVE  /\ UNCHANGED <<firstPass, secondPass, S3Enabled, bootScript>>
           /\ \A f : (Pinned(f)' <=> Pinned(f)) /\ (Wanted(f)' <=> Wanted(f))
           /\ \A slot, n : Told(slot, n)' <=> Told(slot, n)
  <1>1. UNCHANGED <<firstPass, secondPass, S3Enabled, bootScript>>
    BY DEF Control, AllocateLoader, CollectAllocationsRestrictedTo32Bit, AllocateS3Context,
       InitTracker, AllocateKeys, InitSeenPointers, CommandFails, FirstPassDone, SkipCommand,
       Process2ndPassFails, SecondPassDone, TransferEmptyContext, ReserveDmaAccess,
       CreateEvent, RegisterProtocolNotify, SignalEvent, CloseEvent, FreeDmaAccess,
       FreeSeenPointers, FreeKeys, RollbackWritePointersAndFreeTracker, FreeTracker,
       FreeS3Context, FreeAllocationsRestrictedTo32Bit, FreeLoader, AppendFatalError, Acquire,
       Release, s3State
  <1>2. UNCHANGED <<script, Tracker, mem, content>>
    BY <1>1 DEF firstPass, secondPass
  <1>. QED
    BY <1>1, <1>2 DEF Pinned, Wanted, Told

\* Control steps keep the tracker and the pages of the blobs together.
LEMMA ControlMemory == ASSUME Inv, Control PROVE Memory'
  <1>. USE ControlFrame DEF Inv, Memory, firstPass, BeforeFirstPass, TrackerFreed, Context, Ended
  <1>1. CASE AllocateLoader
    BY <1>1 DEF AllocateLoader, Acquire
  <1>2. CASE CollectAllocationsRestrictedTo32Bit
    BY <1>2 DEF CollectAllocationsRestrictedTo32Bit, Acquire
  <1>3. CASE AllocateS3Context
    BY <1>3 DEF AllocateS3Context
  <1>4. CASE InitTracker
    BY <1>4 DEF InitTracker, Acquire
  <1>5. CASE AllocateKeys
    BY <1>5 DEF AllocateKeys, Acquire
  <1>6. CASE InitSeenPointers
    BY <1>6 DEF InitSeenPointers, Acquire
  <1>7. CASE CommandFails
    BY <1>7 DEF CommandFails
  <1>8. CASE FirstPassDone
    BY <1>8 DEF FirstPassDone
  <1>9. CASE SkipCommand
    BY <1>9 DEF SkipCommand
  <1>10. CASE Process2ndPassFails
    BY <1>10 DEF Process2ndPassFails
  <1>11. CASE SecondPassDone
    BY <1>11 DEF SecondPassDone
  <1>12. CASE TransferEmptyContext
    BY <1>12 DEF TransferEmptyContext
  <1>13. CASE ReserveDmaAccess
    BY <1>13 DEF ReserveDmaAccess, Acquire
  <1>14. CASE CreateEvent
    BY <1>14 DEF CreateEvent, Acquire
  <1>15. CASE RegisterProtocolNotify
    BY <1>15 DEF RegisterProtocolNotify
  <1>16. CASE SignalEvent
    BY <1>16 DEF SignalEvent
  <1>17. CASE CloseEvent
    BY <1>17 DEF CloseEvent, Release
  <1>18. CASE FreeDmaAccess
    BY <1>18 DEF FreeDmaAccess, Release
  <1>19. CASE FreeSeenPointers
    BY <1>19 DEF FreeSeenPointers, Release
  <1>20. CASE FreeKeys
    BY <1>20 DEF FreeKeys, Release
  <1>21. CASE RollbackWritePointersAndFreeTracker
    BY <1>21 DEF RollbackWritePointersAndFreeTracker
  <1>22. CASE FreeTracker
    BY <1>22 DEF FreeTracker, Release
  <1>23. CASE FreeS3Context
    BY <1>23 DEF FreeS3Context
  <1>24. CASE FreeAllocationsRestrictedTo32Bit
    BY <1>24 DEF FreeAllocationsRestrictedTo32Bit, Release
  <1>25. CASE FreeLoader
    BY <1>25 DEF FreeLoader, Release
  <1>26. CASE AppendFatalError
    BY <1>26 DEF AppendFatalError
  <1>. QED
    BY <1>1, <1>2, <1>3, <1>4, <1>5, <1>6, <1>7, <1>8, <1>9, <1>10, <1>11, <1>12, <1>13,
       <1>14, <1>15, <1>16, <1>17, <1>18, <1>19, <1>20, <1>21, <1>22, <1>23, <1>24, <1>25, <1>26 DEF Control

\* Control steps do not release a blob QEMU has an address in.
LEMMA ControlHostPointers == ASSUME Inv, Control PROVE HostPointers'
  <1>. USE ControlFrame DEF Inv, HostPointers, firstPass, BeforeFirstPass, TrackerFreed, Context, Ended
  <1>1. CASE AllocateLoader
    BY <1>1 DEF AllocateLoader, Acquire
  <1>2. CASE CollectAllocationsRestrictedTo32Bit
    BY <1>2 DEF CollectAllocationsRestrictedTo32Bit, Acquire
  <1>3. CASE AllocateS3Context
    BY <1>3 DEF AllocateS3Context
  <1>4. CASE InitTracker
    BY <1>4 DEF InitTracker, Acquire
  <1>5. CASE AllocateKeys
    BY <1>5 DEF AllocateKeys, Acquire
  <1>6. CASE InitSeenPointers
    BY <1>6 DEF InitSeenPointers, Acquire
  <1>7. CASE CommandFails
    BY <1>7 DEF CommandFails
  <1>8. CASE FirstPassDone
    BY <1>8 DEF FirstPassDone
  <1>9. CASE SkipCommand
    BY <1>9 DEF SkipCommand
  <1>10. CASE Process2ndPassFails
    BY <1>10 DEF Process2ndPassFails
  <1>11. CASE SecondPassDone
    BY <1>11 DEF SecondPassDone
  <1>12. CASE TransferEmptyContext
    BY <1>12 DEF TransferEmptyContext
  <1>13. CASE ReserveDmaAccess
    BY <1>13 DEF ReserveDmaAccess, Acquire
  <1>14. CASE CreateEvent
    BY <1>14 DEF CreateEvent, Acquire
  <1>15. CASE RegisterProtocolNotify
    BY <1>15 DEF RegisterProtocolNotify
  <1>16. CASE SignalEvent
    BY <1>16 DEF SignalEvent
  <1>17. CASE CloseEvent
    BY <1>17 DEF CloseEvent, Release
  <1>18. CASE FreeDmaAccess
    BY <1>18 DEF FreeDmaAccess, Release
  <1>19. CASE FreeSeenPointers
    BY <1>19 DEF FreeSeenPointers, Release
  <1>20. CASE FreeKeys
    BY <1>20 DEF FreeKeys, Release
  <1>21. CASE RollbackWritePointersAndFreeTracker
    BY <1>21 DEF RollbackWritePointersAndFreeTracker
  <1>22. CASE FreeTracker
    BY <1>22 DEF FreeTracker, Release
  <1>23. CASE FreeS3Context
    BY <1>23 DEF FreeS3Context
  <1>24. CASE FreeAllocationsRestrictedTo32Bit
    BY <1>24 DEF FreeAllocationsRestrictedTo32Bit, Release
  <1>25. CASE FreeLoader
    BY <1>25 DEF FreeLoader, Release
  <1>26. CASE AppendFatalError
    BY <1>26 DEF AppendFatalError
  <1>. QED
    BY <1>1, <1>2, <1>3, <1>4, <1>5, <1>6, <1>7, <1>8, <1>9, <1>10, <1>11, <1>12, <1>13,
       <1>14, <1>15, <1>16, <1>17, <1>18, <1>19, <1>20, <1>21, <1>22, <1>23, <1>24, <1>25, <1>26 DEF Control

\* Control steps keep the S3 context in step with what QEMU was given.
LEMMA ControlContext == ASSUME Inv, Control PROVE Context'
  <1>. USE ControlFrame DEF Inv, Context, firstPass, BeforeFirstPass, S3Steps, TrackerFreed, Ended, Labels, s3State
  <1>0. /\ Status \in {"Success", "Error"}
        /\ s3 = <<>> => OpcodesOf(s3) = <<>>
    BY OpcodesType DEF TypeOK
  <1>1. CASE AllocateLoader
    BY <1>1 DEF AllocateLoader, Acquire
  <1>2. CASE CollectAllocationsRestrictedTo32Bit
    BY <1>2 DEF CollectAllocationsRestrictedTo32Bit, Acquire
  <1>3. CASE AllocateS3Context
    BY <1>3 DEF AllocateS3Context
  <1>4. CASE InitTracker
    BY <1>4 DEF InitTracker, Acquire
  <1>5. CASE AllocateKeys
    BY <1>5 DEF AllocateKeys, Acquire
  <1>6. CASE InitSeenPointers
    BY <1>6 DEF InitSeenPointers, Acquire
  <1>7. CASE CommandFails
    BY <1>7 DEF CommandFails
  <1>8. CASE FirstPassDone
    BY <1>8 DEF FirstPassDone
  <1>9. CASE SkipCommand
    BY <1>9 DEF SkipCommand
  <1>10. CASE Process2ndPassFails
    BY <1>10 DEF Process2ndPassFails
  <1>11. CASE SecondPassDone
    BY <1>11 DEF SecondPassDone
  <1>12. CASE TransferEmptyContext
    BY <1>0, <1>12 DEF TransferEmptyContext
  <1>13. CASE ReserveDmaAccess
    BY <1>13 DEF ReserveDmaAccess, Acquire
  <1>14. CASE CreateEvent
    BY <1>14 DEF CreateEvent, Acquire
  <1>15. CASE RegisterProtocolNotify
    BY <1>15 DEF RegisterProtocolNotify
  <1>16. CASE SignalEvent
    <2>1. Status = "Success" /\ bootScript = <<>> /\ s3 # <<>> /\ ~queued
      BY <1>0, <1>16 DEF SignalEvent
    <2>2. CASE pc' = "UninstallAcpiTables"
      <3>1. queued' /\ ~S3Context' /\ Status' = "Success"
        BY <1>16, <2>1, <2>2 DEF SignalEvent
      <3>. QED
        BY <1>16, <2>1, <2>2, <3>1 DEF SignalEvent
    <2>3. CASE pc' = "CloseEvent"
      BY <1>16, <2>1, <2>3 DEF SignalEvent
    <2>. QED
      BY <1>16, <2>2, <2>3 DEF SignalEvent
  <1>17. CASE CloseEvent
    BY <1>17 DEF CloseEvent, Release
  <1>18. CASE FreeDmaAccess
    BY <1>18 DEF FreeDmaAccess, Release
  <1>19. CASE FreeSeenPointers
    BY <1>19 DEF FreeSeenPointers, Release
  <1>20. CASE FreeKeys
    BY <1>20 DEF FreeKeys, Release
  <1>21. CASE RollbackWritePointersAndFreeTracker
    BY <1>21 DEF RollbackWritePointersAndFreeTracker
  <1>22. CASE FreeTracker
    BY <1>22 DEF FreeTracker, Release
  <1>23. CASE FreeS3Context
    BY <1>23 DEF FreeS3Context
  <1>24. CASE FreeAllocationsRestrictedTo32Bit
    BY <1>24 DEF FreeAllocationsRestrictedTo32Bit, Release
  <1>25. CASE FreeLoader
    BY <1>25 DEF FreeLoader, Release
  <1>26. CASE AppendFatalError
    BY <1>26 DEF AppendFatalError
  <1>. QED
    BY <1>1, <1>2, <1>3, <1>4, <1>5, <1>6, <1>7, <1>8, <1>9, <1>10, <1>11, <1>12, <1>13,
       <1>14, <1>15, <1>16, <1>17, <1>18, <1>19, <1>20, <1>21, <1>22, <1>23, <1>24, <1>25, <1>26 DEF Control

\* Control steps release what was acquired, label by label.
LEMMA ControlHoldings == ASSUME Inv, Control PROVE Holdings'
  <1>. USE ControlFrame DEF Inv, Holdings, Holds, Context, S3Steps, Labels, TrackerFreed, Ended, s3State
  <1>1. CASE AllocateLoader
    BY <1>1 DEF AllocateLoader, Acquire
  <1>2. CASE CollectAllocationsRestrictedTo32Bit
    BY <1>2 DEF CollectAllocationsRestrictedTo32Bit, Acquire
  <1>3. CASE AllocateS3Context
    BY <1>3 DEF AllocateS3Context
  <1>4. CASE InitTracker
    BY <1>4 DEF InitTracker, Acquire
  <1>5. CASE AllocateKeys
    BY <1>5 DEF AllocateKeys, Acquire
  <1>6. CASE InitSeenPointers
    BY <1>6 DEF InitSeenPointers, Acquire
  <1>7. CASE CommandFails
    BY <1>7 DEF CommandFails
  <1>8. CASE FirstPassDone
    BY <1>8 DEF FirstPassDone
  <1>9. CASE SkipCommand
    BY <1>9 DEF SkipCommand
  <1>10. CASE Process2ndPassFails
    BY <1>10 DEF Process2ndPassFails
  <1>11. CASE SecondPassDone
    BY <1>11 DEF SecondPassDone
  <1>12. CASE TransferEmptyContext
    BY <1>12 DEF TransferEmptyContext
  <1>13. CASE ReserveDmaAccess
    BY <1>13 DEF ReserveDmaAccess, Acquire
  <1>14. CASE CreateEvent
    BY <1>14 DEF CreateEvent, Acquire
  <1>15. CASE RegisterProtocolNotify
    BY <1>15 DEF RegisterProtocolNotify
  <1>16. CASE SignalEvent
    BY <1>16 DEF SignalEvent
  <1>17. CASE CloseEvent
    BY <1>17 DEF CloseEvent, Release
  <1>18. CASE FreeDmaAccess
    BY <1>18 DEF FreeDmaAccess, Release
  <1>19. CASE FreeSeenPointers
    BY <1>19 DEF FreeSeenPointers, Release
  <1>20. CASE FreeKeys
    BY <1>20 DEF FreeKeys, Release
  <1>21. CASE RollbackWritePointersAndFreeTracker
    BY <1>21 DEF RollbackWritePointersAndFreeTracker
  <1>22. CASE FreeTracker
    BY <1>22 DEF FreeTracker, Release
  <1>23. CASE FreeS3Context
    BY <1>23 DEF FreeS3Context
  <1>24. CASE FreeAllocationsRestrictedTo32Bit
    BY <1>24 DEF FreeAllocationsRestrictedTo32Bit, Release
  <1>25. CASE FreeLoader
    BY <1>25 DEF FreeLoader, Release
  <1>26. CASE AppendFatalError
    BY <1>26 DEF AppendFatalError
  <1>. QED
    BY <1>1, <1>2, <1>3, <1>4, <1>5, <1>6, <1>7, <1>8, <1>9, <1>10, <1>11, <1>12, <1>13,
       <1>14, <1>15, <1>16, <1>17, <1>18, <1>19, <1>20, <1>21, <1>22, <1>23, <1>24, <1>25, <1>26 DEF Control

\* Control steps keep the count of installed tables.
LEMMA ControlTables == ASSUME Inv, Control PROVE Tables'
  <1>. USE ControlFrame DEF Inv, Tables, secondPass, BeforeSecondPass, BeforeFirstPass, Ended, Labels, Context
  <1>1. CASE AllocateLoader
    BY <1>1 DEF AllocateLoader, Acquire
  <1>2. CASE CollectAllocationsRestrictedTo32Bit
    BY <1>2 DEF CollectAllocationsRestrictedTo32Bit, Acquire
  <1>3. CASE AllocateS3Context
    BY <1>3 DEF AllocateS3Context
  <1>4. CASE InitTracker
    BY <1>4 DEF InitTracker, Acquire
  <1>5. CASE AllocateKeys
    BY <1>5 DEF AllocateKeys, Acquire
  <1>6. CASE InitSeenPointers
    BY <1>6 DEF InitSeenPointers, Acquire
  <1>7. CASE CommandFails
    BY <1>7 DEF CommandFails
  <1>8. CASE FirstPassDone
    BY <1>8 DEF FirstPassDone
  <1>9. CASE SkipCommand
    BY <1>9 DEF SkipCommand
  <1>10. CASE Process2ndPassFails
    BY <1>10 DEF Process2ndPassFails
  <1>11. CASE SecondPassDone
    BY <1>11 DEF SecondPassDone
  <1>12. CASE TransferEmptyContext
    BY <1>12 DEF TransferEmptyContext
  <1>13. CASE ReserveDmaAccess
    BY <1>13 DEF ReserveDmaAccess, Acquire
  <1>14. CASE CreateEvent
    BY <1>14 DEF CreateEvent, Acquire
  <1>15. CASE RegisterProtocolNotify
    BY <1>15 DEF RegisterProtocolNotify
  <1>16. CASE SignalEvent
    BY <1>16 DEF SignalEvent
  <1>17. CASE CloseEvent
    BY <1>17 DEF CloseEvent, Release
  <1>18. CASE FreeDmaAccess
    BY <1>18 DEF FreeDmaAccess, Release
  <1>19. CASE FreeSeenPointers
    BY <1>19 DEF FreeSeenPointers, AllUninstalled, Release
  <1>20. CASE FreeKeys
    BY <1>20 DEF FreeKeys, Release
  <1>21. CASE RollbackWritePointersAndFreeTracker
    BY <1>21 DEF RollbackWritePointersAndFreeTracker
  <1>22. CASE FreeTracker
    BY <1>22 DEF FreeTracker, Release
  <1>23. CASE FreeS3Context
    BY <1>23 DEF FreeS3Context
  <1>24. CASE FreeAllocationsRestrictedTo32Bit
    BY <1>24 DEF FreeAllocationsRestrictedTo32Bit, Release
  <1>25. CASE FreeLoader
    BY <1>25 DEF FreeLoader, Release
  <1>26. CASE AppendFatalError
    BY <1>26 DEF AppendFatalError
  <1>. QED
    BY <1>1, <1>2, <1>3, <1>4, <1>5, <1>6, <1>7, <1>8, <1>9, <1>10, <1>11, <1>12, <1>13,
       <1>14, <1>15, <1>16, <1>17, <1>18, <1>19, <1>20, <1>21, <1>22, <1>23, <1>24, <1>25, <1>26 DEF Control

\* Control steps keep the pointers of the script resolved.
LEMMA ControlPointers == ASSUME Inv, Control PROVE Pointers'
  <1>. USE ControlFrame DEF Inv, Pointers, firstPass, secondPass, S3Steps, Ended, Labels, TrackerFreed, Context
  <1>0. pos \in Int /\ Len(script) \in Int
    BY LenProperties DEF TypeOK
  <1>1. CASE AllocateLoader
    BY <1>1 DEF AllocateLoader, Acquire
  <1>2. CASE CollectAllocationsRestrictedTo32Bit
    BY <1>2 DEF CollectAllocationsRestrictedTo32Bit, Acquire
  <1>3. CASE AllocateS3Context
    BY <1>3 DEF AllocateS3Context
  <1>4. CASE InitTracker
    BY <1>4 DEF InitTracker, Acquire
  <1>5. CASE AllocateKeys
    BY <1>5 DEF AllocateKeys, Acquire
  <1>6. CASE InitSeenPointers
    BY <1>6 DEF InitSeenPointers, Acquire
  <1>7. CASE CommandFails
    BY <1>7 DEF CommandFails
  <1>8. CASE FirstPassDone
    BY <1>8 DEF FirstPassDone
  <1>9. CASE SkipCommand
    BY <1>0, <1>9 DEF SkipCommand
  <1>10. CASE Process2ndPassFails
    BY <1>10 DEF Process2ndPassFails
  <1>11. CASE SecondPassDone
    <2>1. 1 .. Len(script) \subseteq 1 .. pos - 1
      BY <1>0, <1>11 DEF SecondPassDone
    <2>2. \A p \in DOMAIN fields : fields[p] \in SeenPointers
      BY <1>11, <2>1 DEF SecondPassDone
    <2>. QED
      BY <1>11, <2>2 DEF SecondPassDone
  <1>12. CASE TransferEmptyContext
    BY <1>12 DEF TransferEmptyContext
  <1>13. CASE ReserveDmaAccess
    BY <1>13 DEF ReserveDmaAccess, Acquire
  <1>14. CASE CreateEvent
    BY <1>14 DEF CreateEvent, Acquire
  <1>15. CASE RegisterProtocolNotify
    BY <1>15 DEF RegisterProtocolNotify
  <1>16. CASE SignalEvent
    BY <1>16 DEF SignalEvent
  <1>17. CASE CloseEvent
    BY <1>17 DEF CloseEvent, Release
  <1>18. CASE FreeDmaAccess
    BY <1>18 DEF FreeDmaAccess, Release
  <1>19. CASE FreeSeenPointers
    BY <1>19 DEF FreeSeenPointers, Release
  <1>20. CASE FreeKeys
    BY <1>20 DEF FreeKeys, Release
  <1>21. CASE RollbackWritePointersAndFreeTracker
    BY <1>21 DEF RollbackWritePointersAndFreeTracker
  <1>22. CASE FreeTracker
    BY <1>22 DEF FreeTracker, Release
  <1>23. CASE FreeS3Context
    BY <1>23 DEF FreeS3Context
  <1>24. CASE FreeAllocationsRestrictedTo32Bit
    BY <1>24 DEF FreeAllocationsRestrictedTo32Bit, Release
  <1>25. CASE FreeLoader
    BY <1>25 DEF FreeLoader, Release
  <1>26. CASE AppendFatalError
    BY <1>26 DEF AppendFatalError
  <1>. QED
    BY <1>1, <1>2, <1>3, <1>4, <1>5, <1>6, <1>7, <1>8, <1>9, <1>10, <1>11, <1>12, <1>13,
       <1>14, <1>15, <1>16, <1>17, <1>18, <1>19, <1>20, <1>21, <1>22, <1>23, <1>24, <1>25, <1>26 DEF Control

\* Control steps keep the invariant.
LEMMA ControlInv == ASSUME Inv, Control PROVE Inv'
  BY ControlType, ControlMemory, ControlHostPointers, ControlContext, ControlHoldings,
     ControlTables, ControlPointers DEF Inv

-----------------------------------------------------------------------------
(* The first pass.                                                         *)

\* During the passes nothing has failed or been handed over yet.
LEMMA InPasses ==
    ASSUME Inv, pc \in {"FirstPass", "SecondPass"}
    PROVE  Status = "Success" /\ ~queued /\ bootScript = <<>> /\ mem = DOMAIN Tracker
  BY DEF Inv, TypeOK, Context, Memory, Ended, Labels, TrackerFreed

\* A command is read: what the script said before still stands.
LEMMA CommandRead ==
    ASSUME Inv, NEW c \in Commands, Command(c)
    PROVE  /\ script' \in Seq(Commands) /\ Len(script') = Len(script) + 1 /\ Len(script) \in Nat
           /\ \A i \in 1 .. Len(script) : script'[i] = script[i]
           /\ script'[Len(script) + 1] = c
           /\ \A slot, n \in 0 .. Len(script) : Told(slot, n) => Told(slot, n)'
           /\ \A f : Wanted(f) => Wanted(f)'
           /\ pos \in 0 .. (Len(script') + 1) /\ WritePointerSubsetEnd \in 0 .. Len(script')
           /\ pc = "FirstPass"
           /\ UNCHANGED <<pc, Status, pos, held, secondPass, s3State, S3Enabled>>
  <1>1. /\ script' \in Seq(Commands) /\ Len(script') = Len(script) + 1 /\ Len(script) \in Nat
        /\ \A i \in 1 .. Len(script) : script'[i] = script[i]
        /\ script'[Len(script) + 1] = c
    BY Appended DEF Inv, TypeOK, Command
  <1>2. UNCHANGED content
    BY DEF Command, secondPass
  <1>3. 1 .. Len(script) \subseteq 1 .. Len(script')
    BY <1>1
  <1>4. \A slot, n \in 0 .. Len(script) : Told(slot, n) => Told(slot, n)'
    BY <1>1 DEF Told
  <1>5. \A f : Wanted(f) => Wanted(f)'
    BY <1>1, <1>2, <1>3 DEF Wanted
  <1>6. pos \in 0 .. (Len(script') + 1) /\ WritePointerSubsetEnd \in 0 .. Len(script')
    BY <1>1 DEF Inv, TypeOK
  <1>. QED
    BY <1>1, <1>4, <1>5, <1>6 DEF Command

\* A command that is no AddPointer changes nothing for the second pass.
LEMMA CommandPointers ==
    ASSUME Inv, NEW c \in Commands, Command(c), c.Type # "AddPointer", UNCHANGED fields,
           DOMAIN Tracker \subseteq DOMAIN Tracker'
    PROVE  Pointers'
  <1>. USE CommandRead
  <1>1. \A i \in 1 .. Len(script') : i \in 1 .. Len(script) \/ i = Len(script) + 1
    OBVIOUS
  <1>2. \A i \in 1 .. Len(script') : script'[i].Type = "AddPointer" =>
            i \in 1 .. Len(script) /\ script'[i] = script[i]
    BY <1>1
  <1>3. \A i \in 1 .. Len(script) : i \in 1 .. Len(script') /\ script'[i] = script[i]
    OBVIOUS
  <1>. QED
    BY <1>2, <1>3 DEF Inv, Pointers, TrackerFreed, S3Steps, Ended, Labels

\* A command that is no WritePointer changes nothing for QEMU.
LEMMA CommandInv ==
    ASSUME Inv, NEW c \in Commands, Command(c),
           UNCHANGED <<host, WritePointerSubsetEnd, s3>>,
           \A f : Pinned(f)' <=> Pinned(f), mem' = DOMAIN Tracker'
    PROVE  Memory' /\ HostPointers' /\ Context' /\ Holdings' /\ Tables'
  <1>. USE InPasses, CommandRead
  <1>1. Memory'
    <2>1. \A f : Wanted(f) => Wanted(f)'
      OBVIOUS
    <2>2. \A f : Pinned(f) => f \in mem
      BY DEF Pinned
    <2>. QED
      BY <2>1, <2>2 DEF Inv, Memory, BeforeFirstPass, TrackerFreed
  <1>2. HostPointers'
    <2>1. WritePointerSubsetEnd \in 0 .. Len(script)
      BY DEF Inv, TypeOK
    <2>2. \A slot : Told(slot, WritePointerSubsetEnd) => Told(slot, WritePointerSubsetEnd)'
      <3>1. UNCHANGED WritePointerSubsetEnd /\ \A i \in 1 .. Len(script) : script'[i] = script[i]
        OBVIOUS
      <3>. QED
        BY <2>1, <3>1 DEF Told
    <2>. QED
      BY <2>2 DEF Inv, HostPointers, BeforeFirstPass, TrackerFreed
  <1>3. Context' /\ Holdings'
    BY DEF Inv, Context, Holdings, Holds, s3State, S3Steps, Labels, TrackerFreed, Ended
  <1>4. Tables'
    BY DEF Inv, Tables, secondPass
  <1>. QED
    BY <1>1, <1>2, <1>3, <1>4

\* ProcessCmdAllocate() keeps the invariant.
LEMMA AllocateInv == ASSUME Inv, NEW f \in Files, ProcessCmdAllocate(f) PROVE Inv'
  <1>. DEFINE c == [Type |-> "Allocate", file |-> f]
  <1>1. c \in Commands /\ Command(c) /\ c.Type \notin {"AddPointer", "WritePointer"}
    BY CommandTypes DEF ProcessCmdAllocate
  <1>2. /\ f \notin DOMAIN Tracker /\ mem' = mem \cup {f} /\ Tracker' = Extend(Tracker, f, TRUE)
        /\ UNCHANGED <<fields, host, WritePointerSubsetEnd, s3>>
    BY DEF ProcessCmdAllocate
  <1>. HIDE DEF c
  <1>3. mem = DOMAIN Tracker
    BY <1>1, InPasses, CommandRead
  <1>4. /\ DOMAIN Tracker' = DOMAIN Tracker \cup {f} /\ Tracker'[f] = TRUE
        /\ \A g \in DOMAIN Tracker : Tracker'[g] = Tracker[g]
    BY <1>2 DEF Extend
  <1>5. \A g : Pinned(g)' <=> Pinned(g)
    BY <1>2, <1>3, <1>4 DEF Pinned
  <1>6. TypeOK'
    <2>1. Tracker' \in PartialFcns(Files, BOOLEAN)
      BY <1>2, Fcns, PartialFcnOps DEF Inv
    <2>2. mem' \subseteq Files
      BY <1>2 DEF Inv, TypeOK
    <2>. QED
      BY <1>1, <1>2, <2>1, <2>2, CommandRead DEF Inv, TypeOK, PartialFcns, secondPass, s3State
  <1>. QED
    BY <1>1, <1>2, <1>3, <1>4, <1>5, <1>6, CommandInv, CommandPointers DEF Inv

\* A checksum or an unknown command.
LEMMA OtherInv == ASSUME Inv, ProcessCmdAddChecksum \/ UnknownCommand PROVE Inv'
  <1>. DEFINE c == [Type |-> "Other"]
  <1>1. c \in Commands /\ Command(c) /\ c.Type \notin {"AddPointer", "WritePointer"}
    BY CommandTypes DEF ProcessCmdAddChecksum, UnknownCommand
  <1>2. UNCHANGED <<mem, Tracker, fields, host, WritePointerSubsetEnd, s3>>
    BY DEF ProcessCmdAddChecksum, UnknownCommand
  <1>. HIDE DEF c
  <1>3. mem = DOMAIN Tracker
    BY <1>1, InPasses, CommandRead
  <1>4. \A g : Pinned(g)' <=> Pinned(g)
    BY <1>2 DEF Pinned
  <1>5. TypeOK'
    BY <1>1, <1>2, CommandRead DEF Inv, TypeOK, secondPass, s3State
  <1>. QED
    BY <1>1, <1>2, <1>3, <1>4, <1>5, CommandInv, CommandPointers DEF Inv

\* The pointer will be followed by the second pass, and leads into a file in memory.
LEMMA AddPointerInv ==
    ASSUME Inv, NEW p \in Locations, NEW t \in Locations, ProcessCmdAddPointer(p, t)
    PROVE  Inv'
  <1>. DEFINE c == [Type |-> "AddPointer", pointer |-> p, target |-> t]
  <1>1. c \in Commands /\ Command(c) /\ c.Type = "AddPointer" /\ c.pointer = p
    BY CommandTypes DEF ProcessCmdAddPointer
  <1>2. /\ t[1] \in DOMAIN Tracker /\ p \notin DOMAIN fields /\ fields' = Extend(fields, p, t)
        /\ UNCHANGED <<mem, Tracker, host, WritePointerSubsetEnd, s3>>
    BY DEF ProcessCmdAddPointer
  <1>. HIDE DEF c
  <1>3. mem = DOMAIN Tracker
    BY <1>1, InPasses, CommandRead
  <1>4. /\ DOMAIN fields' = DOMAIN fields \cup {p} /\ fields'[p] = t
        /\ \A q \in DOMAIN fields : fields'[q] = fields[q]
    BY <1>2 DEF Extend
  <1>5. \A g : Pinned(g)' <=> Pinned(g)
    BY <1>2 DEF Pinned
  <1>6. TypeOK'
    <2>1. fields' \in PartialFcns(Locations, Locations)
      BY <1>2, Fcns, PartialFcnOps DEF Inv
    <2>. QED
      BY <1>1, <1>2, <2>1, CommandRead DEF Inv, TypeOK, PartialFcns, secondPass, s3State
  <1>7. Pointers'
    <2>1. /\ Len(script) \in Nat /\ Len(script') = Len(script) + 1
          /\ \A i \in 1 .. Len(script) : script'[i] = script[i]
          /\ script'[Len(script) + 1] = c /\ pc = "FirstPass" /\ pc' = "FirstPass"
      BY <1>1, CommandRead
    <2>2. \A i \in 1 .. Len(script') : i \in 1 .. Len(script) \/ i = Len(script) + 1
      BY <2>1
    <2>3. \A i \in 1 .. Len(script) : i \in 1 .. Len(script')
      BY <2>1
    <2>4. Len(script) + 1 \in 1 .. Len(script')
      BY <2>1
    <2>. QED
      BY <1>1, <1>2, <1>4, <2>1, <2>2, <2>3, <2>4
         DEF Inv, Pointers, TrackerFreed, S3Steps, Ended, Labels
  <1>. QED
    BY <1>1, <1>2, <1>3, <1>5, <1>6, <1>7, CommandInv DEF Inv

\* QEMU learns an address: the file is pinned, the command is in reach of the rollback,
\* and the S3 context has the same address.
LEMMA WritePointerInv ==
    ASSUME Inv, NEW slot \in Slots, NEW t \in Locations, ProcessCmdWritePointer(slot, t)
    PROVE  Inv'
  <1>. DEFINE c == [Type |-> "WritePointer", slot |-> slot, target |-> t]
              w == [slot |-> slot, value |-> t]
  <1>1. /\ c \in Commands /\ Command(c)
        /\ c.Type = "WritePointer" /\ c.slot = slot /\ c.target = t
    BY CommandTypes DEF ProcessCmdWritePointer
  <1>2. /\ t[1] \in DOMAIN Tracker
        /\ host' = [host EXCEPT ![slot] = t]
        /\ Tracker' = [Tracker EXCEPT ![t[1]] = FALSE]
        /\ WritePointerSubsetEnd' = Len(script) + 1
        /\ s3' = (IF S3Context THEN Append(s3, w) ELSE s3)
        /\ UNCHANGED <<mem, fields>>
    BY DEF ProcessCmdWritePointer, SaveCondensedWritePointer
  <1>. HIDE DEF c
  <1>3. /\ Len(script) \in Nat /\ Len(script') = Len(script) + 1
        /\ \A i \in 1 .. Len(script) : script'[i] = script[i]
        /\ script'[Len(script) + 1] = c /\ pc = "FirstPass" /\ script' \in Seq(Commands)
        /\ \A f : Wanted(f) => Wanted(f)'
        /\ UNCHANGED <<pc, Status, pos, held, secondPass, s3State, S3Enabled>>
    BY <1>1, CommandRead
  <1>4. Status = "Success" /\ ~queued /\ bootScript = <<>> /\ mem = DOMAIN Tracker
    BY <1>3, InPasses
  <1>5. /\ DOMAIN Tracker' = DOMAIN Tracker
        /\ \A g \in DOMAIN Tracker : Tracker'[g] = (IF g = t[1] THEN FALSE ELSE Tracker[g])
    BY <1>2
  <1>6. Pinned(t[1])' /\ \A g : /\ Pinned(g) => Pinned(g)'
                                /\ Pinned(g)' => Pinned(g) \/ g = t[1]
    BY <1>2, <1>4, <1>5 DEF Pinned
  <1>7. s3' \in Seq([slot : Slots, value : Locations]) /\ Range(s3') \subseteq Range(s3) \cup {w}
    <2>1. s3 \in Seq([slot : Slots, value : Locations]) /\ w \in [slot : Slots, value : Locations]
      BY DEF Inv, TypeOK
    <2>. HIDE DEF w
    <2>2. /\ Append(s3, w) \in Seq([slot : Slots, value : Locations])
          /\ Len(Append(s3, w)) = Len(s3) + 1 /\ Append(s3, w)[Len(s3) + 1] = w
          /\ \A i \in 1 .. Len(s3) : Append(s3, w)[i] = s3[i]
          /\ Len(s3) \in Nat
      BY <2>1, Appended
    <2>3. DOMAIN s3 = 1 .. Len(s3) /\ DOMAIN Append(s3, w) = 1 .. Len(s3) + 1
      BY <2>1, <2>2, LenProperties
    <2>4. Range(Append(s3, w)) \subseteq Range(s3) \cup {w}
      BY <2>2, <2>3 DEF Range
    <2>. QED
      BY <1>2, <2>1, <2>2, <2>4
  <1>8. \A other \in Slots : host'[other] = IF other = slot THEN t ELSE host[other]
    BY <1>2 DEF Inv, TypeOK
  <1>9. TypeOK'
    <2>1. Tracker' \in PartialFcns(Files, BOOLEAN)
      <3>1. DOMAIN Tracker \subseteq Files /\ Tracker \in [DOMAIN Tracker -> BOOLEAN]
        BY Fcns, PartialFcn DEF Inv
      <3>2. Tracker' \in [DOMAIN Tracker' -> BOOLEAN]
        BY <1>2, <3>1
      <3>. QED
        BY <1>5, <3>1, <3>2, PartialFcn
    <2>2. host' \in [Slots -> Locations \cup {NoTarget}]
      BY <1>2 DEF Inv, TypeOK
    <2>3. pos' \in 0 .. (Len(script') + 1) /\ WritePointerSubsetEnd' \in 0 .. Len(script')
      BY <1>2, <1>3 DEF Inv, TypeOK
    <2>. QED
      BY <1>2, <1>3, <1>7, <2>1, <2>2, <2>3 DEF Inv, TypeOK, PartialFcns, secondPass, s3State
  <1>10. Memory'
    <2>1. Wanted(t[1])'
      <3>1. Len(script) + 1 \in 1 .. Len(script')
        BY <1>3
      <3>. QED
        BY <1>1, <1>3, <3>1 DEF Wanted
    <2>2. \A f : Pinned(f) => f \in mem
      BY DEF Pinned
    <2>. QED
      BY <1>2, <1>3, <1>4, <1>5, <1>6, <2>1, <2>2
         DEF Inv, Memory, BeforeFirstPass, TrackerFreed
  <1>11. HostPointers'
    <2>1. \A other \in Slots : host[other] # NoTarget => Told(other, Len(script))
      <3>1. WritePointerSubsetEnd \in 0 .. Len(script)
        BY DEF Inv, TypeOK
      <3>2. \A other \in Slots : host[other] # NoTarget => Told(other, WritePointerSubsetEnd)
        BY <1>3 DEF Inv, HostPointers, TrackerFreed
      <3>. QED
        BY <1>3, <3>1, <3>2 DEF Told
    <2>2. \A other \in Slots : host'[other] # NoTarget => Told(other, WritePointerSubsetEnd)'
      <3>1. 1 .. Len(script) \subseteq 1 .. Len(script) + 1 /\ Len(script) + 1 \in 1 .. Len(script) + 1
        BY <1>3
      <3>. QED
        BY <1>1, <1>2, <1>3, <1>8, <2>1, <3>1 DEF Told
    <2>3. \A v \in Range(s3') : Pinned(v.value[1])'
      <3>1. \A v \in Range(s3) : Pinned(v.value[1])
        BY <1>4 DEF Inv, HostPointers
      <3>. QED
        BY <1>6, <1>7, <3>1
    <2>4. \A other \in Slots : host'[other] # NoTarget => Pinned(host[other][1])'
      BY <1>6, <1>8 DEF Inv, HostPointers
    <2>. QED
      BY <1>3, <2>2, <2>3, <2>4, <1>6, <1>8
         DEF Inv, HostPointers, BeforeFirstPass, TrackerFreed
  <1>12. Context'
    <2>1. S3Enabled => s3' = Append(s3, w) /\ host = LastWrite(s3)
      BY <1>2, <1>3, <1>4 DEF Inv, Context
    <2>2. s3 \in Seq([slot : Slots, value : Locations])
      BY DEF Inv, TypeOK
    <2>3. S3Enabled => host' = LastWrite(s3')
      <3>1. LastWrite(Append(s3, w)) = [LastWrite(s3) EXCEPT ![slot] = t]
        BY <2>2, LastWriteAppended
      <3>. HIDE DEF w
      <3>. QED
        BY <1>2, <2>1, <3>1
    <2>. QED
      BY <1>3, <1>4, <2>3 DEF Inv, Context, s3State, S3Steps, TrackerFreed, Ended, Labels
  <1>13. Holdings' /\ Tables'
    BY <1>3, <1>4, <1>6 DEF Inv, Holdings, Holds, Tables, secondPass, s3State
  <1>14. Pointers'
    BY <1>1, <1>2, <1>5, CommandPointers
  <1>. QED
    BY <1>9, <1>10, <1>11, <1>12, <1>13, <1>14 DEF Inv

-----------------------------------------------------------------------------
(* The second pass.                                                        *)

\* An address is looked at for the first time: a table is installed under a new key, and
\* a file with something else in it is pinned.
LEMMA LookInv == ASSUME Inv, Process2ndPassCmdAddPointer PROVE Inv'
  <1>0. PICK t : t = fields[script[pos].pointer]
    OBVIOUS
  <1>1. /\ pc = "SecondPass" /\ pos <= Len(script) /\ pos' = pos + 1
        /\ script[pos].Type = "AddPointer"
        /\ t \notin SeenPointers /\ SeenPointers' = SeenPointers \cup {t}
        /\ UNCHANGED <<pc, Status, held, script, mem, fields, host, WritePointerSubsetEnd, s3>>
        /\ UNCHANGED <<s3State, S3Enabled>>
    BY <1>0 DEF Process2ndPassCmdAddPointer
  <1>2. PICK c \in Contents : Look(t, c)
    BY <1>0 DEF Process2ndPassCmdAddPointer
  <1>3. Status = "Success" /\ ~queued /\ bootScript = <<>> /\ mem = DOMAIN Tracker
    BY <1>1, InPasses
  <1>4. pos \in 1 .. Len(script) /\ Len(script) \in Nat
    BY <1>1, LenProperties DEF Inv, TypeOK, Pointers
  <1>5. script[pos].pointer \in DOMAIN fields /\ t[1] \in DOMAIN Tracker
    BY <1>0, <1>1, <1>4 DEF Inv, Pointers, TrackerFreed
  <1>6. t \in Locations
    BY <1>0, <1>5, Fcns, PartialFcn DEF Inv
  <1>7. /\ DOMAIN content = SeenPointers
        /\ DOMAIN content' = DOMAIN content \cup {t} /\ content'[t] = c
        /\ \A u \in DOMAIN content : content'[u] = content[u]
    BY <1>1, <1>2 DEF Look, Extend, Inv, Tables
  <1>8. /\ DOMAIN Tracker' = DOMAIN Tracker
        /\ \A g : Pinned(g) => Pinned(g)'
        /\ \A g : Pinned(g)' => Pinned(g) \/ (g = t[1] /\ c = "Opaque")
        /\ c = "Opaque" => Pinned(t[1])'
        /\ Tracker' \in PartialFcns(Files, BOOLEAN)
    <2>1. DOMAIN Tracker \subseteq Files /\ Tracker \in [DOMAIN Tracker -> BOOLEAN]
      BY Fcns, PartialFcn DEF Inv
    <2>2. CASE c = "Opaque"
      <3>1. Tracker' = [Tracker EXCEPT ![t[1]] = FALSE]
        BY <1>2, <2>2 DEF Look
      <3>2. DOMAIN Tracker' = DOMAIN Tracker /\ Tracker' \in [DOMAIN Tracker' -> BOOLEAN]
        BY <2>1, <3>1
      <3>3. \A g \in DOMAIN Tracker : Tracker'[g] = (IF g = t[1] THEN FALSE ELSE Tracker[g])
        BY <3>1
      <3>4. Tracker' \in PartialFcns(Files, BOOLEAN)
        BY <2>1, <3>2, PartialFcn
      <3>. QED
        BY <1>1, <1>3, <1>5, <2>2, <3>2, <3>3, <3>4 DEF Pinned
    <2>3. CASE c # "Opaque"
      <3>1. Tracker' = Tracker
        BY <1>2, <2>3 DEF Look
      <3>. QED
        BY <1>1, <2>1, <2>3, <3>1, PartialFcn DEF Pinned
    <2>. QED
      BY <2>2, <2>3
  <1>9. \A g : Wanted(g) => Wanted(g)'
    BY <1>1, <1>7 DEF Wanted
  <1>10. TypeOK'
    <2>1. content' \in PartialFcns(Locations, Contents)
      BY <1>2, <1>6, Fcns, PartialFcnOps DEF Inv, Look
    <2>2. Installed' \in 0 .. INSTALLED_TABLES_MAX
      BY <1>2, AcpiLoaderAssumption DEF Look, Inv, TypeOK
    <2>3. acpi' \in PartialFcns(1 .. INSTALLED_TABLES_MAX, Locations)
      <3>1. CASE c = "Table"
        <4>1. Installed' \in 1 .. INSTALLED_TABLES_MAX /\ acpi' = Extend(acpi, Installed', t)
          BY <1>2, <3>1, AcpiLoaderAssumption DEF Look, Inv, TypeOK
        <4>. QED
          BY <1>6, <4>1, Fcns, PartialFcnOps DEF Inv
      <3>2. CASE c # "Table"
        BY <1>2, <3>2, Fcns DEF Look, Inv
      <3>. QED
        BY <3>1, <3>2
    <2>4. pos' \in 0 .. (Len(script') + 1)
      BY <1>1, <1>4
    <2>. QED
      BY <1>1, <1>6, <1>8, <2>1, <2>2, <2>3, <2>4 DEF Inv, TypeOK, PartialFcns, s3State
  <1>11. Memory'
    <2>1. c = "Opaque" => Wanted(t[1])'
      BY <1>7 DEF Wanted
    <2>2. \A f : Pinned(f) => f \in mem
      BY DEF Pinned
    <2>. QED
      BY <1>1, <1>3, <1>8, <1>9, <2>1, <2>2 DEF Inv, Memory, BeforeFirstPass, TrackerFreed
  <1>12. HostPointers'
    <2>1. \A slot : Told(slot, WritePointerSubsetEnd)' <=> Told(slot, WritePointerSubsetEnd)
      BY <1>1 DEF Told
    <2>. QED
      BY <1>1, <1>8, <2>1 DEF Inv, HostPointers, BeforeFirstPass, TrackerFreed
  <1>13. Context' /\ Holdings'
    BY <1>1, <1>3 DEF Inv, Context, Holdings, Holds, s3State, S3Steps, Labels, TrackerFreed, Ended
  <1>14. Tables'
    <2>1. DOMAIN acpi = 1 .. Installed /\ Installed \in Nat
      BY DEF Inv, Tables, TypeOK
    <2>2. /\ DOMAIN acpi' = 1 .. Installed'
          /\ \A i \in DOMAIN acpi : i \in DOMAIN acpi' /\ acpi'[i] = acpi[i]
          /\ \A i \in DOMAIN acpi' : i \notin DOMAIN acpi => acpi'[i] = t
          /\ c = "Table" => t \in Range(acpi')
          /\ \A i, j \in DOMAIN acpi' : i \notin DOMAIN acpi /\ j \notin DOMAIN acpi => i = j
      <3>1. CASE c = "Table"
        <4>1. Installed' = Installed + 1 /\ acpi' = Extend(acpi, Installed + 1, t)
          BY <1>2, <3>1 DEF Look
        <4>2. /\ DOMAIN acpi' = DOMAIN acpi \cup {Installed + 1} /\ acpi'[Installed + 1] = t
              /\ \A i \in DOMAIN acpi \ {Installed + 1} : acpi'[i] = acpi[i]
          BY <4>1 DEF Extend
        <4>3. Installed + 1 \notin DOMAIN acpi /\ 1 .. Installed' = 1 .. Installed \cup {Installed + 1}
          BY <2>1, <4>1
        <4>. QED
          BY <2>1, <4>2, <4>3 DEF Range
      <3>2. CASE c # "Table"
        BY <1>2, <2>1, <3>2 DEF Look
      <3>. QED
        BY <3>1, <3>2
    <2>3. \A i \in DOMAIN acpi : acpi[i] \in SeenPointers /\ acpi[i] # t
      BY <1>1 DEF Inv, Tables, Range
    <2>4. Range(acpi') \subseteq SeenPointers'
      BY <1>1, <2>2, <2>3 DEF Range
    <2>5. IsInjective(acpi')
      BY <2>2, <2>3 DEF IsInjective, Inv, Tables
    <2>6. \A u \in DOMAIN content' : content'[u] = "Table" => u \in Range(acpi')
      BY <1>3, <1>7, <2>2 DEF Inv, Tables, Range
    <2>7. \A u \in DOMAIN content' : content'[u] = "Opaque" => Pinned(u[1])'
      BY <1>3, <1>7, <1>8 DEF Inv, Tables
    <2>. QED
      BY <1>1, <1>3, <1>7, <2>2, <2>4, <2>5, <2>6, <2>7
         DEF Tables, BeforeSecondPass, BeforeFirstPass, Ended, Labels
  <1>15. Pointers'
    <2>1. \A i \in 1 .. pos' - 1 : i \in 1 .. pos - 1 \/ i = pos
      BY <1>1, <1>4
    <2>2. \A i \in 1 .. pos' - 1 : script[i].Type = "AddPointer" =>
              fields[script[i].pointer] \in SeenPointers'
      BY <1>0, <1>1, <2>1 DEF Inv, Pointers
    <2>. QED
      BY <1>1, <1>4, <1>8, <2>2 DEF Inv, Pointers, TrackerFreed, S3Steps, Ended, Labels
  <1>. QED
    BY <1>10, <1>11, <1>12, <1>13, <1>14, <1>15 DEF Inv

-----------------------------------------------------------------------------
(* Taking back, and the boot script.                                       *)

\* The predicates that follow the files, when those are left alone.
LEMMA FilesFrame ==
    ASSUME UNCHANGED <<script, Tracker, mem, content>>
    PROVE  /\ \A f : (Pinned(f)' <=> Pinned(f)) /\ (Wanted(f)' <=> Wanted(f))
           /\ \A slot, n : Told(slot, n)' <=> Told(slot, n)
  BY DEF Pinned, Wanted, Told

\* The last table installed is uninstalled.
LEMMA UninstallInv == ASSUME Inv, UninstallAcpiTable PROVE Inv'
  <1>1. /\ pc = "UninstallAcpiTables" /\ Status = "Error" /\ Installed > 0
        /\ Installed' = Installed - 1 /\ acpi' = Restrict(acpi, DOMAIN acpi \ {Installed})
        /\ UNCHANGED <<pc, Status, pos, held, SeenPointers, content, S3Enabled>>
        /\ UNCHANGED <<script, Tracker, mem, fields, host, WritePointerSubsetEnd, s3>>
        /\ UNCHANGED <<S3Context, queued, bootScript>>
    BY DEF UninstallAcpiTable, firstPass, s3State
  <1>. USE FilesFrame
  <1>2. TypeOK'
    <2>1. acpi' \in PartialFcns(1 .. INSTALLED_TABLES_MAX, Locations)
      BY <1>1, Fcns, PartialFcnOps DEF Inv
    <2>2. Installed' \in 0 .. INSTALLED_TABLES_MAX
      BY <1>1, AcpiLoaderAssumption DEF Inv, TypeOK
    <2>. QED
      BY <1>1, <2>1, <2>2 DEF Inv, TypeOK, PartialFcns
  <1>3. Memory' /\ HostPointers'
    BY <1>1 DEF Inv, Memory, HostPointers
  <1>4. Context' /\ Holdings' /\ Pointers'
    BY <1>1 DEF Inv, Context, Holdings, Holds, Pointers
  <1>5. Tables'
    <2>1. DOMAIN acpi = 1 .. Installed /\ Installed \in Nat
      BY DEF Inv, Tables, TypeOK
    <2>2. /\ DOMAIN acpi' = DOMAIN acpi \ {Installed}
          /\ \A i \in DOMAIN acpi' : i \in DOMAIN acpi /\ acpi'[i] = acpi[i]
      BY <1>1 DEF Restrict
    <2>3. DOMAIN acpi' = 1 .. Installed'
      <3>1. 1 .. (Installed - 1) = (1 .. Installed) \ {Installed}
        BY <1>1, <2>1
      <3>. QED
        BY <1>1, <2>1, <2>2, <3>1
    <2>4. Range(acpi') \subseteq SeenPointers'
      BY <1>1, <2>2 DEF Range, Inv, Tables
    <2>5. IsInjective(acpi')
      BY <2>2 DEF IsInjective, Inv, Tables
    <2>. QED
      BY <1>1, <2>3, <2>4, <2>5 DEF Inv, Tables, BeforeSecondPass, BeforeFirstPass
  <1>. QED
    BY <1>2, <1>3, <1>4, <1>5 DEF Inv

\* The rollback revokes the addresses, from the last WritePointer to the first.
LEMMA UndoInv == ASSUME Inv, UndoCmdWritePointer PROVE Inv'
  <1>1. /\ pc = "UndoWritePointers" /\ pos \in Nat /\ Status = "Error"
        /\ UNCHANGED <<Status, held, script, Tracker, mem, fields, WritePointerSubsetEnd, s3>>
        /\ UNCHANGED <<SeenPointers, content, Installed, acpi>>
        /\ UNCHANGED <<S3Context, queued, bootScript, S3Enabled>>
    BY DEF UndoCmdWritePointer, secondPass, s3State, Inv, TypeOK, Context
  <1>2. /\ ~queued /\ bootScript = <<>>
    BY <1>1 DEF Inv, Context
  <1>. USE FilesFrame
  <1>3. CASE pos = 0
    <2>1. pc' = "FreeTracker" /\ UNCHANGED <<pos, host>>
      BY <1>1, <1>3 DEF UndoCmdWritePointer
    <2>2. \A slot \in Slots : host[slot] = NoTarget
      BY <1>1, <1>3 DEF Inv, HostPointers, Told
    <2>3. TypeOK' /\ Memory'
      BY <1>1, <2>1, Names DEF Inv, TypeOK, Memory, BeforeFirstPass, TrackerFreed
    <2>4. HostPointers'
      BY <1>1, <2>1, <2>2 DEF Inv, HostPointers, BeforeFirstPass, TrackerFreed
    <2>5. Context' /\ Holdings'
      BY <1>1, <1>2, <2>1
         DEF Inv, Context, Holdings, Holds, S3Steps, TrackerFreed, Ended, Labels
    <2>6. Tables' /\ Pointers'
      BY <1>1, <2>1
         DEF Inv, Tables, Pointers, BeforeSecondPass, BeforeFirstPass, TrackerFreed, Ended,
             Labels, S3Steps
    <2>. QED
      BY <2>3, <2>4, <2>5, <2>6 DEF Inv
  <1>4. CASE pos > 0
    <2>1. /\ UNCHANGED pc /\ pos' = pos - 1
          /\ host' = (IF script[pos].Type = "WritePointer"
                      THEN [host EXCEPT ![script[pos].slot] = NoTarget] ELSE host)
      BY <1>1, <1>4 DEF UndoCmdWritePointer
    <2>2. \A slot \in Slots : host'[slot] # NoTarget =>
              /\ host'[slot] = host[slot]
              /\ ~(script[pos].Type = "WritePointer" /\ script[pos].slot = slot)
      BY <2>1 DEF Inv, TypeOK
    <2>3. \A slot \in Slots : host'[slot] # NoTarget => Told(slot, pos)'
      <3>1. \A slot \in Slots : host'[slot] # NoTarget => Told(slot, pos)
        BY <1>1, <2>2 DEF Inv, HostPointers
      <3>2. \A i \in 1 .. pos : i = pos \/ i \in 1 .. pos - 1
        BY <1>1
      <3>. QED
        BY <1>1, <2>1, <2>2, <3>1, <3>2 DEF Told
    <2>4. TypeOK'
      <3>1. host' \in [Slots -> Locations \cup {NoTarget}]
        BY <2>1 DEF Inv, TypeOK
      <3>2. pos' \in 0 .. (Len(script') + 1)
        BY <1>1, <1>4, <2>1, LenProperties DEF Inv, TypeOK
      <3>. QED
        BY <1>1, <2>1, <3>1, <3>2 DEF Inv, TypeOK
    <2>5. Memory' /\ Tables' /\ Holdings'
      BY <1>1, <2>1 DEF Inv, Memory, Tables, Holdings, Holds
    <2>6. HostPointers'
      BY <1>1, <2>1, <2>2, <2>3 DEF Inv, HostPointers, BeforeFirstPass, TrackerFreed
    <2>7. Context' /\ Pointers'
      BY <1>1, <2>1 DEF Inv, Context, Pointers
    <2>. QED
      BY <2>4, <2>5, <2>6, <2>7 DEF Inv
  <1>. QED
    BY <1>1, <1>3, <1>4

\* A file is freed: after a success only if nothing needs it, after a failure when QEMU
\* has no address in it any more.
LEMMA FreeBlobInv == ASSUME Inv, NEW f \in Files, FreeBlob(f) PROVE Inv'
  <1>1. /\ pc = "FreeTracker" /\ f \in DOMAIN Tracker
        /\ Tracker' = Restrict(Tracker, DOMAIN Tracker \ {f})
        /\ mem' = (IF Status = "Error" \/ Tracker[f] THEN mem \ {f} ELSE mem)
        /\ UNCHANGED <<pc, Status, pos, held, script, fields, host, WritePointerSubsetEnd, s3>>
        /\ UNCHANGED <<SeenPointers, content, Installed, acpi>>
        /\ UNCHANGED <<S3Context, queued, bootScript, S3Enabled>>
    BY DEF FreeBlob, secondPass, s3State
  <1>2. /\ DOMAIN Tracker' = DOMAIN Tracker \ {f}
        /\ \A g \in DOMAIN Tracker \ {f} : Tracker'[g] = Tracker[g]
    BY <1>1 DEF Restrict
  <1>3. \A g : Pinned(g)' => Pinned(g)
    BY <1>1, <1>2 DEF Pinned
  <1>4. Status = "Success" => \A g : Pinned(g) => Pinned(g)'
    BY <1>1, <1>2 DEF Pinned
  <1>5. /\ \A g : Wanted(g)' <=> Wanted(g)
        /\ \A slot, n : Told(slot, n)' <=> Told(slot, n)
    BY <1>1 DEF Wanted, Told
  <1>6. Status \in {"Success", "Error"}
    BY DEF Inv, TypeOK
  <1>7. TypeOK'
    <2>1. Tracker' \in PartialFcns(Files, BOOLEAN)
      BY <1>1, Fcns, PartialFcnOps DEF Inv
    <2>2. mem' \subseteq Files
      BY <1>1 DEF Inv, TypeOK
    <2>. QED
      BY <1>1, <2>1, <2>2 DEF Inv, TypeOK, PartialFcns
  <1>8. Memory'
    <2>1. DOMAIN Tracker' \subseteq mem' /\ mem' \subseteq mem
      BY <1>1, <1>2 DEF Inv, Memory
    <2>2. Status = "Error" => mem' = DOMAIN Tracker'
      BY <1>1, <1>2 DEF Inv, Memory
    <2>. QED
      BY <1>1, <1>3, <1>5, <2>1, <2>2 DEF Inv, Memory, BeforeFirstPass, TrackerFreed
  <1>9. HostPointers'
    BY <1>1, <1>4, <1>6 DEF Inv, HostPointers, BeforeFirstPass, TrackerFreed
  <1>10. Context' /\ Holdings'
    BY <1>1 DEF Inv, Context, Holdings, Holds
  <1>11. Tables' /\ Pointers'
    BY <1>1, <1>4 DEF Inv, Tables, Pointers, TrackerFreed
  <1>. QED
    BY <1>7, <1>8, <1>9, <1>10, <1>11 DEF Inv

\* The callback writes the boot script and releases what it owns.
LEMMA CallbackInv == ASSUME Inv, AppendFwCfgBootScript PROVE Inv'
  <1>1. /\ queued /\ pc # "DeadLoop" /\ bootScript' = bootScript \o OpcodesOf(s3)
        /\ held' = held \ {"S3Context", "S3SaveStateInstalledEvent"} /\ queued' = FALSE
        /\ UNCHANGED <<pc, Status, pos, S3Context, S3Enabled>>
        /\ UNCHANGED <<script, Tracker, mem, fields, host, WritePointerSubsetEnd, s3>>
        /\ UNCHANGED <<SeenPointers, content, Installed, acpi>>
    BY DEF AppendFwCfgBootScript, firstPass, secondPass
  <1>2. /\ OpcodesOf(s3) \in Seq(Opcodes) /\ OpcodesOf(s3) # <<>>
        /\ bootScript = <<>> /\ ~S3Context /\ Status = "Success" /\ pc \in Ended
    BY <1>1, OpcodesType DEF Inv, TypeOK, Context
  <1>3. bootScript' = OpcodesOf(s3)
    BY <1>1, <1>2, ConcatEmptySeq
  <1>. USE FilesFrame
  <1>4. TypeOK'
    BY <1>1, <1>2, <1>3 DEF Inv, TypeOK
  <1>5. Memory' /\ HostPointers' /\ Tables' /\ Pointers'
    BY <1>1 DEF Inv, Memory, HostPointers, Tables, Pointers
  <1>6. Context'
    BY <1>1, <1>2, <1>3 DEF Inv, Context
  <1>7. Holdings'
    BY <1>1, <1>2, <1>3 DEF Inv, Holdings, Holds, Ended, Labels, S3Steps
  <1>. QED
    BY <1>4, <1>5, <1>6, <1>7 DEF Inv

\* S3 resume tells QEMU what it knew before: BootScript.c saves every WritePointer that
\* was not rolled back, and nothing else.
LEMMA ResumeFrame == ASSUME Inv, S3Resume PROVE UNCHANGED vars
  <1>1. S3Enabled /\ pc = "Returned" /\ ~queued /\ host' = Replay(bootScript)
    BY DEF S3Resume
  <1>2. host \in [Slots -> Locations \cup {NoTarget}]
    BY DEF Inv, TypeOK
  <1>3. CASE Status = "Success"
    <2>1. bootScript = OpcodesOf(s3) /\ host = LastWrite(s3)
      BY <1>1, <1>3 DEF Inv, Context, Ended
    <2>2. s3 \in Seq([slot : Slots, value : Locations])
      BY DEF Inv, TypeOK
    <2>3. host' = host
      BY <1>1, <2>1, <2>2, ReplayOpcodes
    <2>. QED
      BY <2>3 DEF S3Resume, vars, firstPass
  <1>4. CASE Status = "Error"
    <2>1. bootScript = <<>> /\ \A slot \in Slots : host[slot] = NoTarget
      BY <1>1, <1>4 DEF Inv, Context, HostPointers, TrackerFreed
    <2>2. host = [slot \in Slots |-> NoTarget]
      BY <1>2, <2>1
    <2>3. host' = host
      BY <1>1, <2>1, <2>2, ReplayNothing
    <2>. QED
      BY <2>3 DEF S3Resume, vars, firstPass
  <1>. QED
    BY <1>3, <1>4 DEF Inv, TypeOK

\* Nothing changes in a stuttering step.
LEMMA StutterInv == ASSUME Inv, UNCHANGED vars PROVE Inv'
  <1>1. /\ UNCHANGED <<pc, Status, pos, held, S3Context, queued, bootScript, S3Enabled>>
        /\ UNCHANGED <<script, Tracker, mem, fields, host, WritePointerSubsetEnd, s3>>
        /\ UNCHANGED <<SeenPointers, content, Installed, acpi>>
    BY DEF vars, firstPass, secondPass, s3State
  <1>. USE FilesFrame
  <1>2. TypeOK'
    BY <1>1 DEF Inv, TypeOK
  <1>3. Memory' /\ Pointers'
    BY <1>1 DEF Inv, Memory, Pointers
  <1>4. Tables'
    BY <1>1 DEF Inv, Tables, BeforeSecondPass, BeforeFirstPass
  <1>5. HostPointers' /\ Context' /\ Holdings'
    BY <1>1 DEF Inv, HostPointers, Context, Holdings, Holds
  <1>. QED
    BY <1>2, <1>3, <1>4, <1>5 DEF Inv

\* Every step keeps the invariant.
LEMMA InvStep == ASSUME Inv, [Next]_vars PROVE Inv'
  <1>1. CASE UNCHANGED vars
    BY <1>1, StutterInv
  <1>2. CASE FirstPass
    BY <1>2, AllocateInv, AddPointerInv, OtherInv, WritePointerInv, ControlInv
       DEF FirstPass, Control
  <1>3. CASE SecondPass
    BY <1>3, LookInv, ControlInv DEF SecondPass, Control
  <1>4. CASE Transfer
    BY <1>4, ControlInv DEF Transfer, Control
  <1>5. CASE CleanUp
    BY <1>5, UninstallInv, UndoInv, FreeBlobInv, ControlInv DEF CleanUp, Control
  <1>6. CASE \/ AllocateLoader \/ CollectAllocationsRestrictedTo32Bit \/ AllocateS3Context
             \/ InitTracker \/ AllocateKeys \/ InitSeenPointers \/ AppendFatalError
    BY <1>6, ControlInv DEF Control
  <1>7. CASE AppendFwCfgBootScript
    BY <1>7, CallbackInv
  <1>8. CASE S3Resume
    BY <1>8, ResumeFrame, StutterInv
  <1>. QED
    BY <1>1, <1>2, <1>3, <1>4, <1>5, <1>6, <1>7, <1>8 DEF Next, InstallQemuFwCfgTables

-----------------------------------------------------------------------------
(* The theorems.                                                           *)

\* The invariant of the linker/loader, for every script.
THEOREM Invariant == Spec => []Inv
  BY InvInit, InvStep, PTL DEF Spec

\* Types, WritePointerSubsetEnd and the number of installed tables in their bounds
\* included.
THEOREM TypeCorrect == Spec => []TypeOK
  BY Invariant, PTL DEF Inv

\* UndoCmdWritePointer() and HostsOnlyTableData: QEMU never has an address in freed memory,
\* nor will the boot script give it one.
THEOREM HostPointersValidTheorem == Spec => []HostPointersValid
  <1>1. ASSUME Inv PROVE HostPointersValid
    <2>1. \A f : Pinned(f) => f \in mem
      BY DEF Pinned
    <2>2. \A slot \in Slots : host[slot] # NoTarget => host[slot][1] \in mem
      BY <1>1, <2>1 DEF Inv, HostPointers
    <2>3. queued \/ bootScript # <<>> => \A w \in Range(s3) : w.value[1] \in mem
      BY <1>1, <2>1 DEF Inv, HostPointers, Context
    <2>4. ASSUME NEW o \in Range(bootScript), o.op = "Write"
          PROVE  o.value[1] \in mem
      <3>1. s3 \in Seq([slot : Slots, value : Locations]) /\ Len(s3) \in Nat
        BY <1>1, LenProperties DEF Inv, TypeOK
      <3>2. bootScript # <<>> /\ bootScript = OpcodesOf(s3)
        BY <1>1, <2>4 DEF Inv, Context, Range
      <3>3. PICK k \in 1 .. 2 * Len(s3) : o = OpcodesOf(s3)[k]
        BY <2>4, <3>2 DEF Range, OpcodesOf
      <3>4. k % 2 # 1 /\ o = WriteBytes(s3[k \div 2])
        BY <2>4, <3>3 DEF OpcodesOf, SkipBytes
      <3>5. k \div 2 \in 1 .. Len(s3)
        BY <3>1, <3>3, <3>4
      <3>6. s3[k \div 2] \in Range(s3)
        BY <3>1, <3>5, LenProperties DEF Range
      <3>. QED
        BY <2>3, <3>2, <3>4, <3>6 DEF WriteBytes
    <2>. QED
      BY <2>2, <2>3, <2>4 DEF HostPointersValid
  <1>. QED
    BY <1>1, Invariant, PTL

\* InstallQemuFwCfgTables() leaves all or nothing, and the callback what S3 needs.
THEOREM AllOrNothingTheorem == Spec => []AllOrNothing
  <1>1. ASSUME Inv PROVE AllOrNothing
    <2>1. queued => {"S3Context", "DmaAccess", "S3SaveStateInstalledEvent"} \subseteq held
      BY <1>1 DEF Inv, Holdings
    <2>2. ASSUME pc = "Returned"
          PROVE  held \subseteq {"DmaAccess"} \cup
                     IF queued THEN {"S3Context", "S3SaveStateInstalledEvent"} ELSE {}
      <3>1. held \subseteq Objects
        BY <1>1 DEF Inv, TypeOK
      <3>2. ~S3Context
        BY <1>1, <2>2 DEF Inv, Context, TrackerFreed
      <3>3. ASSUME NEW o \in held, o \notin {"DmaAccess", "S3Context", "S3SaveStateInstalledEvent"}
            PROVE  FALSE
        BY <1>1, <2>2, <3>1, <3>3 DEF Inv, Holdings, Holds, Objects, S3Steps, Labels
      <3>4. "S3Context" \in held => queued
        BY <1>1, <2>2, <3>2 DEF Inv, Holdings
      <3>5. "S3SaveStateInstalledEvent" \in held => queued
        BY <1>1, <2>2 DEF Inv, Holdings
      <3>. QED
        BY <3>3, <3>4, <3>5
    <2>3. ASSUME pc = "Returned", Status = "Error"
          PROVE  /\ held = {} /\ mem = {} /\ DOMAIN acpi = {}
                 /\ \A slot \in Slots : host[slot] = NoTarget
                 /\ ~queued /\ bootScript = <<>>
      <3>1. ~queued /\ bootScript = <<>>
        BY <1>1, <2>3 DEF Inv, Context
      <3>2. "DmaAccess" \notin held
        BY <1>1, <2>3, <3>1 DEF Inv, Holdings, S3Steps
      <3>3. held = {}
        BY <2>2, <2>3, <3>1, <3>2
      <3>4. mem = {} /\ \A slot \in Slots : host[slot] = NoTarget
        BY <1>1, <2>3 DEF Inv, Memory, HostPointers, TrackerFreed
      <3>5. DOMAIN acpi = {}
        BY <1>1, <2>3 DEF Inv, Tables, Ended
      <3>. QED
        BY <3>1, <3>3, <3>4, <3>5
    <2>4. ASSUME pc = "Returned", Status = "Success", S3Enabled
          PROVE  host = Replay(IF queued THEN bootScript \o OpcodesOf(s3) ELSE bootScript)
      <3>1. s3 \in Seq([slot : Slots, value : Locations]) /\ OpcodesOf(s3) \in Seq(Opcodes)
        BY <1>1, OpcodesType DEF Inv, TypeOK
      <3>2. (IF queued THEN bootScript \o OpcodesOf(s3) ELSE bootScript) = OpcodesOf(s3)
        BY <1>1, <2>4, <3>1, ConcatEmptySeq DEF Inv, Context, Ended
      <3>. QED
        BY <1>1, <2>4, <3>1, <3>2, ReplayOpcodes DEF Inv, Context
    <2>. QED
      BY <2>1, <2>2, <2>3, <2>4 DEF AllOrNothing
  <1>. QED
    BY <1>1, Invariant, PTL

\* After a success every pointer of the script leads somewhere, no table is installed
\* twice, and no file is kept without a reason.
THEOREM PointersResolvedTheorem == Spec => []PointersResolved
  <1>1. ASSUME Inv, pc = "Returned", Status = "Success"
        PROVE  /\ \A p \in DOMAIN fields :
                      LET t == fields[p]
                      IN  t[1] \in mem \/ t \in Range(acpi) \/ content[t] = "RootTable"
               /\ IsInjective(acpi)
               /\ \A f \in mem : Wanted(f)
    <2>1. ASSUME NEW p \in DOMAIN fields
          PROVE  \/ fields[p][1] \in mem \/ fields[p] \in Range(acpi)
                 \/ content[fields[p]] = "RootTable"
      <3>1. fields[p] \in DOMAIN content
        BY <1>1 DEF Inv, Pointers, Tables, Ended
      <3>2. content[fields[p]] \in {"Table", "RootTable", "Opaque"}
        BY <1>1, <3>1, Fcns, PartialFcn DEF Inv, Contents
      <3>3. \A f : Pinned(f) => f \in mem
        BY DEF Pinned
      <3>. QED
        BY <1>1, <3>1, <3>2, <3>3 DEF Inv, Tables
    <2>2. \A f \in mem : Pinned(f)
      BY <1>1 DEF Inv, Memory, TrackerFreed, Pinned
    <2>. QED
      BY <1>1, <2>1, <2>2 DEF Inv, Tables, Memory
  <1>2. Inv => PointersResolved
    BY <1>1 DEF PointersResolved, Wanted
  <1>. QED
    BY <1>2, Invariant, PTL
=============================================================================
