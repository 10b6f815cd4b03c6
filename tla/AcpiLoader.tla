----------------------------- MODULE AcpiLoader -----------------------------
(***************************************************************************)
(* AcpiPlatformDxe runs QEMU's linker/loader script.  The first pass       *)
(* downloads fw_cfg files into memory, patches addresses into them and     *)
(* tells QEMU where some of them are; the second pass gives the ACPI       *)
(* tables it finds to the ACPI table protocol.  The addresses told to QEMU *)
(* are told again at S3 resume, by a boot script that a callback writes    *)
(* once the S3SaveState protocol exists.  Any step may fail, and           *)
(* everything done before it is then taken back.                           *)
(*                                                                         *)
(* The script is QEMU's: it is chosen command by command as the first pass *)
(* reads it, and kept for the second pass and for the rollback.  A byte of *)
(* a file is a location <<file, offset>>: the place of a pointer, or what  *)
(* a pointer or QEMU may refer to.  What the bytes at a location are (a    *)
(* table, RSDT or XSDT, something else) is chosen when the second pass     *)
(* looks at them.  Sizes, alignments, checksums and the width of pointers  *)
(* only decide whether a command fails, which it always may.               *)
(***************************************************************************)
EXTENDS Integers, SequencesExt

CONSTANTS
    Files,                  \* fw_cfg files the script can name
    Offsets,                \* offsets in a file that matter
    Slots,                  \* writeable pointers of QEMU: a fw_cfg file, offset and size
    NoTarget,               \* a slot that holds zero
    INSTALLED_TABLES_MAX,
    MaxCommands             \* bound: the length of the script

ASSUME AcpiLoaderAssumption ==
    /\ INSTALLED_TABLES_MAX \in Nat \ {0}
    /\ MaxCommands \in Nat
    /\ NoTarget \notin Files \X Offsets

VARIABLES
    pc,                     \* the statement, or the label, InstallQemuFwCfgTables is at
    Status,                 \* "Success" or "Error"
    script,                 \* the commands read so far
    pos,                    \* LoaderEntry of the second pass and of the rollback
    held,                   \* the pool objects, collections and events that exist
    mem,                    \* the files whose pages are allocated
    Tracker,                \* file |-> its BLOB's HostsOnlyTableData
    fields,                 \* location of a relocated pointer |-> what it points at
    host,                   \* slot |-> the address QEMU holds
    WritePointerSubsetEnd,  \* number of commands up to the last WritePointer done
    s3,                     \* WritePointers of the S3_CONTEXT
    SeenPointers,           \* addresses the second pass has looked at
    content,                \* address |-> what the second pass found there
    Installed,              \* number of tables installed
    acpi,                   \* key |-> table, in the ACPI table protocol
    S3Context,              \* InstallQemuFwCfgTables has a pointer to the S3_CONTEXT
    queued,                 \* the boot script callback waits for S3SaveState
    bootScript,             \* fw_cfg opcodes in the S3 boot script
    S3Enabled

firstPass == <<script, Tracker, mem, fields, host, WritePointerSubsetEnd, s3>>
secondPass == <<SeenPointers, content, Installed, acpi>>
s3State == <<S3Context, queued, bootScript>>
vars == <<pc, Status, pos, held, firstPass, secondPass, s3State, S3Enabled>>

Locations == Files \X Offsets
Contents == {"Table", "RootTable", "Opaque"}

Commands ==
    [Type : {"AddPointer"}, pointer : Locations, target : Locations]
        \cup [Type : {"WritePointer"}, slot : Slots, target : Locations]
        \cup [Type : {"Allocate"}, file : Files] \cup [Type : {"Other"}]

Opcodes == [op : {"Skip"}, slot : Slots] \cup [op : {"Write"}, value : Locations]

Objects == {"Loader", "AllocationsRestrictedTo32Bit", "S3Context", "Tracker",
            "InstalledKey", "SeenPointers", "DmaAccess", "S3SaveStateInstalledEvent"}

Acquisitions == {"AllocateLoader", "CollectAllocationsRestrictedTo32Bit",
                 "AllocateS3Context", "InitTracker", "AllocateKeys", "InitSeenPointers"}
S3Steps == {"TransferS3ContextToBootScript", "CreateEvent", "RegisterProtocolNotify",
            "SignalEvent", "CloseEvent", "FreeDmaAccess"}
Labels == {"UninstallAcpiTables", "FreeKeys", "RollbackWritePointersAndFreeTracker",
           "UndoWritePointers", "FreeTracker", "FreeS3Context",
           "FreeAllocationsRestrictedTo32Bit", "FreeLoader"}

TypeOK ==
    /\ pc \in Acquisitions \cup S3Steps \cup Labels
                \cup {"FirstPass", "SecondPass", "Returned", "DeadLoop"}
    /\ Status \in {"Success", "Error"}
    /\ script \in Seq(Commands)
    /\ pos \in 0..(Len(script) + 1)
    /\ held \subseteq Objects
    /\ mem \subseteq Files
    /\ Tracker \in UNION {[F -> BOOLEAN] : F \in SUBSET Files}
    /\ fields \in UNION {[L -> Locations] : L \in SUBSET Locations}
    /\ host \in [Slots -> Locations \cup {NoTarget}]
    /\ WritePointerSubsetEnd \in 0..Len(script)
    /\ s3 \in Seq([slot : Slots, value : Locations])
    /\ SeenPointers \subseteq Locations
    /\ content \in UNION {[L -> Contents] : L \in SUBSET Locations}
    /\ Installed \in 0..INSTALLED_TABLES_MAX
    /\ acpi \in UNION {[K -> Locations] : K \in SUBSET (1..INSTALLED_TABLES_MAX)}
    /\ S3Context \in BOOLEAN /\ queued \in BOOLEAN /\ S3Enabled \in BOOLEAN
    /\ bootScript \in Seq(Opcodes)

EmptyFcn == [x \in {} |-> x]

\* f, with x (not in its domain so far) going to y.
Extend(f, x, y) == [z \in DOMAIN f \cup {x} |-> IF z = x THEN y ELSE f[z]]

Init ==
    /\ pc = "AllocateLoader" /\ Status = "Success"
    /\ script = <<>> /\ pos = 0
    /\ held = {} /\ mem = {}
    /\ Tracker = EmptyFcn /\ fields = EmptyFcn /\ content = EmptyFcn /\ acpi = EmptyFcn
    /\ host = [s \in Slots |-> NoTarget]
    /\ WritePointerSubsetEnd = 0
    /\ s3 = <<>>
    /\ SeenPointers = {} /\ Installed = 0
    /\ S3Context = FALSE /\ queued = FALSE /\ bootScript = <<>>
    /\ S3Enabled \in BOOLEAN

-----------------------------------------------------------------------------
(* Acquiring what the passes need; a failure goes to the label that frees  *)
(* what is held so far.                                                    *)

Acquire(at, object, next, label) ==
    /\ pc = at
    /\ \/ held' = held \cup {object} /\ pc' = next /\ UNCHANGED Status
       \/ Status' = "Error" /\ pc' = label /\ UNCHANGED held
    /\ UNCHANGED <<pos, firstPass, secondPass, s3State, S3Enabled>>

\* The script is missing, ill-sized, or there is no memory for it.
AllocateLoader ==
    Acquire("AllocateLoader", "Loader", "CollectAllocationsRestrictedTo32Bit", "Returned")

\* Releases its own collection when it fails.
CollectAllocationsRestrictedTo32Bit ==
    Acquire("CollectAllocationsRestrictedTo32Bit", "AllocationsRestrictedTo32Bit",
            "AllocateS3Context", "FreeLoader")

\* The array has room for one WritePointer per command, so it never overflows.
AllocateS3Context ==
    /\ pc = "AllocateS3Context"
    /\ \/ /\ ~S3Enabled
          /\ pc' = "InitTracker"
          /\ UNCHANGED <<Status, held, S3Context>>
       \/ /\ S3Enabled
          /\ held' = held \cup {"S3Context"} /\ S3Context' = TRUE
          /\ pc' = "InitTracker"
          /\ UNCHANGED Status
       \/ /\ S3Enabled
          /\ Status' = "Error" /\ pc' = "FreeAllocationsRestrictedTo32Bit"
          /\ UNCHANGED <<held, S3Context>>
    /\ UNCHANGED <<pos, firstPass, secondPass, queued, bootScript, S3Enabled>>

InitTracker == Acquire("InitTracker", "Tracker", "FirstPass", "FreeS3Context")

AllocateKeys ==
    Acquire("AllocateKeys", "InstalledKey", "InitSeenPointers",
            "RollbackWritePointersAndFreeTracker")

InitSeenPointers == Acquire("InitSeenPointers", "SeenPointers", "SecondPass", "FreeKeys")

-----------------------------------------------------------------------------
(* First pass.                                                             *)

Command(c) ==
    /\ pc = "FirstPass"
    /\ Len(script) < MaxCommands
    /\ script' = Append(script, c)
    /\ UNCHANGED <<pc, Status, pos, held, secondPass, s3State, S3Enabled>>

ProcessCmdAllocate(f) ==
    /\ Command([Type |-> "Allocate", file |-> f])
    /\ f \notin DOMAIN Tracker
    /\ mem' = mem \cup {f}
    /\ Tracker' = Extend(Tracker, f, TRUE)
    /\ UNCHANGED <<fields, host, WritePointerSubsetEnd, s3>>

\* The field holds an offset until it is relocated; an address is no valid offset.
ProcessCmdAddPointer(p, t) ==
    /\ Command([Type |-> "AddPointer", pointer |-> p, target |-> t])
    /\ {p[1], t[1]} \subseteq DOMAIN Tracker
    /\ p \notin DOMAIN fields
    /\ fields' = Extend(fields, p, t)
    /\ UNCHANGED <<mem, Tracker, host, WritePointerSubsetEnd, s3>>

\* Changes one byte; neither it nor an unknown command is looked at again.
ProcessCmdAddChecksum ==
    /\ Command([Type |-> "Other"])
    /\ Tracker # EmptyFcn
    /\ UNCHANGED <<mem, Tracker, fields, host, WritePointerSubsetEnd, s3>>

SaveCondensedWritePointer(slot, t) ==
    IF S3Context THEN Append(s3, [slot |-> slot, value |-> t]) ELSE s3

\* Mutant: WritePointerSubsetEnd points at the last command, not past it.
WritePointerSubsetShort(slot, t) ==
    /\ Command([Type |-> "WritePointer", slot |-> slot, target |-> t])
    /\ t[1] \in DOMAIN Tracker
    /\ s3' = SaveCondensedWritePointer(slot, t)
    /\ host' = [host EXCEPT ![slot] = t]
    /\ Tracker' = [Tracker EXCEPT ![t[1]] = FALSE]
    /\ WritePointerSubsetEnd' = Len(script)
    /\ UNCHANGED <<mem, fields>>

\* Condensed for S3 before QEMU learns the address.
ProcessCmdWritePointer(slot, t) ==
    /\ Command([Type |-> "WritePointer", slot |-> slot, target |-> t])
    /\ t[1] \in DOMAIN Tracker
    /\ s3' = SaveCondensedWritePointer(slot, t)
    /\ host' = [host EXCEPT ![slot] = t]
    /\ Tracker' = [Tracker EXCEPT ![t[1]] = FALSE]
    /\ WritePointerSubsetEnd' = Len(script) + 1
    /\ UNCHANGED <<mem, fields>>

UnknownCommand ==
    /\ Command([Type |-> "Other"])
    /\ UNCHANGED <<mem, Tracker, fields, host, WritePointerSubsetEnd, s3>>

\* Malformed or unknown names, bad offsets, unrepresentable addresses, a
\* duplicated file, no memory: a command that fails leaves nothing behind, and
\* nothing reads it, or the script after it, again.
CommandFails ==
    /\ pc = "FirstPass"
    /\ Len(script) < MaxCommands
    /\ Status' = "Error"
    /\ pc' = "RollbackWritePointersAndFreeTracker"
    /\ UNCHANGED <<pos, held, firstPass, secondPass, s3State, S3Enabled>>

\* The end of the script.  AllocateS3Context fails for an empty one.
FirstPassDone ==
    /\ pc = "FirstPass"
    /\ S3Enabled => script # <<>>
    /\ pc' = "AllocateKeys"
    /\ pos' = 1
    /\ UNCHANGED <<Status, held, firstPass, secondPass, s3State, S3Enabled>>

-----------------------------------------------------------------------------
(* Second pass.                                                            *)

\* A command of another type, or a pointer to an address seen before.
SkipCommand ==
    /\ pc = "SecondPass"
    /\ pos <= Len(script)
    /\ script[pos].Type = "AddPointer" => fields[script[pos].pointer] \in SeenPointers
    /\ pos' = pos + 1
    /\ UNCHANGED <<pc, Status, held, firstPass, secondPass, s3State, S3Enabled>>

\* Mutant: a file with something else than tables is not marked.
LookUnmarked(t, c) ==
    /\ content' = Extend(content, t, c)
    /\ \/ c # "Table" /\ UNCHANGED <<Installed, acpi>>
       \/ /\ c = "Table"
          /\ Installed < INSTALLED_TABLES_MAX
          /\ Installed' = Installed + 1
          /\ acpi' = Extend(acpi, Installed', t)
    /\ UNCHANGED Tracker

\* The bytes at address t are c: only a table other than RSDT and XSDT is
\* installed, and only what is no table makes its file opaque.
Look(t, c) ==
    /\ content' = Extend(content, t, c)
    /\ \/ /\ c = "RootTable"
          /\ UNCHANGED <<Tracker, Installed, acpi>>
       \/ /\ c = "Opaque"
          /\ Tracker' = [Tracker EXCEPT ![t[1]] = FALSE]
          /\ UNCHANGED <<Installed, acpi>>
       \/ /\ c = "Table"
          /\ Installed < INSTALLED_TABLES_MAX
          /\ Installed' = Installed + 1
          /\ acpi' = Extend(acpi, Installed', t)
          /\ UNCHANGED Tracker

Process2ndPassCmdAddPointer ==
    /\ pc = "SecondPass"
    /\ pos <= Len(script)
    /\ script[pos].Type = "AddPointer"
    /\ LET t == fields[script[pos].pointer]
       IN  /\ t \notin SeenPointers
           /\ SeenPointers' = SeenPointers \cup {t}
           /\ \E c \in Contents : Look(t, c)
    /\ pos' = pos + 1
    /\ UNCHANGED <<pc, Status, held, script, mem, fields, host, WritePointerSubsetEnd, s3>>
    /\ UNCHANGED <<s3State, S3Enabled>>

\* No memory to remember the address, no room for one more table, or
\* InstallAcpiTable fails; the address is forgotten again.
Process2ndPassFails ==
    /\ pc = "SecondPass"
    /\ pos <= Len(script)
    /\ script[pos].Type = "AddPointer"
    /\ fields[script[pos].pointer] \notin SeenPointers
    /\ Status' = "Error"
    /\ pc' = "UninstallAcpiTables"
    /\ UNCHANGED <<pos, held, firstPass, secondPass, s3State, S3Enabled>>

SecondPassDone ==
    /\ pc = "SecondPass"
    /\ pos > Len(script)
    /\ pc' = IF S3Context THEN "TransferS3ContextToBootScript" ELSE "UninstallAcpiTables"
    /\ UNCHANGED <<Status, pos, held, firstPass, secondPass, s3State, S3Enabled>>

-----------------------------------------------------------------------------
(* Handing the S3 context to the boot script callback.                     *)

\* Nothing to tell QEMU again: the context is released at once.
TransferEmptyContext ==
    /\ pc = "TransferS3ContextToBootScript"
    /\ s3 = <<>>
    /\ held' = held \ {"S3Context"}
    /\ S3Context' = FALSE
    /\ pc' = "UninstallAcpiTables"
    /\ UNCHANGED <<Status, pos, firstPass, secondPass, queued, bootScript, S3Enabled>>

\* fw_cfg DMA and the reserved buffer.
ReserveDmaAccess ==
    /\ s3 # <<>>
    /\ Acquire("TransferS3ContextToBootScript", "DmaAccess", "CreateEvent",
               "UninstallAcpiTables")

CreateEvent ==
    Acquire("CreateEvent", "S3SaveStateInstalledEvent", "RegisterProtocolNotify",
            "FreeDmaAccess")

RegisterProtocolNotify ==
    /\ pc = "RegisterProtocolNotify"
    /\ \/ pc' = "SignalEvent" /\ UNCHANGED Status
       \/ pc' = "CloseEvent" /\ Status' = "Error"
    /\ UNCHANGED <<pos, held, firstPass, secondPass, s3State, S3Enabled>>

\* Once the event is signalled the callback owns the context and may run.
SignalEvent ==
    /\ pc = "SignalEvent"
    /\ \/ /\ pc' = "UninstallAcpiTables"
          /\ queued' = TRUE /\ S3Context' = FALSE
          /\ UNCHANGED Status
       \/ /\ pc' = "CloseEvent" /\ Status' = "Error"
          /\ UNCHANGED <<queued, S3Context>>
    /\ UNCHANGED <<pos, held, firstPass, secondPass, bootScript, S3Enabled>>

Release(at, object, next) ==
    /\ pc = at
    /\ held' = held \ {object}
    /\ pc' = next
    /\ UNCHANGED <<Status, pos, firstPass, secondPass, s3State, S3Enabled>>

CloseEvent == Release("CloseEvent", "S3SaveStateInstalledEvent", "FreeDmaAccess")

FreeDmaAccess == Release("FreeDmaAccess", "DmaAccess", "UninstallAcpiTables")

-----------------------------------------------------------------------------
(* The labels at the end of InstallQemuFwCfgTables.  The last table        *)
(* installed goes first; addresses are revoked before the files they are   *)
(* in are freed.                                                           *)

UninstallAcpiTable ==
    /\ pc = "UninstallAcpiTables"
    /\ Status = "Error"
    /\ Installed > 0
    /\ Installed' = Installed - 1
    /\ acpi' = Restrict(acpi, DOMAIN acpi \ {Installed})
    /\ UNCHANGED <<pc, Status, pos, held, firstPass, SeenPointers, content, s3State, S3Enabled>>

\* Mutant: the first table stays.
AllButOneUninstalled == Status = "Success" \/ Installed <= 1

\* The end of the loop.
AllUninstalled == Status = "Success" \/ Installed = 0

FreeSeenPointers ==
    /\ AllUninstalled
    /\ Release("UninstallAcpiTables", "SeenPointers", "FreeKeys")

FreeKeys == Release("FreeKeys", "InstalledKey", "RollbackWritePointersAndFreeTracker")

RollbackWritePointersAndFreeTracker ==
    /\ pc = "RollbackWritePointersAndFreeTracker"
    /\ \/ Status = "Error" /\ pos' = WritePointerSubsetEnd /\ pc' = "UndoWritePointers"
       \/ Status = "Success" /\ pc' = "FreeTracker" /\ UNCHANGED pos
    /\ UNCHANGED <<Status, held, firstPass, secondPass, s3State, S3Enabled>>

UndoCmdWritePointer ==
    /\ pc = "UndoWritePointers"
    /\ \/ /\ pos > 0
          /\ pos' = pos - 1
          /\ host' = IF script[pos].Type = "WritePointer"
                     THEN [host EXCEPT ![script[pos].slot] = NoTarget] ELSE host
          /\ UNCHANGED pc
       \/ /\ pos = 0
          /\ pc' = "FreeTracker"
          /\ UNCHANGED <<pos, host>>
    /\ UNCHANGED <<Status, held, script, Tracker, mem, fields, WritePointerSubsetEnd, s3>>
    /\ UNCHANGED <<secondPass, s3State, S3Enabled>>

FreeBlob(f) ==
    /\ pc = "FreeTracker"
    /\ f \in DOMAIN Tracker
    /\ Tracker' = Restrict(Tracker, DOMAIN Tracker \ {f})
    /\ mem' = IF Status = "Error" \/ Tracker[f] THEN mem \ {f} ELSE mem
    /\ UNCHANGED <<pc, Status, pos, held, script, fields, host, WritePointerSubsetEnd, s3>>
    /\ UNCHANGED <<secondPass, s3State, S3Enabled>>

FreeTracker ==
    /\ DOMAIN Tracker = {}
    /\ Release("FreeTracker", "Tracker", "FreeS3Context")

FreeS3Context ==
    /\ pc = "FreeS3Context"
    /\ held' = IF S3Context THEN held \ {"S3Context"} ELSE held
    /\ S3Context' = FALSE
    /\ pc' = "FreeAllocationsRestrictedTo32Bit"
    /\ UNCHANGED <<Status, pos, firstPass, secondPass, queued, bootScript, S3Enabled>>

FreeAllocationsRestrictedTo32Bit ==
    Release("FreeAllocationsRestrictedTo32Bit", "AllocationsRestrictedTo32Bit", "FreeLoader")

FreeLoader == Release("FreeLoader", "Loader", "Returned")

-----------------------------------------------------------------------------
(* The boot script.                                                        *)

\* QemuFwCfgS3ScriptSkipBytes selects the item and the offset.
SkipBytes(w) == [op |-> "Skip", slot |-> w.slot]

\* The opcode of QemuFwCfgS3ScriptWriteBytes carries the scratch buffer as it is then.
WriteBytes(w) == [op |-> "Write", value |-> w.value]

\* Two opcodes for each pointer of the context.
OpcodesOf(ws) ==
    [k \in 1 .. 2 * Len(ws) |-> IF k % 2 = 1 THEN SkipBytes(ws[(k + 1) \div 2])
                                             ELSE WriteBytes(ws[k \div 2])]

\* The callback releases the context, then the event is closed.
AppendFwCfgBootScript ==
    /\ queued
    /\ pc # "DeadLoop"
    /\ bootScript' = bootScript \o OpcodesOf(s3)
    /\ held' = held \ {"S3Context", "S3SaveStateInstalledEvent"}
    /\ queued' = FALSE
    /\ UNCHANGED <<pc, Status, pos, firstPass, secondPass, S3Context, S3Enabled>>

\* The S3SaveState protocol refuses an opcode: the firmware stops.
AppendFatalError ==
    /\ queued
    /\ pc' = "DeadLoop"
    /\ UNCHANGED <<Status, pos, held, firstPass, secondPass, s3State, S3Enabled>>

\* QEMU forgets its pointers at a reset; the boot script writes them again, each
\* where the opcode before it says.  The last write stays.
WritesTo(ops, slot) ==
    {k \in 1 .. Len(ops) :
        /\ ops[k].op = "Write"
        /\ \E j \in 1 .. k - 1 : /\ ops[j].op = "Skip" /\ ops[j].slot = slot
                                 /\ \A i \in j + 1 .. k - 1 : ops[i].op # "Skip"}

Replay(ops) ==
    [slot \in Slots |-> IF WritesTo(ops, slot) = {} THEN NoTarget
                        ELSE ops[Max(WritesTo(ops, slot))].value]

S3Resume ==
    /\ S3Enabled
    /\ pc = "Returned"
    /\ ~queued
    /\ host' = Replay(bootScript)
    /\ UNCHANGED <<pc, Status, pos, held, script, Tracker, mem, fields, WritePointerSubsetEnd>>
    /\ UNCHANGED <<s3, secondPass, s3State, S3Enabled>>

-----------------------------------------------------------------------------
FirstPass ==
    \/ \E f \in Files : ProcessCmdAllocate(f)
    \/ \E p \in Locations, t \in Locations : ProcessCmdAddPointer(p, t)
    \/ ProcessCmdAddChecksum
    \/ \E slot \in Slots, t \in Locations : ProcessCmdWritePointer(slot, t)
    \/ UnknownCommand
    \/ CommandFails \/ FirstPassDone

SecondPass ==
    SkipCommand \/ Process2ndPassCmdAddPointer \/ Process2ndPassFails \/ SecondPassDone

Transfer ==
    \/ TransferEmptyContext \/ ReserveDmaAccess \/ CreateEvent \/ RegisterProtocolNotify
    \/ SignalEvent \/ CloseEvent \/ FreeDmaAccess

CleanUp ==
    \/ UninstallAcpiTable \/ FreeSeenPointers \/ FreeKeys
    \/ RollbackWritePointersAndFreeTracker \/ UndoCmdWritePointer
    \/ (\E f \in Files : FreeBlob(f)) \/ FreeTracker
    \/ FreeS3Context \/ FreeAllocationsRestrictedTo32Bit \/ FreeLoader

InstallQemuFwCfgTables ==
    \/ AllocateLoader \/ CollectAllocationsRestrictedTo32Bit \/ AllocateS3Context \/ InitTracker
    \/ FirstPass \/ AllocateKeys \/ InitSeenPointers \/ SecondPass \/ Transfer \/ CleanUp

Next == InstallQemuFwCfgTables \/ AppendFwCfgBootScript \/ AppendFatalError \/ S3Resume

Spec == Init /\ [][Next]_vars

-----------------------------------------------------------------------------
(* Properties.                                                             *)

\* Every address QEMU holds, or will be told by the boot script or by the
\* callback that writes it, is in memory that is allocated: addresses are
\* revoked before the files are freed, and a file whose address QEMU keeps is
\* never freed.
HostPointersValid ==
    /\ \A slot \in Slots : host[slot] # NoTarget => host[slot][1] \in mem
    /\ queued => \A w \in Range(s3) : w.value[1] \in mem
    /\ \A o \in Range(bootScript) : o.op = "Write" => o.value[1] \in mem

\* What the boot script callback owns exists until it has run, also while
\* InstallQemuFwCfgTables cleans up.  When that returns, nothing else is held.
\* After an error it leaves nothing: no memory, no table, no address in QEMU,
\* no callback.  After a success S3 resume tells QEMU exactly what it knows.
AllOrNothing ==
    /\ queued => {"S3Context", "DmaAccess", "S3SaveStateInstalledEvent"} \subseteq held
    /\ pc = "Returned" =>
        /\ held \subseteq {"DmaAccess"} \cup
               IF queued THEN {"S3Context", "S3SaveStateInstalledEvent"} ELSE {}
        /\ Status = "Error" =>
            /\ held = {} /\ mem = {} /\ DOMAIN acpi = {}
            /\ \A slot \in Slots : host[slot] = NoTarget
            /\ ~queued /\ bootScript = <<>>
        /\ Status = "Success" /\ S3Enabled =>
            host = Replay(IF queued THEN bootScript \o OpcodesOf(s3) ELSE bootScript)

\* After a success every pointer the script relocated leads to a table the ACPI
\* protocol has a copy of, to RSDT or XSDT, which the protocol replaces, or to
\* memory that is still allocated.  No table is installed twice, and a file is
\* kept only if QEMU was given its address or something in it is no table.
PointersResolved ==
    pc = "Returned" /\ Status = "Success" =>
        /\ \A p \in DOMAIN fields :
              LET t == fields[p]
              IN  t[1] \in mem \/ t \in Range(acpi) \/ content[t] = "RootTable"
        /\ IsInjective(acpi)
        /\ \A f \in mem :
              \/ \E i \in 1..Len(script) :
                    script[i].Type = "WritePointer" /\ script[i].target[1] = f
              \/ \E t \in DOMAIN content : t[1] = f /\ content[t] = "Opaque"
=============================================================================
