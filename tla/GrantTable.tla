----------------------------- MODULE GrantTable -----------------------------
(***************************************************************************)
(* The grant table of XenBusDxe (GrantTable.c): references are handed out  *)
(* from a free list threaded through GrantList[], with its head in         *)
(* GrantList[0].  An entry records the frame, and whether the other domain *)
(* has it mapped (GTF_reading, GTF_writing).                               *)
(***************************************************************************)
EXTENDS Integers

CONSTANTS NR_RESERVED_ENTRIES, NR_GRANT_ENTRIES

ASSUME GrantAssumption ==
    /\ NR_RESERVED_ENTRIES \in Nat \ {0} /\ NR_GRANT_ENTRIES \in Nat
    /\ NR_RESERVED_ENTRIES < NR_GRANT_ENTRIES

Refs   == NR_RESERVED_ENTRIES .. NR_GRANT_ENTRIES - 1
NoFrame == -1
Unused == [frame |-> NoFrame, permit |-> FALSE, mapped |-> FALSE]

\* grants: [list |-> GrantList, entry |-> GrantTable].
EmptyGrants ==
    [list  |-> [i \in 0 .. NR_GRANT_ENTRIES - 1 |-> 0],
     entry |-> [ref \in Refs |-> Unused]]

XenGrantTablePutFreeEntry(grants, ref) ==
    [grants EXCEPT !.list[ref] = grants.list[0], !.list[0] = ref]

\* Every entry is put on the list, whatever the list holds already.
XenGrantTableInit(grants) ==
    [grants EXCEPT !.list = [i \in DOMAIN @ |->
                                CASE i = 0 -> NR_GRANT_ENTRIES - 1
                                  [] i = NR_RESERVED_ENTRIES -> @[0]
                                  [] i > NR_RESERVED_ENTRIES -> i - 1
                                  [] OTHER -> @[i]]]

NextFree(grants) == grants.list[0]

XenGrantTableGrantAccess(grants, frame) ==
    LET ref == NextFree(grants)
    IN  [list  |-> [grants.list EXCEPT ![0] = grants.list[ref]],
         entry |-> [grants.entry EXCEPT ![ref] =
                       [frame |-> frame, permit |-> TRUE, mapped |-> FALSE]]]

\* An entry in use stays as it is, and is not put on the list (EFI_NOT_READY).
XenGrantTableEndAccess(grants, ref) ==
    IF grants.entry[ref].mapped
    THEN grants
    ELSE XenGrantTablePutFreeEntry([grants EXCEPT !.entry[ref] = Unused], ref)

\* The first n entries of the free list.
FreeEntries(grants, n) ==
    LET nth[k \in 1 .. n] == IF k = 1 THEN grants.list[0] ELSE grants.list[nth[k - 1]]
    IN  {nth[k] : k \in 1 .. n}
=============================================================================
