---------------------------- MODULE MCCpuHotplug ----------------------------
(* Instances of CpuHotplug for TLC. *)
EXTENDS CpuHotplug

\* APIC IDs are neither contiguous nor equal to the selectors.
MCArchId == [c \in Cpus |-> 3 + 2 * c]

MCNoHighSlots == {}

\* The last slot's SMBASE lies above 4 GB.
MCHighSlots == {PossibleCpuCount - 1}
=============================================================================
