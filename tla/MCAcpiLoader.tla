---------------------------- MODULE MCAcpiLoader ----------------------------
(* Instances of AcpiLoader for TLC.  Files, offsets and slots are never    *)
(* compared other than for equality.                                       *)
EXTENDS AcpiLoader

Symmetry == Permutations(Files) \cup Permutations(Offsets) \cup Permutations(Slots)
=============================================================================
