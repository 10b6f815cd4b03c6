----------------------------- MODULE MCVirtioNet -----------------------------
(* Instances of VirtioNet for TLC. *)
EXTENDS VirtioNet, TLC

\* The caller does not tell its buffers apart, nor does the driver their addresses.
BufferSymmetry == Permutations(Buffers) \cup Permutations(Bounce)
=============================================================================
