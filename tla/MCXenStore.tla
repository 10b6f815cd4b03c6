----------------------------- MODULE MCXenStore ------------------------------
(* Instances of XenStore for TLC. *)
EXTENDS XenStore
=============================================================================
