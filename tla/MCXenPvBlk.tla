----------------------------- MODULE MCXenPvBlk ------------------------------
(* Instances of XenPvBlk for TLC. *)
EXTENDS XenPvBlk
=============================================================================
