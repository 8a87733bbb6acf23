---------------------------- MODULE MCShmChannel ----------------------------
(***************************************************************************)
(* Instances of ShmChannel: a ring of two slots and enough chunks that     *)
(* both ends block.  The cfg files choose the memory order, who waits with *)
(* a timeout and whether the channel may be interrupted.                   *)
(***************************************************************************)
EXTENDS ShmChannel

NoEnd == {}
ReaderOnly == {"reader"}
=============================================================================
