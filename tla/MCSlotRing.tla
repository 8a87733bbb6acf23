----------------------------- MODULE MCSlotRing -----------------------------
(***************************************************************************)
(* Two slots, two payload sizes and two bodies, so that a torn message is  *)
(* distinguishable, and enough messages to lap the ring more than once.    *)
(***************************************************************************)
EXTENDS SlotRing
=============================================================================
