----------------------------- MODULE MCLongship -----------------------------
(***************************************************************************)
(* A launch with two readiness files: the fewest that can be announced in  *)
(* part, be left over in part, and be withdrawn during a scan.             *)
(***************************************************************************)
EXTENDS Longship
=============================================================================
