-------------------------- MODULE MCHarborSession --------------------------
(***************************************************************************)
(* Two solver ranks and a worker that waits for two, with every choice of  *)
(* address, planes, ranks and identities.                                  *)
(***************************************************************************)
EXTENDS HarborSession
CONSTANTS c1, c2
MCClients == {c1, c2}
MCSessions == {1, 2}
=============================================================================
