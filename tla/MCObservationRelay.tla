-------------------------- MODULE MCObservationRelay --------------------------
(***************************************************************************)
(* Instances of ObservationRelay: one rank that writes a file, one that    *)
(* publishes, and two that publish to one stream and drop the oldest.      *)
(***************************************************************************)
EXTENDS ObservationRelay

CONSTANTS Alone, Together  \* bound: records and stops, of one rank and of two

DecisionsOf == <<Alone, Together>>
Sizes == <<1, 1, 2, 3>>

Begin ==
    /\ Init /\ kind["rank0"] # "off"
    /\ \/ Cardinality(Observed) = 1
       \/ Observed = Streams /\ policy = "drop_oldest"
MCSpec == Begin /\ [][Next]_vars
=============================================================================
