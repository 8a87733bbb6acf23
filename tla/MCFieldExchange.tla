-------------------------- MODULE MCFieldExchange --------------------------
(***************************************************************************)
(* A small instance of FieldExchange.  The calls are the only thing that   *)
(* is bounded; no rank has to call, so that what is fair stays fair.       *)
(***************************************************************************)
EXTENDS FieldExchange

CONSTANTS MaxCalls,   \* bound: calls of a rank while no other calls
          MaxBeside,  \* bound: calls of that rank beside another one's
          MaxOther    \* bound: calls of the other ranks

\* Ranks are interchangeable: it is always the same one that calls more often.
Busy == CHOOSE r \in Ranks : TRUE
Alone == \A q \in Ranks \ {Busy} : call[q] = 0

WithinBound(r) ==
    IF r = Busy THEN call[r] < (IF Alone THEN MaxCalls ELSE MaxBeside)
    ELSE call[r] < MaxOther /\ call[Busy] <= MaxBeside

MCNext ==
    \E r \in Ranks : (WithinBound(r) /\ Call(r)) \/ Solver(r) \/ Leave(r) \/ Crash(r) \/ Runner(r)

MCSpec == Init /\ [][MCNext]_vars /\ Fairness
=============================================================================
