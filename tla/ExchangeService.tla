-------------------------- MODULE ExchangeService --------------------------
(***************************************************************************)
(* What a field exchange promises the solver that calls it.  An exchange   *)
(* is known by the number of the call.  The model answers a call at most   *)
(* once and none that was not made; a call either returns, with all output *)
(* fields replaced from the answer to this very call, or throws and leaves *)
(* them alone, at any moment before.  Only a caller that dies while a call *)
(* returns leaves part of its fields replaced.                             *)
(***************************************************************************)
EXTENDS Naturals

CONSTANTS Ranks,   \* solver ranks
          Outputs  \* fields the model replaces

VARIABLES caller,   \* "idle", "asking" or "gone"
          asked,    \* number of the last call
          answered, \* the last exchange the model has answered, or 0
          fields    \* the exchange each output field comes from

serviceVars == <<caller, asked, answered, fields>>

Init ==
    /\ caller = [r \in Ranks |-> "idle"]
    /\ asked = [r \in Ranks |-> 0] /\ answered = [r \in Ranks |-> 0]
    /\ fields = [r \in Ranks |-> [o \in Outputs |-> 0]]

\* A call may be refused at once.
Ask(r) ==
    /\ caller[r] = "idle"
    /\ asked' = [asked EXCEPT ![r] = @ + 1]
    /\ caller' \in {caller, [caller EXCEPT ![r] = "asking"]}
    /\ UNCHANGED <<answered, fields>>

\* Also when the caller has given up.
Answer(r) ==
    /\ \E n \in answered[r] + 1..asked[r] : answered' = [answered EXCEPT ![r] = n]
    /\ UNCHANGED <<caller, asked, fields>>

Return(r) ==
    /\ caller[r] = "asking" /\ answered[r] = asked[r]
    /\ fields' = [fields EXCEPT ![r] = [o \in Outputs |-> asked[r]]]
    /\ caller' = [caller EXCEPT ![r] = "idle"]
    /\ UNCHANGED <<asked, answered>>

Throw(r) ==
    /\ caller[r] = "asking"
    /\ caller' = [caller EXCEPT ![r] = "idle"]
    /\ UNCHANGED <<asked, answered, fields>>

End(r) ==
    /\ caller[r] # "gone"
    /\ caller' = [caller EXCEPT ![r] = "gone"]
    /\ \/ UNCHANGED fields
       \/ /\ caller[r] = "asking" /\ answered[r] = asked[r]
          /\ \E kept \in SUBSET Outputs :
                fields' = [fields EXCEPT ![r] = [o \in Outputs |-> IF o \in kept THEN @[o] ELSE asked[r]]]
    /\ UNCHANGED <<asked, answered>>

Next == \E r \in Ranks : Ask(r) \/ Answer(r) \/ Return(r) \/ Throw(r) \/ End(r)

Spec == Init /\ [][Next]_serviceVars
=============================================================================
