---------------------------- MODULE BoundedFifo ----------------------------
(***************************************************************************)
(* What one direction of a shared-memory Fjord promises its two ends: a    *)
(* FIFO of at most Capacity messages.  A push either appends its message   *)
(* or reports "full" when the queue really holds Capacity messages; a pop  *)
(* either takes the oldest message or reports "empty" when there is none.  *)
(* Each call takes effect in a single step.                                *)
(***************************************************************************)
EXTENDS Naturals, Sequences

CONSTANTS Capacity,   \* the number of messages the queue holds
          Message     \* the messages that can be pushed

VARIABLES queue,        \* pushed and not yet popped, the oldest first
          popped,       \* every message popped so far, in order
          push_result,  \* how the last push ended
          pop_result    \* how the last pop ended

fifoVars == <<queue, popped, push_result, pop_result>>

Init ==
    /\ queue = <<>>
    /\ popped = <<>>
    /\ push_result = "none"
    /\ pop_result = "none"

Push(m) ==
    /\ Len(queue) < Capacity
    /\ queue' = Append(queue, m)
    /\ push_result' = "pushed"
    /\ UNCHANGED <<popped, pop_result>>

\* The message is larger than the payload both ends agreed on.
PushRejected ==
    /\ push_result' = "length_error"
    /\ UNCHANGED <<queue, popped, pop_result>>

PushFull ==
    /\ Len(queue) = Capacity
    /\ push_result' = "full"
    /\ UNCHANGED <<queue, popped, pop_result>>

Pop ==
    /\ queue # <<>>
    /\ queue' = Tail(queue)
    /\ popped' = Append(popped, Head(queue))
    /\ pop_result' = "popped"
    /\ UNCHANGED push_result

PopEmpty ==
    /\ queue = <<>>
    /\ pop_result' = "empty"
    /\ UNCHANGED <<queue, popped, push_result>>

Next ==
    \/ \E m \in Message : Push(m)
    \/ PushRejected
    \/ PushFull
    \/ Pop
    \/ PopEmpty

Spec == Init /\ [][Next]_fifoVars
=============================================================================
