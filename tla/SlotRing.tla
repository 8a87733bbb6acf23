------------------------------ MODULE SlotRing ------------------------------
(***************************************************************************)
(* The single-producer single-consumer ring of shm_ring.cpp.  Every slot   *)
(* carries a sequence number that says whose turn it is: p when position p *)
(* may be written, p + 1 when position p may be read.  One step of the     *)
(* model is one access of the code to memory both processes see: the       *)
(* sequence, the size field, the payload bytes.                            *)
(*                                                                         *)
(* write_position and read_position are stored right after the sequence    *)
(* and read back only by the side that stores them, so each store is part  *)
(* of the step that hands the slot over.  The sequence is stored with      *)
(* release and loaded with acquire order, so what is written before the    *)
(* hand-over is visible after it; NoOverlap is the absence of data races   *)
(* that makes the interleaving of whole steps an adequate picture.         *)
(***************************************************************************)
EXTENDS Integers, Sequences

CONSTANTS Slots,         \* slots of the ring
          PayloadBytes,  \* negotiated payload of one slot
          Bodies,        \* what the payload bytes of a message can be
          MaxMessages    \* bound: messages pushed in one behaviour

\* memory_size throws for less than two slots or an empty payload.
ASSUME SlotsAssumption == Slots \in Nat /\ Slots >= 2
ASSUME PayloadAssumption == PayloadBytes \in Nat \ {0}
ASSUME BoundAssumption == MaxMessages \in Nat

Index == 0 .. Slots - 1
Message == [size : 1 .. PayloadBytes, body : Bodies]
\* What the caller may hand to try_push: also a message that is too large.
Offered == [size : 1 .. PayloadBytes + 1, body : Bodies]

VARIABLES
    sequence,        \* Slot::sequence of every slot
    size,            \* Slot::size of every slot
    body,            \* payload bytes of every slot
    write_position,
    read_position,
    wpc, message,    \* producer: progress of try_push, and its argument
    rpc, rsize, rbody, \* consumer: progress of try_pop, and what it has copied
    push_result, pop_result,
    pushed, popped   \* histories: messages handed over, messages delivered

slotVars == <<sequence, size, body>>
producerVars == <<write_position, wpc, message, push_result, pushed>>
consumerVars == <<read_position, rpc, rsize, rbody, pop_result, popped>>
vars == <<slotVars, producerVars, consumerVars>>

\* The slot of a position.
Slot(position) == position % Slots

\* initialize: slot i is writable at position i, both positions are 0.  What
\* the payload bytes hold at the start is whatever the mapping holds.
Init ==
    /\ sequence = [i \in Index |-> i]
    /\ size = [i \in Index |-> 0]
    /\ body \in [Index -> Bodies]
    /\ write_position = 0 /\ read_position = 0
    /\ wpc = "idle" /\ message \in Message
    /\ rpc = "idle" /\ rsize = 0 /\ rbody \in Bodies
    /\ push_result = "none" /\ pop_result = "none"
    /\ pushed = <<>> /\ popped = <<>>
-----------------------------------------------------------------------------
\* Mutant of writable: one slot is always kept free.
OneSlotKept == write_position + 1 < read_position + Slots

writable == sequence[Slot(write_position)] = write_position
readable == sequence[Slot(read_position)] = read_position + 1

\* try_push throws std::length_error before it looks at the ring.
PushOversize(m) ==
    /\ wpc = "idle" /\ Len(pushed) < MaxMessages
    /\ m.size > PayloadBytes
    /\ push_result' = "length_error"
    /\ UNCHANGED <<slotVars, write_position, wpc, message, pushed, consumerVars>>

\* The slot is not free: try_push returns false and has changed nothing.
PushFull(m) ==
    /\ wpc = "idle" /\ Len(pushed) < MaxMessages
    /\ m.size <= PayloadBytes
    /\ ~writable
    /\ push_result' = "full"
    /\ UNCHANGED <<slotVars, write_position, wpc, message, pushed, consumerVars>>

\* Mutant of PushClaim: no length check.
ClaimAnySize(m) ==
    /\ wpc = "idle" /\ Len(pushed) < MaxMessages /\ writable
    /\ wpc' = "claimed" /\ message' = m
    /\ UNCHANGED <<slotVars, write_position, push_result, pushed, consumerVars>>

\* Mutant of PushClaim: the sequence of the slot is not looked at.
ClaimBlindly(m) ==
    /\ wpc = "idle" /\ Len(pushed) < MaxMessages /\ m.size <= PayloadBytes
    /\ wpc' = "claimed" /\ message' = m
    /\ UNCHANGED <<slotVars, write_position, push_result, pushed, consumerVars>>

PushClaim(m) ==
    /\ wpc = "idle" /\ Len(pushed) < MaxMessages
    /\ m.size <= PayloadBytes
    /\ writable
    /\ wpc' = "claimed" /\ message' = m
    /\ UNCHANGED <<slotVars, write_position, push_result, pushed, consumerVars>>

WriteSize ==
    /\ wpc = "claimed"
    /\ size' = [size EXCEPT ![Slot(write_position)] = message.size]
    /\ wpc' = "sized"
    /\ UNCHANGED <<sequence, body, write_position, message, push_result, pushed,
                   consumerVars>>

WriteBody ==
    /\ wpc = "sized"
    /\ body' = [body EXCEPT ![Slot(write_position)] = message.body]
    /\ wpc' = "copied"
    /\ UNCHANGED <<sequence, size, write_position, message, push_result, pushed,
                   consumerVars>>

\* Mutant of Publish: the slot is handed over before its bytes are copied.
PublishEarly ==
    /\ wpc = "sized"
    /\ sequence' = [sequence EXCEPT ![Slot(write_position)] = write_position + 1]
    /\ write_position' = write_position + 1
    /\ wpc' = "idle" /\ push_result' = "pushed"
    /\ pushed' = Append(pushed, message)
    /\ UNCHANGED <<size, body, message, consumerVars>>

Publish ==
    /\ wpc = "copied"
    /\ sequence' = [sequence EXCEPT ![Slot(write_position)] = write_position + 1]
    /\ write_position' = write_position + 1
    /\ wpc' = "idle" /\ push_result' = "pushed"
    /\ pushed' = Append(pushed, message)
    /\ UNCHANGED <<size, body, message, consumerVars>>
-----------------------------------------------------------------------------
\* Nothing to read at this position: try_pop returns false.
PopEmpty ==
    /\ rpc = "idle"
    /\ ~readable
    /\ pop_result' = "empty"
    /\ UNCHANGED <<slotVars, producerVars, read_position, rpc, rsize, rbody, popped>>

PopClaim ==
    /\ rpc = "idle"
    /\ readable
    /\ rpc' = "claimed"
    /\ UNCHANGED <<slotVars, producerVars, read_position, rsize, rbody, pop_result, popped>>

\* A size above the negotiated payload makes try_pop throw, the slot unread.
ReadSize ==
    /\ rpc = "claimed"
    /\ LET found == size[Slot(read_position)]
       IN  IF found > PayloadBytes
           THEN rpc' = "idle" /\ pop_result' = "invalid_size" /\ UNCHANGED rsize
           ELSE rpc' = "sized" /\ rsize' = found /\ UNCHANGED pop_result
    /\ UNCHANGED <<slotVars, producerVars, read_position, rbody, popped>>

ReadBody ==
    /\ rpc = "sized"
    /\ rbody' = body[Slot(read_position)]
    /\ rpc' = "copied"
    /\ UNCHANGED <<slotVars, producerVars, read_position, rsize, pop_result, popped>>

\* Mutant of Release: the slot gets the sequence of the next position instead
\* of that of the next lap.
ReleaseThisLap ==
    /\ rpc = "copied"
    /\ sequence' = [sequence EXCEPT ![Slot(read_position)] = read_position + 1]
    /\ read_position' = read_position + 1
    /\ rpc' = "idle" /\ pop_result' = "popped"
    /\ popped' = Append(popped, [size |-> rsize, body |-> rbody])
    /\ UNCHANGED <<size, body, producerVars, rsize, rbody>>

Release ==
    /\ rpc = "copied"
    /\ sequence' = [sequence EXCEPT ![Slot(read_position)] = read_position + Slots]
    /\ read_position' = read_position + 1
    /\ rpc' = "idle" /\ pop_result' = "popped"
    /\ popped' = Append(popped, [size |-> rsize, body |-> rbody])
    /\ UNCHANGED <<size, body, producerVars, rsize, rbody>>
-----------------------------------------------------------------------------
Producer ==
    \/ \E m \in Offered : PushOversize(m) \/ PushFull(m) \/ PushClaim(m)
    \/ WriteSize
    \/ WriteBody
    \/ Publish

Consumer ==
    \/ PopEmpty
    \/ PopClaim
    \/ ReadSize
    \/ ReadBody
    \/ Release

Next == Producer \/ Consumer

Spec == Init /\ [][Next]_vars
-----------------------------------------------------------------------------
PushResults == {"none", "length_error", "full", "pushed"}
PopResults == {"none", "empty", "popped"}

\* The values the variables range over; "invalid_size" is not among the
\* results of a pop: the consumer never meets a size its producer was not
\* allowed to write.
TypeOK ==
    /\ sequence \in [Index -> Nat]
    /\ size \in [Index -> 0 .. PayloadBytes]
    /\ body \in [Index -> Bodies]
    /\ write_position \in Nat /\ read_position \in Nat
    /\ wpc \in {"idle", "claimed", "sized", "copied"}
    /\ message \in Message
    /\ rpc \in {"idle", "claimed", "sized", "copied"}
    /\ rsize \in 0 .. PayloadBytes
    /\ rbody \in Bodies
    /\ push_result \in PushResults /\ pop_result \in PopResults
    /\ pushed \in Seq(Message)
    /\ popped \in Seq([size : 0 .. PayloadBytes, body : Bodies])

\* Both processes never touch the plain (non-atomic) bytes of one slot at the
\* same time: while the producer fills a slot the consumer is not copying out
\* of it.  This is the data-race freedom the acquire/release pairs rely on.
NoOverlap ==
    ~ /\ wpc # "idle" /\ rpc # "idle"
      /\ Slot(write_position) = Slot(read_position)

\* Messages come out whole, once each, in the order they went in: no torn
\* message mixes the size of one push with the bytes of another, none is
\* overwritten before it is read, none is read twice.
DeliveredInOrder ==
    /\ Len(popped) <= Len(pushed)
    /\ \A i \in 1 .. Len(popped) : popped[i] = pushed[i]

\* The messages in the ring, read off the slots themselves.
InFlight ==
    [i \in 1 .. write_position - read_position |->
        [size |-> size[Slot(read_position + i - 1)],
         body |-> body[Slot(read_position + i - 1)]]]

Fifo == INSTANCE BoundedFifo WITH Capacity <- Slots, queue <- InFlight

\* Every call of try_push and try_pop is one atomic operation of a FIFO of
\* Slots messages; "full" and "empty" are reported only when they are true.
ImplementsFifo == Fifo!Spec
-----------------------------------------------------------------------------
\* The positions count the hand-overs, and the producer is at most one lap
\* ahead of the consumer.
PositionsOK ==
    /\ write_position = Len(pushed) /\ read_position = Len(popped)
    /\ read_position <= write_position
    /\ write_position <= read_position + Slots

\* A position between the two holds its message, complete.
Holds(p) ==
    /\ sequence[Slot(p)] = p + 1
    /\ size[Slot(p)] = pushed[p + 1].size
    /\ body[Slot(p)] = pushed[p + 1].body

\* The sequence numbers tell unread slots from free ones.
SequencesOK ==
    /\ \A p \in read_position .. write_position - 1 : Holds(p)
    /\ \A p \in write_position .. read_position + Slots - 1 : sequence[Slot(p)] = p

\* A producer inside try_push owns a free slot and has filled it up to wpc.
ProducerOK ==
    /\ wpc # "idle" => write_position < read_position + Slots
    /\ wpc \in {"sized", "copied"} => size[Slot(write_position)] = message.size
    /\ wpc = "copied" => body[Slot(write_position)] = message.body

\* A consumer inside try_pop owns an unread slot and has copied it up to rpc.
ConsumerOK ==
    /\ rpc # "idle" => read_position < write_position
    /\ rpc \in {"sized", "copied"} => rsize = pushed[read_position + 1].size
    /\ rpc = "copied" => rbody = pushed[read_position + 1].body

\* What every step of either process preserves: positions, sequence numbers,
\* slot contents and local copies of shm_ring.cpp agree with what was pushed.
RingInv ==
    /\ TypeOK
    /\ PositionsOK
    /\ SequencesOK
    /\ ProducerOK
    /\ ConsumerOK
    /\ DeliveredInOrder
=============================================================================
