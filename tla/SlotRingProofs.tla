--------------------------- MODULE SlotRingProofs ---------------------------
(***************************************************************************)
(* Proofs about the slot ring, for every number of slots from two up,      *)
(* every payload and every number of messages.                             *)
(***************************************************************************)
EXTENDS SlotRing, SequenceTheorems, TLAPS

(***************************************************************************)
(* Arithmetic of slots: positions less than a lap apart lie in different   *)
(* slots, positions exactly a lap apart in the same one.                   *)
(***************************************************************************)

\* A slot is an index of the ring.
LEMMA SlotInIndex ==
    ASSUME NEW p \in Nat
    PROVE  Slot(p) \in Index
  BY SlotsAssumption DEF Slot, Index

\* Positions less than one lap apart never share a slot.
LEMMA SlotDistinct ==
    ASSUME NEW p \in Nat, NEW q \in Nat, p < q, q < p + Slots
    PROVE  Slot(p) # Slot(q)
<1>1. /\ p = Slots * (p \div Slots) + (p % Slots)
      /\ q = Slots * (q \div Slots) + (q % Slots)
      /\ p \div Slots \in Nat /\ q \div Slots \in Nat
  BY SlotsAssumption
<1>2. SUFFICES ASSUME p % Slots = q % Slots PROVE FALSE
  BY DEF Slot
<1> DEFINE laps == (q \div Slots) - (p \div Slots)
<1>3. laps \in Int
  BY <1>1
<1>4. Slots * laps = q - p
  BY <1>1, <1>2, SlotsAssumption
<1> HIDE DEF laps
<1>5. laps >= 1
  <2>1. ASSUME laps <= 0 PROVE Slots * laps <= 0
    BY <2>1, <1>3, SlotsAssumption
  <2> QED
    BY <2>1, <1>3, <1>4
<1>6. Slots * laps >= Slots
  BY <1>3, <1>5, SlotsAssumption
<1> QED
  BY <1>4, <1>6, SlotsAssumption

\* One lap further is the same slot.
LEMMA SlotWraps ==
    ASSUME NEW p \in Nat
    PROVE  Slot(p + Slots) = Slot(p)
<1> DEFINE q == p + Slots
           laps == (q \div Slots) - (p \div Slots) - 1
<1>1. /\ p = Slots * (p \div Slots) + (p % Slots)
      /\ q = Slots * (q \div Slots) + (q % Slots)
      /\ p \div Slots \in Nat /\ q \div Slots \in Nat
      /\ p % Slots \in 0 .. Slots - 1 /\ q % Slots \in 0 .. Slots - 1
  BY SlotsAssumption
<1>2. laps \in Int
  BY <1>1
<1>3. Slots * laps = (p % Slots) - (q % Slots)
  BY <1>1, SlotsAssumption
<1>4. Slots * laps < Slots /\ -Slots < Slots * laps
  BY <1>1, <1>3, SlotsAssumption
<1> HIDE DEF laps
<1>5. laps >= 1 => Slots * laps >= Slots
  BY <1>2, SlotsAssumption
<1>6. laps <= -1 => Slots * laps <= -Slots
  BY <1>2, SlotsAssumption
<1>7. laps = 0
  BY <1>2, <1>4, <1>5, <1>6, SlotsAssumption
<1>8. Slots * laps = 0
  BY <1>7, SlotsAssumption
<1> QED
  BY <1>1, <1>3, <1>8, SlotsAssumption DEF Slot

\* Two positions of one window of Slots positions lie in different slots.
LEMMA WindowDistinct ==
    ASSUME NEW r \in Nat,
           NEW p \in r .. r + Slots - 1, NEW q \in r .. r + Slots - 1, p # q
    PROVE  Slot(p) # Slot(q)
<1>1. p \in Nat /\ q \in Nat /\ q < p + Slots /\ p < q + Slots
  BY SlotsAssumption
<1>2. CASE p < q
  BY <1>1, <1>2, SlotDistinct
<1>3. CASE q < p
  BY <1>1, <1>3, SlotDistinct
<1> QED
  BY <1>1, <1>2, <1>3

-----------------------------------------------------------------------------
(***************************************************************************)
(* What the sequence numbers tell each side.                               *)
(***************************************************************************)

\* The positions are numbers at most Slots apart.
LEMMA PositionsRange ==
    ASSUME RingInv
    PROVE  /\ Slots \in Nat /\ write_position \in Nat /\ read_position \in Nat
           /\ read_position <= write_position /\ write_position <= read_position + Slots
<1>1. write_position \in Nat /\ read_position \in Nat
  BY DEF RingInv, TypeOK
<1>2. read_position <= write_position /\ write_position <= read_position + Slots
  BY DEF RingInv, PositionsOK
<1> QED
  BY <1>1, <1>2, SlotsAssumption

\* The producer finds its slot writable exactly when the ring is not full.
LEMMA WritableMeansSpace ==
    ASSUME RingInv
    PROVE  writable <=> write_position < read_position + Slots
<1>1. /\ Slots \in Nat /\ write_position \in Nat /\ read_position \in Nat
      /\ read_position <= write_position /\ write_position <= read_position + Slots
  BY PositionsRange
<1>2. SequencesOK
  BY DEF RingInv
<1>3. CASE write_position < read_position + Slots
  <2>1. write_position \in write_position .. read_position + Slots - 1
    BY <1>1, <1>3
  <2> QED
    BY <1>2, <1>3, <2>1 DEF SequencesOK, writable
<1>4. CASE write_position = read_position + Slots
  <2>1. Slot(write_position) = Slot(read_position)
    BY <1>1, <1>4, SlotWraps
  <2>2. read_position \in read_position .. write_position - 1
    BY <1>1, <1>4, SlotsAssumption
  <2>3. sequence[Slot(write_position)] = read_position + 1
    BY <1>2, <2>1, <2>2 DEF SequencesOK, Holds
  <2> QED
    BY <1>1, <1>4, <2>3, SlotsAssumption DEF writable
<1> QED
  BY <1>1, <1>3, <1>4

\* The consumer finds its slot readable exactly when the ring is not empty.
LEMMA ReadableMeansMessage ==
    ASSUME RingInv
    PROVE  readable <=> read_position < write_position
<1>1. /\ Slots \in Nat /\ write_position \in Nat /\ read_position \in Nat
      /\ read_position <= write_position /\ write_position <= read_position + Slots
  BY PositionsRange
<1>2. SequencesOK
  BY DEF RingInv
<1>3. CASE read_position < write_position
  <2>1. read_position \in read_position .. write_position - 1
    BY <1>1, <1>3
  <2> QED
    BY <1>2, <1>3, <2>1 DEF SequencesOK, Holds, readable
<1>4. CASE read_position = write_position
  <2>1. read_position \in write_position .. read_position + Slots - 1
    BY <1>1, <1>4, SlotsAssumption
  <2>2. sequence[Slot(read_position)] = read_position
    BY <1>2, <2>1 DEF SequencesOK
  <2> QED
    BY <1>1, <1>4, <2>2 DEF readable
<1> QED
  BY <1>1, <1>3, <1>4

-----------------------------------------------------------------------------
(***************************************************************************)
(* The invariant.                                                          *)
(***************************************************************************)

\* initialize builds a ring in which every slot is free.
LEMMA InitInv == Init => RingInv
<1> SUFFICES ASSUME Init PROVE RingInv
  OBVIOUS
<1> USE SlotsAssumption, PayloadAssumption DEF Init
<1>1. TypeOK
  BY DEF TypeOK, Index, Message, PushResults, PopResults
<1>2. PositionsOK
  BY DEF PositionsOK
<1>3. SequencesOK
  <2>1. ASSUME NEW p \in 0 .. Slots - 1 PROVE sequence[Slot(p)] = p
    BY <2>1 DEF Slot, Index
  <2> QED
    BY <2>1 DEF SequencesOK
<1> QED
  BY <1>1, <1>2, <1>3 DEF RingInv, ProducerOK, ConsumerOK, DeliveredInOrder

\* A pushed message is a record of a size and a body.
LEMMA PushedMessage ==
    ASSUME TypeOK, NEW i \in 1 .. Len(pushed)
    PROVE  pushed[i] = [size |-> pushed[i].size, body |-> pushed[i].body]
<1>1. pushed[i] \in Message
  BY DEF TypeOK
<1> QED
  BY <1>1 DEF Message

\* A refused or merely started try_push changes no slot.
LEMMA PushStartInv ==
    ASSUME RingInv, NEW m \in Offered, PushOversize(m) \/ PushFull(m) \/ PushClaim(m)
    PROVE  RingInv'
<1> USE SlotsAssumption, PayloadAssumption
    DEF RingInv, slotVars, consumerVars, PushOversize, PushFull, PushClaim
<1>1. TypeOK'
  BY DEF TypeOK, Offered, Message, PushResults
<1>2. wpc' # "idle" => write_position < read_position + Slots
  BY WritableMeansSpace DEF ProducerOK
<1>3. PositionsOK' /\ SequencesOK' /\ ConsumerOK' /\ DeliveredInOrder'
  BY DEF PositionsOK, SequencesOK, Holds, ConsumerOK, DeliveredInOrder, Slot
<1>4. ProducerOK'
  BY <1>2 DEF ProducerOK, TypeOK
<1> QED
  BY <1>1, <1>3, <1>4

\* Filling a slot disturbs no message that is still to be read.
LEMMA WriteInv ==
    ASSUME RingInv, WriteSize \/ WriteBody
    PROVE  RingInv'
<1> USE SlotsAssumption, PayloadAssumption DEF RingInv, slotVars, consumerVars
<1> DEFINE w == Slot(write_position)
<1>1. w \in Index
  BY SlotInIndex DEF TypeOK
<1>2. write_position < read_position + Slots
  BY DEF ProducerOK, WriteSize, WriteBody
<1>3. ASSUME NEW p \in read_position .. write_position - 1
      PROVE  Slot(p) # w
  <2>1. /\ read_position \in Nat
        /\ p \in read_position .. read_position + Slots - 1
        /\ write_position \in read_position .. read_position + Slots - 1
        /\ p # write_position
    BY <1>2 DEF TypeOK, PositionsOK
  <2> QED
    BY <2>1, WindowDistinct
<1>4. CASE WriteSize
  <2> USE <1>4 DEF WriteSize
  <2>1. TypeOK'
    BY <1>1 DEF TypeOK, Message
  <2>2. ASSUME NEW p \in read_position .. write_position - 1 PROVE Holds(p)'
    <3>1. p \in Nat
      BY DEF TypeOK
    <3>2. Slot(p) # w /\ Slot(p) \in Index
      BY <1>3, <3>1, SlotInIndex
    <3>3. Holds(p)
      BY DEF SequencesOK
    <3> QED
      BY <3>2, <3>3 DEF Holds, TypeOK, Slot
  <2>3. SequencesOK'
    BY <2>2 DEF SequencesOK, Slot
  <2>4. ProducerOK' /\ PositionsOK' /\ ConsumerOK' /\ DeliveredInOrder'
    BY <1>1 DEF ProducerOK, PositionsOK, ConsumerOK, DeliveredInOrder, TypeOK, Slot
  <2> QED
    BY <2>1, <2>3, <2>4
<1>5. CASE WriteBody
  <2> USE <1>5 DEF WriteBody
  <2>1. TypeOK'
    BY <1>1 DEF TypeOK, Message
  <2>2. ASSUME NEW p \in read_position .. write_position - 1 PROVE Holds(p)'
    <3>1. p \in Nat
      BY DEF TypeOK
    <3>2. Slot(p) # w /\ Slot(p) \in Index
      BY <1>3, <3>1, SlotInIndex
    <3>3. Holds(p)
      BY DEF SequencesOK
    <3> QED
      BY <3>2, <3>3 DEF Holds, TypeOK, Slot
  <2>3. SequencesOK'
    BY <2>2 DEF SequencesOK, Slot
  <2>4. ProducerOK' /\ PositionsOK' /\ ConsumerOK' /\ DeliveredInOrder'
    BY <1>1 DEF ProducerOK, PositionsOK, ConsumerOK, DeliveredInOrder, TypeOK, Slot
  <2> QED
    BY <2>1, <2>3, <2>4
<1> QED
  BY <1>4, <1>5

\* Publishing turns the filled slot into the newest message.
LEMMA PublishInv ==
    ASSUME RingInv, Publish
    PROVE  RingInv'
<1> USE SlotsAssumption, PayloadAssumption DEF RingInv, slotVars, consumerVars, Publish
<1> DEFINE w == Slot(write_position)
<1>1. w \in Index /\ write_position < read_position + Slots
  BY SlotInIndex DEF TypeOK, ProducerOK
<1>2. ASSUME NEW p \in read_position .. read_position + Slots - 1, p # write_position
      PROVE  Slot(p) # w /\ Slot(p) \in Index
  <2>1. read_position \in Nat /\ p \in Nat
        /\ write_position \in read_position .. read_position + Slots - 1
    BY <1>1 DEF TypeOK, PositionsOK
  <2> QED
    BY <1>2, <2>1, WindowDistinct, SlotInIndex
<1>3. TypeOK'
  BY <1>1 DEF TypeOK, PushResults
<1>4. PositionsOK'
  BY <1>1 DEF PositionsOK, TypeOK
<1>5. ASSUME NEW p \in read_position .. write_position PROVE Holds(p)'
  <2>1. CASE p = write_position
    BY <1>1, <2>1 DEF Holds, ProducerOK, PositionsOK, TypeOK, Slot
  <2>2. CASE p # write_position
    <3>1. p \in read_position .. write_position - 1
          /\ p \in read_position .. read_position + Slots - 1
      BY <1>1, <2>2 DEF TypeOK, PositionsOK
    <3>2. Holds(p) /\ Slot(p) # w /\ Slot(p) \in Index
      BY <1>2, <2>2, <3>1 DEF SequencesOK
    <3>3. p + 1 \in 1 .. Len(pushed)
      BY <3>1 DEF PositionsOK, TypeOK
    <3> QED
      BY <3>2, <3>3 DEF Holds, TypeOK, Slot
  <2> QED
    BY <2>1, <2>2
<1>6. ASSUME NEW p \in write_position + 1 .. read_position + Slots - 1
      PROVE  sequence'[Slot(p)] = p
  <2>1. p \in write_position .. read_position + Slots - 1
        /\ p \in read_position .. read_position + Slots - 1 /\ p # write_position
    BY DEF TypeOK, PositionsOK
  <2> QED
    BY <1>2, <2>1 DEF SequencesOK, TypeOK
<1>7. SequencesOK'
  <2>1. write_position' - 1 = write_position
    BY DEF TypeOK
  <2> QED
    BY <1>5, <1>6, <2>1 DEF SequencesOK, Slot
<1>8. ConsumerOK' /\ DeliveredInOrder'
  BY DEF ConsumerOK, DeliveredInOrder, PositionsOK, TypeOK
<1>9. ProducerOK'
  BY DEF ProducerOK
<1> QED
  BY <1>3, <1>4, <1>7, <1>8, <1>9

\* A try_pop that finds nothing, starts or copies changes no slot.
LEMMA ReadInv ==
    ASSUME RingInv, PopEmpty \/ PopClaim \/ ReadSize \/ ReadBody
    PROVE  RingInv'
<1> USE SlotsAssumption, PayloadAssumption
    DEF RingInv, slotVars, producerVars, PopEmpty, PopClaim, ReadSize, ReadBody
<1>1. Slot(read_position) \in Index
  BY SlotInIndex DEF TypeOK
<1>2. size[Slot(read_position)] \in 0 .. PayloadBytes
  BY <1>1 DEF TypeOK
<1>3. TypeOK'
  BY <1>1, <1>2 DEF TypeOK, PopResults
<1>4. rpc' # "idle" => read_position < write_position
  BY ReadableMeansMessage DEF ConsumerOK
<1>5. read_position < write_position => Holds(read_position)
  BY DEF SequencesOK, TypeOK
<1>6. ConsumerOK'
  BY <1>2, <1>4, <1>5 DEF ConsumerOK, Holds, TypeOK
<1>7. PositionsOK' /\ SequencesOK' /\ ProducerOK' /\ DeliveredInOrder'
  BY DEF PositionsOK, SequencesOK, Holds, ProducerOK, DeliveredInOrder, Slot
<1> QED
  BY <1>3, <1>6, <1>7

\* Releasing a slot delivers the oldest message and frees exactly its slot.
LEMMA ReleaseInv ==
    ASSUME RingInv, Release
    PROVE  RingInv'
<1> USE SlotsAssumption, PayloadAssumption DEF RingInv, slotVars, producerVars, Release
<1> DEFINE r == Slot(read_position)
<1>1. r \in Index /\ read_position < write_position
  BY SlotInIndex DEF TypeOK, ConsumerOK
<1>2. ASSUME NEW p \in read_position + 1 .. read_position + Slots - 1
      PROVE  Slot(p) # r /\ Slot(p) \in Index
  <2>1. /\ read_position \in Nat /\ p \in Nat
        /\ p \in read_position .. read_position + Slots - 1
        /\ read_position \in read_position .. read_position + Slots - 1
        /\ p # read_position
    BY DEF TypeOK
  <2> QED
    BY <2>1, WindowDistinct, SlotInIndex
<1>3. TypeOK'
  BY <1>1 DEF TypeOK, PopResults
<1>4. PositionsOK'
  BY <1>1 DEF PositionsOK, TypeOK
<1>5. ASSUME NEW p \in read_position + 1 .. write_position - 1 PROVE Holds(p)'
  <2>1. /\ p \in read_position .. write_position - 1
        /\ p \in read_position + 1 .. read_position + Slots - 1
    BY DEF TypeOK, PositionsOK
  <2>2. Holds(p) /\ Slot(p) # r /\ Slot(p) \in Index
    BY <1>2, <2>1 DEF SequencesOK
  <2> QED
    BY <2>2 DEF Holds, TypeOK, Slot
<1>6. ASSUME NEW p \in write_position .. read_position + Slots
      PROVE  sequence'[Slot(p)] = p
  <2>1. CASE p = read_position + Slots
    <3>1. Slot(p) = r
      BY <2>1, SlotWraps DEF TypeOK
    <3> QED
      BY <1>1, <2>1, <3>1 DEF TypeOK
  <2>2. CASE p # read_position + Slots
    <3>1. /\ p \in write_position .. read_position + Slots - 1
          /\ p \in read_position + 1 .. read_position + Slots - 1
      BY <1>1, <2>2 DEF TypeOK
    <3> QED
      BY <1>2, <3>1 DEF SequencesOK, TypeOK
  <2> QED
    BY <2>1, <2>2
<1>7. SequencesOK'
  <2>1. read_position' + Slots - 1 = read_position + Slots
    BY DEF TypeOK
  <2> QED
    BY <1>5, <1>6, <2>1 DEF SequencesOK, Slot
<1>8. ProducerOK'
  BY DEF ProducerOK, TypeOK, Slot
<1>9. DeliveredInOrder'
  <2>1. read_position + 1 \in 1 .. Len(pushed)
    BY <1>1 DEF PositionsOK, TypeOK
  <2>2. pushed[read_position + 1] = [size |-> rsize, body |-> rbody]
    BY <2>1, PushedMessage DEF ConsumerOK
  <2> QED
    BY <1>1, <2>1, <2>2 DEF DeliveredInOrder, PositionsOK, TypeOK
<1>10. ConsumerOK'
  BY DEF ConsumerOK
<1> QED
  BY <1>3, <1>4, <1>7, <1>8, <1>9, <1>10

\* Every step of either process preserves the invariant.
LEMMA StepInv == RingInv /\ [Next]_vars => RingInv'
<1> SUFFICES ASSUME RingInv, [Next]_vars PROVE RingInv'
  OBVIOUS
<1>1. CASE Producer
  BY <1>1, PushStartInv, WriteInv, PublishInv DEF Producer
<1>2. CASE Consumer
  BY <1>2, ReadInv, ReleaseInv DEF Consumer
<1>3. CASE UNCHANGED vars
  BY <1>3 DEF vars, slotVars, producerVars, consumerVars, RingInv, TypeOK, PositionsOK,
     SequencesOK, Holds, ProducerOK, ConsumerOK, DeliveredInOrder, Slot
<1> QED
  BY <1>1, <1>2, <1>3 DEF Next

\* Positions, sequence numbers, slot contents and the local copies of both
\* processes agree in every reachable state of shm_ring.cpp, however many
\* slots the ring has and however often it is lapped.
THEOREM RingInvariant == Spec => []RingInv
  BY InitInv, StepInv, PTL DEF Spec

\* Every variable keeps its type; no try_pop ever meets an invalid size.
THEOREM TypeCorrect == Spec => []TypeOK
<1>1. RingInv => TypeOK
  BY DEF RingInv
<1> QED
  BY <1>1, RingInvariant, PTL

\* Messages are delivered whole, once and in order.
THEOREM InOrderDelivery == Spec => []DeliveredInOrder
<1>1. RingInv => DeliveredInOrder
  BY DEF RingInv
<1> QED
  BY <1>1, RingInvariant, PTL

\* Producer and consumer are never inside the same slot: no data race.
THEOREM DataRaceFree == Spec => []NoOverlap
<1>1. ASSUME RingInv PROVE NoOverlap
  <2> USE <1>1, SlotsAssumption DEF RingInv
  <2> SUFFICES ASSUME wpc # "idle", rpc # "idle"
               PROVE  Slot(write_position) # Slot(read_position)
    BY DEF NoOverlap
  <2>1. /\ read_position \in Nat
        /\ read_position \in read_position .. read_position + Slots - 1
        /\ write_position \in read_position .. read_position + Slots - 1
        /\ write_position # read_position
    BY DEF TypeOK, ProducerOK, ConsumerOK
  <2> QED
    BY <2>1, WindowDistinct
<1> QED
  BY <1>1, RingInvariant, PTL

-----------------------------------------------------------------------------
(***************************************************************************)
(* The ring implements a FIFO of Slots messages.                           *)
(***************************************************************************)

\* The pushed messages that are not popped yet.
Unpopped == SubSeq(pushed, read_position + 1, write_position)

\* They are what the slots between the two positions hold.
LEMMA InFlightIs == RingInv => InFlight = Unpopped
<1> SUFFICES ASSUME RingInv PROVE InFlight = Unpopped
  OBVIOUS
<1> USE DEF RingInv, TypeOK, PositionsOK
<1>1. ASSUME NEW i \in 1 .. write_position - read_position
      PROVE  InFlight[i] = pushed[read_position + i]
  <2>1. read_position + i - 1 \in read_position .. write_position - 1
        /\ (read_position + i - 1) + 1 = read_position + i
        /\ read_position + i \in 1 .. Len(pushed)
    OBVIOUS
  <2>2. Holds(read_position + i - 1)
    BY <2>1 DEF SequencesOK
  <2>3. /\ pushed[read_position + i].size = size[Slot(read_position + i - 1)]
        /\ pushed[read_position + i].body = body[Slot(read_position + i - 1)]
    BY <2>1, <2>2 DEF Holds
  <2>4. pushed[read_position + i] = [size |-> pushed[read_position + i].size,
                                     body |-> pushed[read_position + i].body]
    BY <2>1, PushedMessage
  <2>5. InFlight[i] = [size |-> size[Slot(read_position + i - 1)],
                       body |-> body[Slot(read_position + i - 1)]]
    BY DEF InFlight
  <2> QED
    BY <2>3, <2>4, <2>5
<1>2. Unpopped = [i \in 1 .. write_position - read_position |-> pushed[read_position + i]]
  BY DEF Unpopped
<1>3. InFlight = [i \in 1 .. write_position - read_position |-> InFlight[i]]
  BY DEF InFlight
<1> QED
  BY <1>1, <1>2, <1>3

\* How the queue of unpopped messages looks: its length and its elements.
LEMMA UnpoppedIs ==
    ASSUME RingInv
    PROVE  /\ Unpopped \in Seq(Message)
           /\ Len(Unpopped) = write_position - read_position
           /\ \A i \in 1 .. Len(Unpopped) : Unpopped[i] = pushed[read_position + i]
  BY DEF Unpopped, RingInv, TypeOK, PositionsOK

\* Publish appends one message to the queue.
LEMMA PublishAppends ==
    ASSUME RingInv, Publish
    PROVE  Unpopped' = Append(Unpopped, message)
<1> DEFINE n == write_position - read_position
           longer == Append(pushed, message)
<1>1. /\ read_position \in 0 .. Len(pushed) /\ write_position = Len(pushed)
      /\ pushed \in Seq(Message) /\ message \in Message /\ n \in Nat
  BY DEF RingInv, TypeOK, PositionsOK
<1>2. /\ Unpopped \in Seq(Message) /\ Len(Unpopped) = n
      /\ \A i \in 1 .. n : Unpopped[i] = pushed[read_position + i]
  BY UnpoppedIs
<1>3. Unpopped' = SubSeq(longer, read_position + 1, write_position + 1)
  BY DEF Unpopped, Publish, consumerVars
<1>4. /\ longer \in Seq(Message)
      /\ Len(longer) = write_position + 1
      /\ \A i \in 1 .. n : longer[read_position + i] = pushed[read_position + i]
      /\ longer[read_position + (n + 1)] = message
  BY <1>1
<1> HIDE DEF longer
<1>5. /\ Unpopped' \in Seq(Message) /\ Len(Unpopped') = n + 1
      /\ \A i \in 1 .. n + 1 : Unpopped'[i] = longer[read_position + i]
  BY <1>1, <1>3, <1>4
<1>6. /\ Append(Unpopped, message) \in Seq(Message)
      /\ Len(Append(Unpopped, message)) = n + 1
      /\ \A i \in 1 .. n : Append(Unpopped, message)[i] = Unpopped[i]
      /\ Append(Unpopped, message)[n + 1] = message
  BY <1>1, <1>2
<1>7. ASSUME NEW i \in 1 .. n + 1 PROVE Unpopped'[i] = Append(Unpopped, message)[i]
  <2>1. CASE i \in 1 .. n
    <3>1. Unpopped'[i] = longer[read_position + i]
      BY <1>5
    <3>2. longer[read_position + i] = Unpopped[i]
      BY <1>2, <1>4, <2>1
    <3> QED
      BY <1>6, <2>1, <3>1, <3>2
  <2>2. CASE i = n + 1
    <3>1. Unpopped'[i] = longer[read_position + i]
      BY <1>5
    <3>2. longer[read_position + i] = message
      BY <1>4, <2>2
    <3> QED
      BY <1>6, <2>2, <3>1, <3>2
  <2>3. i \in 1 .. n \/ i = n + 1
    BY <1>1
  <2> QED
    BY <2>1, <2>2, <2>3
<1> QED
  BY <1>5, <1>6, <1>7, SeqEqual

\* Release takes the oldest message, the one delivered.
LEMMA ReleaseTakesHead ==
    ASSUME RingInv, Release
    PROVE  /\ Unpopped # <<>>
           /\ Unpopped' = Tail(Unpopped)
           /\ [size |-> rsize, body |-> rbody] = Head(Unpopped)
<1> USE DEF RingInv, TypeOK, PositionsOK, Release, producerVars
<1>1. read_position < write_position
  BY DEF ConsumerOK
<1>2. Unpopped # <<>> /\ Head(Unpopped) = pushed[read_position + 1]
  <2>1. Len(Unpopped) >= 1 /\ Unpopped \in Seq(Message)
    BY <1>1, UnpoppedIs
  <2>2. 1 \in 1 .. Len(Unpopped) /\ Unpopped # <<>> /\ Head(Unpopped) = Unpopped[1]
    BY <2>1
  <2> QED
    BY <2>2, UnpoppedIs
<1>3. Unpopped' = Tail(Unpopped)
  <2>1. Unpopped' = SubSeq(pushed, read_position + 2, write_position)
    BY DEF Unpopped
  <2> QED
    BY <1>1, <2>1 DEF Unpopped
<1>4. pushed[read_position + 1] = [size |-> rsize, body |-> rbody]
  BY <1>1, PushedMessage DEF ConsumerOK
<1> QED
  BY <1>2, <1>3, <1>4

\* Every step of shm_ring.cpp is a step of the abstract FIFO or changes none
\* of what the FIFO shows: try_push and try_pop are atomic, first-in
\* first-out, and answer "full" and "empty" only when that is so.
THEOREM RingImplementsFifo == Spec => ImplementsFifo
<1>1. Init => Fifo!Init
  <2> SUFFICES ASSUME Init PROVE InFlight = <<>>
    BY DEF Init, Fifo!Init
  <2> QED
    BY DEF Init, InFlight
<1>2. (RingInv => InFlight = Unpopped)'
  BY InFlightIs, PTL
<1>3. RingInv /\ RingInv' /\ [Next]_vars => [Fifo!Next]_(Fifo!fifoVars)
  <2> SUFFICES ASSUME RingInv, RingInv', [Next]_vars
               PROVE  [Fifo!Next]_(Fifo!fifoVars)
    OBVIOUS
  <2>1. InFlight = Unpopped /\ InFlight' = Unpopped'
    BY <1>2, InFlightIs
  <2>2. Len(InFlight) = write_position - read_position
    BY <2>1, UnpoppedIs
  <2> USE DEF Fifo!fifoVars, Fifo!Next
  <2>3. ASSUME NEW m \in Offered, PushOversize(m) PROVE Fifo!Next
    BY <2>1, <2>3 DEF PushOversize, slotVars, consumerVars, Unpopped, Fifo!PushRejected
  <2>4. ASSUME NEW m \in Offered, PushFull(m) PROVE Fifo!Next
    <3>1. ~(write_position < read_position + Slots)
      BY <2>4, WritableMeansSpace DEF PushFull
    <3>2. Len(InFlight) = Slots
      <4>1. /\ write_position \in Nat /\ read_position \in Nat
            /\ write_position <= read_position + Slots
        BY DEF RingInv, TypeOK, PositionsOK
      <4> QED
        BY <2>2, <3>1, <4>1, SlotsAssumption
    <3> QED
      BY <2>1, <2>4, <3>2 DEF PushFull, slotVars, consumerVars, Unpopped, Fifo!PushFull
  <2>5. ASSUME NEW m \in Offered, PushClaim(m) PROVE UNCHANGED Fifo!fifoVars
    BY <2>1, <2>5 DEF PushClaim, slotVars, consumerVars, Unpopped
  <2>6. ASSUME WriteSize \/ WriteBody PROVE UNCHANGED Fifo!fifoVars
    BY <2>1, <2>6 DEF WriteSize, WriteBody, consumerVars, Unpopped
  <2>7. ASSUME Publish PROVE Fifo!Next
    <3>1. InFlight' = Append(InFlight, message)
      BY <2>1, <2>7, PublishAppends
    <3>2. Len(InFlight) < Slots
      BY <2>2, <2>7, SlotsAssumption DEF RingInv, TypeOK, ProducerOK, Publish
    <3>3. message \in Message
      BY DEF RingInv, TypeOK
    <3> QED
      BY <2>7, <3>1, <3>2, <3>3 DEF Publish, consumerVars, Fifo!Push
  <2>8. ASSUME PopEmpty PROVE Fifo!Next
    <3>1. write_position = read_position
      BY <2>8, ReadableMeansMessage DEF PopEmpty, RingInv, TypeOK, PositionsOK
    <3>2. InFlight = <<>>
      BY <3>1 DEF InFlight, RingInv, TypeOK
    <3> QED
      BY <2>1, <2>8, <3>2 DEF PopEmpty, slotVars, producerVars, Unpopped, Fifo!PopEmpty
  <2>9. ASSUME PopClaim \/ ReadBody PROVE UNCHANGED Fifo!fifoVars
    BY <2>1, <2>9 DEF PopClaim, ReadBody, slotVars, producerVars, Unpopped
  <2>10. ASSUME ReadSize PROVE UNCHANGED Fifo!fifoVars
    BY <2>1, <2>10 DEF ReadSize, slotVars, producerVars, Unpopped, RingInv, TypeOK, PopResults
  <2>11. ASSUME Release PROVE Fifo!Next
    <3>1. /\ InFlight # <<>> /\ InFlight' = Tail(InFlight)
          /\ [size |-> rsize, body |-> rbody] = Head(InFlight)
      BY <2>1, <2>11, ReleaseTakesHead
    <3> QED
      BY <2>11, <3>1 DEF Release, producerVars, Fifo!Pop
  <2>12. CASE UNCHANGED vars
    BY <2>1, <2>12 DEF vars, slotVars, producerVars, consumerVars, Unpopped
  <2> QED
    BY <2>3, <2>4, <2>5, <2>6, <2>7, <2>8, <2>9, <2>10, <2>11, <2>12
       DEF Next, Producer, Consumer
<1> QED
  BY <1>1, <1>3, RingInvariant, PTL DEF Spec, ImplementsFifo, Fifo!Spec
=============================================================================
