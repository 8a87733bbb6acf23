-------------------------- MODULE ShmChannelProofs --------------------------
(***************************************************************************)
(* No wake-up is lost in NamedShmChannel, for every ring size, every       *)
(* number of chunks and every mix of timeouts, signals and interrupts,     *)
(* provided stores to the waiter words are visible at once.                *)
(***************************************************************************)
EXTENDS ShmChannel, TLAPS

\* No end is its own peer, and the peer of the peer is the end itself.
LEMMA OtherEnd ==
    ASSUME NEW e \in Ends
    PROVE  /\ Other(e) \in Ends /\ Other(e) # e /\ Other(Other(e)) = e
           /\ \A f \in Ends : f = e \/ f = Other(e)
  BY DEF Ends, Other

\* A fresh region has both words down and nobody waiting.
LEMMA InitWake == Init => WakeInv
  BY DEF Init, WakeInv, TypeOK, Ends, EndLabels, InterruptLabels

\* Moving a chunk leaves the peer asleep with a ready ring, but only until
\* the mover's notify.
LEMMA TransferWake ==
    ASSUME WakeInv, NEW e \in Ends, Transfer(e)
    PROVE  WakeInv'
<1> USE DEF WakeInv
<1>1. pc' = [pc EXCEPT ![e] = "notify"] /\ UNCHANGED <<waiter, stores, closed, ipc>>
  BY DEF Transfer, Goto
<1>2. TypeOK'
  <2>1. queue' \in Seq(Nat) /\ sent' \in Nat /\ received' \in Seq(Nat)
    <3>1. CASE e = "writer"
      <4>1. queue' = Append(queue, sent + 1) /\ sent' = sent + 1 /\ received' = received
        BY <3>1 DEF Transfer
      <4> QED
        BY <4>1 DEF TypeOK
    <3>2. CASE e # "writer"
      <4>1. queue # <<>> /\ queue' = Tail(queue) /\ sent' = sent
            /\ received' = Append(received, Head(queue))
        BY <3>2 DEF Transfer, Ready
      <4> QED
        BY <4>1 DEF TypeOK
    <3> QED
      BY <3>1, <3>2
  <2> QED
    BY <1>1, <2>1 DEF TypeOK, EndLabels
<1>3. ASSUME NEW f \in Ends, pc'[f] = "asleep"
      PROVE  waiter[f] = 1 \/ pc'[Other(f)] = "wake" \/ WakePending(f)'
  BY <1>1, <1>3, OtherEnd DEF TypeOK, WakePending, Transfer
<1>4. ASSUME NEW f \in Ends, pc'[f] \in {"wait", "asleep"}
      PROVE  pc'[Other(f)] = "notify"
  BY <1>1, <1>4, OtherEnd DEF TypeOK
<1> QED
  BY <1>1, <1>2, <1>3, <1>4

\* The steps of a thread that neither move a chunk nor wake its peer.
LEMMA LocalWake ==
    ASSUME StoreBuffer = FALSE, WakeInv, NEW e \in Ends,
           \/ TransferFails(e) \/ Return(e) \/ RequireOpen(e) \/ Arm(e)
           \/ Recheck(e) \/ FutexWait(e) \/ Eintr(e) \/ Timeout(e)
    PROVE  WakeInv'
<1> USE DEF WakeInv, ringVars
<1>1. PICK label \in EndLabels : pc' = [pc EXCEPT ![e] = label]
  BY DEF TransferFails, Return, RequireOpen, Arm, Recheck, FutexWait, Eintr, Timeout, Goto,
         EndLabels
<1>2. UNCHANGED <<ringVars, stores, closed, ipc>> /\ (\A f \in Ends : Ready(f)' = Ready(f))
  BY DEF TransferFails, Return, RequireOpen, Arm, Recheck, FutexWait, Eintr, Timeout, StoreOwn,
         TypeOK, Ready
<1>3. \A f \in Ends : f # e => waiter'[f] = waiter[f]
  BY DEF TransferFails, Return, RequireOpen, Arm, Recheck, FutexWait, Eintr, Timeout, StoreOwn,
         TypeOK
<1>4. waiter' \in [Ends -> {0, 1}]
  BY DEF TransferFails, Return, RequireOpen, Arm, Recheck, FutexWait, Eintr, Timeout, StoreOwn,
         TypeOK, Drained
<1>5. TypeOK'
  BY <1>1, <1>2, <1>4 DEF TypeOK
<1>6. pc[e] \notin {"notify", "wake"}
  BY DEF TransferFails, Return, RequireOpen, Arm, Recheck, FutexWait, Eintr, Timeout
<1>7. label = "asleep" => waiter'[e] = 1 /\ waiter[e] = 1 /\ pc[e] = "wait"
  BY <1>1 DEF TransferFails, Return, RequireOpen, Arm, Recheck, FutexWait, Eintr, Timeout, Goto,
              Drained, TypeOK
<1>8. label = "wait" => ~Ready(e)
  BY <1>1 DEF TransferFails, Return, RequireOpen, Arm, Recheck, FutexWait, Eintr, Timeout, Goto,
              TypeOK
<1>9. ASSUME NEW f \in Ends, pc'[f] = "asleep"
      PROVE  waiter'[f] = 1 \/ pc'[Other(f)] = "wake" \/ WakePending(f)'
  BY <1>1, <1>2, <1>3, <1>6, <1>7, <1>9, OtherEnd DEF TypeOK, WakePending
<1>10. ASSUME NEW f \in Ends, pc'[f] \in {"wait", "asleep"}, waiter'[f] = 1, Ready(f)'
       PROVE  pc'[Other(f)] = "notify"
  BY <1>1, <1>2, <1>3, <1>6, <1>7, <1>8, <1>10, OtherEnd DEF TypeOK
<1> QED
  BY <1>2, <1>5, <1>9, <1>10

\* Lowering the peer's word is followed by waking it.
LEMMA NotifyWake ==
    ASSUME WakeInv, NEW e \in Ends, Notify(e) \/ FutexWake(e)
    PROVE  WakeInv'
<1> USE DEF WakeInv, TypeOK, EndLabels, ringVars, WakePending, Goto, Drained, Woken
<1>1. CASE Notify(e)
  BY <1>1, OtherEnd DEF Notify, Ready
<1>2. CASE FutexWake(e)
  BY <1>2, OtherEnd DEF FutexWake, Ready
<1> QED
  BY <1>1, <1>2

\* interrupt() lowers both words and then wakes whoever still sleeps.
LEMMA InterruptWakes ==
    ASSUME WakeInv, InterruptClose \/ InterruptSteps
    PROVE  WakeInv'
<1> USE DEF WakeInv, TypeOK, EndLabels, InterruptLabels, ringVars, WakePending, Woken,
            Ends, Other
<1>1. CASE InterruptClose
  BY <1>1 DEF InterruptClose, Ready
<1>2. CASE InterruptLower("reader", "lower_data", "lower_space")
  BY <1>2 DEF InterruptLower, Ready
<1>3. CASE InterruptLower("writer", "lower_space", "wake_data")
  BY <1>3 DEF InterruptLower, Ready
<1>4. CASE InterruptWake("reader", "wake_data", "wake_space")
  BY <1>4 DEF InterruptWake, Ready
<1>5. CASE InterruptWake("writer", "wake_space", "finished")
  BY <1>5 DEF InterruptWake, Ready
<1> QED
  BY <1>1, <1>2, <1>3, <1>4, <1>5 DEF InterruptSteps

\* With stores visible at once, every reachable state satisfies WakeInv.
THEOREM WakeInvariant ==
    ASSUME StoreBuffer = FALSE
    PROVE  Spec => []WakeInv
<1>1. WakeInv /\ [Next]_vars => WakeInv'
  <2> SUFFICES ASSUME WakeInv, [Next]_vars PROVE WakeInv'
    OBVIOUS
  <2>1. ASSUME NEW e \in Ends, Run(e) PROVE WakeInv'
    BY <2>1, TransferWake, LocalWake, NotifyWake DEF Run
  <2>2. ASSUME NEW e \in Ends, Drain(e) PROVE WakeInv'
    BY <2>2 DEF Drain, WakeInv
  <2>3. ASSUME NEW e \in Ends, Eintr(e) \/ Timeout(e) PROVE WakeInv'
    BY <2>3, LocalWake
  <2>4. CASE InterruptClose \/ InterruptSteps
    BY <2>4, InterruptWakes
  <2>5. CASE UNCHANGED vars
    BY <2>5 DEF vars, ringVars, WakeInv, TypeOK, Ready, WakePending
  <2> QED
    BY <2>1, <2>2, <2>3, <2>4, <2>5 DEF Next
<1> QED
  BY <1>1, InitWake, PTL DEF Spec

\* No end sleeps in FUTEX_WAIT over a ready ring without a wake on its way.
THEOREM WakeupsArrive ==
    ASSUME StoreBuffer = FALSE
    PROVE  Spec => []NoLostWakeup
<1>1. WakeInv => NoLostWakeup
  BY DEF WakeInv, NoLostWakeup
<1> QED
  BY <1>1, WakeInvariant, PTL
-----------------------------------------------------------------------------
(***************************************************************************)
(* What holds with store buffers as well.                                  *)
(***************************************************************************)

\* An end's own word is what its last store, visible or not, has made it.
LEMMA DrainedWord ==
    ASSUME TypeOK, NEW e \in Ends
    PROVE  Drained(e) \in {0, 1}
<1>1. stores[e] \in Seq({0, 1}) /\ waiter[e] \in {0, 1}
  BY DEF TypeOK
<1>2. CASE stores[e] = <<>>
  BY <1>1, <1>2 DEF Drained
<1>3. CASE stores[e] # <<>>
  <2>1. Len(stores[e]) \in 1 .. Len(stores[e])
    BY <1>1, <1>3
  <2> QED
    BY <1>1, <1>3, <2>1 DEF Drained
<1> QED
  BY <1>2, <1>3

\* The two waiter words of a ring and the closed flag are 0 or 1 whatever the stores
\* that are still buffered, so that FUTEX_WAIT compares and notify exchanges nothing
\* else; and both ends stay in the loops of write_all, read_all and interrupt.
THEOREM TypeCorrect == Spec => []TypeOK
<1>1. Init => TypeOK
  BY DEF Init, TypeOK, Ends, EndLabels, InterruptLabels
<1>2. TypeOK /\ [Next]_vars => TypeOK'
  <2> SUFFICES ASSUME TypeOK, [Next]_vars PROVE TypeOK'
    OBVIOUS
  <2> USE DEF ringVars, Goto, EndLabels
  <2>1. ASSUME NEW e \in Ends, Transfer(e) PROVE TypeOK'
    <3>1. pc' = [pc EXCEPT ![e] = "notify"] /\ UNCHANGED <<waiter, stores, closed, ipc>>
      BY <2>1 DEF Transfer
    <3>2. queue' \in Seq(Nat) /\ sent' \in Nat /\ received' \in Seq(Nat)
      <4>1. CASE e = "writer"
        <5>1. queue' = Append(queue, sent + 1) /\ sent' = sent + 1 /\ received' = received
          BY <2>1, <4>1 DEF Transfer
        <5> QED
          BY <5>1 DEF TypeOK
      <4>2. CASE e # "writer"
        <5>1. queue # <<>> /\ queue' = Tail(queue) /\ sent' = sent
              /\ received' = Append(received, Head(queue))
          BY <2>1, <4>2 DEF Transfer, Ready
        <5> QED
          BY <5>1 DEF TypeOK
      <4> QED
        BY <4>1, <4>2
    <3> QED
      BY <3>1, <3>2 DEF TypeOK
  <2>2. ASSUME NEW e \in Ends,
               TransferFails(e) \/ Return(e) \/ RequireOpen(e) \/ FutexWake(e) \/ Eintr(e) \/ Timeout(e)
        PROVE  TypeOK'
    <3>1. UNCHANGED <<queue, sent, received, waiter, stores, closed, ipc>>
      BY <2>2 DEF TransferFails, Return, RequireOpen, FutexWake, Eintr, Timeout
    <3>2. pc' \in [Ends -> EndLabels]
      <4>1. CASE FutexWake(e)
        <5>1. [pc EXCEPT ![e] = "try"] \in [Ends -> EndLabels]
          BY DEF TypeOK
        <5>2. ASSUME NEW pcs \in [Ends -> EndLabels] PROVE Woken(Other(e), pcs) \in [Ends -> EndLabels]
          BY OtherEnd DEF Woken
        <5> QED
          BY <4>1, <5>1, <5>2 DEF FutexWake
      <4>2. CASE ~FutexWake(e)
        <5>1. \E label \in EndLabels : pc' = [pc EXCEPT ![e] = label]
          BY <2>2, <4>2 DEF TransferFails, Return, RequireOpen, Eintr, Timeout
        <5> QED
          BY <5>1 DEF TypeOK
      <4> QED
        BY <4>1, <4>2
    <3> QED
      BY <3>1, <3>2 DEF TypeOK
  <2>3. ASSUME NEW e \in Ends, Arm(e) \/ Recheck(e) PROVE TypeOK'
    <3>1. UNCHANGED <<queue, sent, received, closed, ipc>> /\ pc' \in [Ends -> EndLabels]
      BY <2>3 DEF Arm, Recheck, TypeOK
    <3>2. (UNCHANGED <<waiter, stores>>) \/ \E value \in {0, 1} : StoreOwn(e, value)
      BY <2>3 DEF Arm, Recheck
    <3>3. waiter' \in [Ends -> {0, 1}] /\ stores' \in [Ends -> Seq({0, 1})]
      <4>1. waiter \in [Ends -> {0, 1}] /\ stores \in [Ends -> Seq({0, 1})]
        BY DEF TypeOK
      <4>2. ASSUME NEW value \in {0, 1}, StoreOwn(e, value)
            PROVE  waiter' \in [Ends -> {0, 1}] /\ stores' \in [Ends -> Seq({0, 1})]
        <5>1. Append(stores[e], value) \in Seq({0, 1})
          BY <4>1
        <5> QED
          BY <4>1, <4>2, <5>1 DEF StoreOwn
      <4> QED
        BY <3>2, <4>1, <4>2
    <3> QED
      BY <3>1, <3>3 DEF TypeOK
  <2>4. ASSUME NEW e \in Ends, FutexWait(e) \/ Notify(e) PROVE TypeOK'
    <3>1. UNCHANGED <<queue, sent, received, closed, ipc>> /\ pc' \in [Ends -> EndLabels]
      BY <2>4 DEF FutexWait, Notify, TypeOK
    <3>2. Drained(e) \in {0, 1} /\ stores' = [stores EXCEPT ![e] = <<>>]
      BY <2>4, DrainedWord DEF FutexWait, Notify
    <3>3. waiter' \in [Ends -> {0, 1}]
      BY <2>4, <3>2, OtherEnd DEF FutexWait, Notify, TypeOK
    <3>4. stores' \in [Ends -> Seq({0, 1})]
      <4>1. <<>> \in Seq({0, 1})
        OBVIOUS
      <4> QED
        BY <3>2, <4>1 DEF TypeOK
    <3> QED
      BY <3>1, <3>3, <3>4 DEF TypeOK
  <2>5. ASSUME NEW e \in Ends, Drain(e) PROVE TypeOK'
    <3>1. stores[e] \in Seq({0, 1}) /\ stores[e] # <<>>
      BY <2>5 DEF Drain, TypeOK
    <3>2. Head(stores[e]) \in {0, 1} /\ Tail(stores[e]) \in Seq({0, 1})
      BY <3>1
    <3> QED
      BY <2>5, <3>2 DEF Drain, TypeOK
  <2>6. CASE InterruptClose \/ InterruptSteps
    BY <2>6, OtherEnd DEF InterruptClose, InterruptSteps, InterruptLower, InterruptWake, Woken, InterruptLabels,
                          TypeOK, Ends
  <2>7. CASE UNCHANGED vars
    BY <2>7 DEF vars, TypeOK
  <2> QED
    BY <2>1, <2>2, <2>3, <2>4, <2>5, <2>6, <2>7 DEF Next, Run
<1> QED
  BY <1>1, <1>2, PTL DEF Spec
=============================================================================
