----------------------------- MODULE ShmChannel -----------------------------
(***************************************************************************)
(* Waiting, waking and closing in NamedShmChannel (shm_channel.cpp, the    *)
(* Linux build): one direction of a shared-memory Fjord.  The writer runs  *)
(* write_all, the reader read_all or a loop of wait_readable; any thread   *)
(* of either process may call interrupt().  A side that finds the ring     *)
(* full (writer) or empty (reader) raises its waiter word in the shared    *)
(* header, looks at the ring once more and sleeps in FUTEX_WAIT; the other *)
(* side lowers the word after each chunk it moves and, when the word was   *)
(* up, calls FUTEX_WAKE.                                                   *)
(*                                                                         *)
(* try_push and try_pop are single steps on a FIFO: that is what SlotRing  *)
(* is proved to implement.  The two rings of a channel share only the      *)
(* closed flag, so one direction shows every behaviour of the other.       *)
(*                                                                         *)
(* Memory order.  The waiter word is raised by a release store and the     *)
(* ring is then read by an acquire load of another location; C++ and x86   *)
(* let the load be performed first.  StoreBuffer = TRUE keeps a side's     *)
(* stores to its own word in a FIFO buffer that drains later; the atomic   *)
(* exchange of notify and the futex system call drain it.  The stores of   *)
(* interrupt() are taken as visible in program order.                      *)
(***************************************************************************)
EXTENDS Naturals, Sequences

CONSTANTS Slots,        \* chunks the ring holds
          Total,        \* chunks the writer sends and the reader expects
          StoreBuffer,  \* stores to the waiter words may be delayed
          Timed,        \* ends that wait with a timeout (wait_readable)
          Interruptible \* whether some thread may call interrupt()

Ends == {"writer", "reader"}
Other(e) == IF e = "writer" THEN "reader" ELSE "writer"

ASSUME SlotsAssumption == Slots \in Nat \ {0, 1}
ASSUME TotalAssumption == Total \in Nat \ {0}
ASSUME FlagsAssumption == StoreBuffer \in BOOLEAN /\ Interruptible \in BOOLEAN
\* write_all has no timeout: only the reader may be timed.
ASSUME TimedAssumption == Timed \subseteq {"reader"}

VARIABLES queue,     \* chunks in the ring
          sent,      \* chunks pushed so far
          received,  \* chunks popped so far, in order
          waiter,    \* space_waiter (writer) and data_waiter (reader)
          stores,    \* stores of each end to its own word, not yet visible
          closed,    \* RegionHeader::closed
          pc,        \* where each end is
          ipc        \* where the thread calling interrupt() is

ringVars == <<queue, sent, received>>
vars == <<ringVars, waiter, stores, closed, pc, ipc>>

Init ==
    /\ queue = <<>> /\ sent = 0 /\ received = <<>>
    /\ waiter = [e \in Ends |-> 0]
    /\ stores = [e \in Ends |-> <<>>]
    /\ closed = 0
    /\ pc = [e \in Ends |-> "try"]
    /\ ipc = "idle"
-----------------------------------------------------------------------------
Goto(e, label) == pc' = [pc EXCEPT ![e] = label]

\* SharedSlotRing::writable and readable.
Ready(e) == IF e = "writer" THEN Len(queue) < Slots ELSE queue # <<>>

\* An end has moved every chunk it was asked to move.
Complete(e) == IF e = "writer" THEN sent = Total ELSE Len(received) = Total

\* The end's own word once its buffered stores are visible.
Drained(e) == IF stores[e] = <<>> THEN waiter[e] ELSE stores[e][Len(stores[e])]

\* A release store of an end to its own waiter word.
StoreOwn(e, value) ==
    IF StoreBuffer
    THEN stores' = [stores EXCEPT ![e] = Append(@, value)] /\ UNCHANGED waiter
    ELSE waiter' = [waiter EXCEPT ![e] = value] /\ UNCHANGED stores

\* A buffered store becomes visible to the other process.
Drain(e) ==
    /\ stores[e] # <<>>
    /\ waiter' = [waiter EXCEPT ![e] = Head(stores[e])]
    /\ stores' = [stores EXCEPT ![e] = Tail(@)]
    /\ UNCHANGED <<ringVars, closed, pc, ipc>>
-----------------------------------------------------------------------------
\* try_push or try_pop succeeds.
Transfer(e) ==
    /\ pc[e] = "try" /\ ~Complete(e) /\ Ready(e)
    /\ IF e = "writer"
       THEN /\ queue' = Append(queue, sent + 1)
            /\ sent' = sent + 1
            /\ UNCHANGED received
       ELSE /\ queue' = Tail(queue)
            /\ received' = Append(received, Head(queue))
            /\ UNCHANGED sent
    /\ Goto(e, "notify")
    /\ UNCHANGED <<waiter, stores, closed, ipc>>

\* try_push or try_pop returns false.
TransferFails(e) ==
    /\ pc[e] = "try" /\ ~Complete(e) /\ ~Ready(e)
    /\ Goto(e, "require_open")
    /\ UNCHANGED <<ringVars, waiter, stores, closed, ipc>>

\* The last chunk is through: write_all or read_all returns.
Return(e) ==
    /\ pc[e] = "try" /\ Complete(e)
    /\ Goto(e, "done")
    /\ UNCHANGED <<ringVars, waiter, stores, closed, ipc>>

\* Mutant of RequireOpen: the closed flag is not looked at.
NeverClosed(e) ==
    /\ pc[e] = "require_open"
    /\ Goto(e, "arm")
    /\ UNCHANGED <<ringVars, waiter, stores, closed, ipc>>

\* require_open throws when the channel is closed.
RequireOpen(e) ==
    /\ pc[e] = "require_open"
    /\ Goto(e, IF closed = 1 THEN "failed" ELSE "arm")
    /\ UNCHANGED <<ringVars, waiter, stores, closed, ipc>>

\* wait_for_data, wait_for_space: raise the word ...
Arm(e) ==
    /\ pc[e] = "arm"
    /\ StoreOwn(e, 1)
    /\ Goto(e, "recheck")
    /\ UNCHANGED <<ringVars, closed, ipc>>

\* Mutant of Recheck: sleep without a second look.
NoSecondLook(e) ==
    /\ pc[e] = "recheck"
    /\ Goto(e, "wait")
    /\ UNCHANGED <<ringVars, waiter, stores, closed, ipc>>

\* ... and look again: lower the word and retry, or go to sleep.
Recheck(e) ==
    /\ pc[e] = "recheck"
    /\ IF Ready(e)
       THEN StoreOwn(e, 0) /\ Goto(e, "try")
       ELSE Goto(e, "wait") /\ UNCHANGED <<waiter, stores>>
    /\ UNCHANGED <<ringVars, closed, ipc>>

\* FUTEX_WAIT sleeps only if the word is still 1; otherwise EAGAIN: retry.
FutexWait(e) ==
    /\ pc[e] = "wait"
    /\ waiter' = [waiter EXCEPT ![e] = Drained(e)]
    /\ stores' = [stores EXCEPT ![e] = <<>>]
    /\ Goto(e, IF Drained(e) = 1 THEN "asleep" ELSE "try")
    /\ UNCHANGED <<ringVars, closed, ipc>>

\* A signal ends the wait with EINTR: the caller tries again.
Eintr(e) ==
    /\ pc[e] = "asleep"
    /\ Goto(e, "try")
    /\ UNCHANGED <<ringVars, waiter, stores, closed, ipc>>

\* Mutant of Timeout: a wait that timed out is taken for the end of the data.
TimeoutEnds(e) ==
    /\ e \in Timed /\ pc[e] = "asleep"
    /\ Goto(e, "done")
    /\ UNCHANGED <<ringVars, waiter, stores, closed, ipc>>

\* ETIMEDOUT: wait_readable returns false and its caller polls again.
Timeout(e) ==
    /\ e \in Timed /\ pc[e] = "asleep"
    /\ Goto(e, "try")
    /\ UNCHANGED <<ringVars, waiter, stores, closed, ipc>>

\* Mutant of Notify: the word is decremented, not exchanged for 0.
NotifyDecrements(e) ==
    /\ pc[e] = "notify"
    /\ waiter' = [waiter EXCEPT ![e] = Drained(e), ![Other(e)] = @ - 1]
    /\ stores' = [stores EXCEPT ![e] = <<>>]
    /\ Goto(e, IF waiter[Other(e)] # 0 THEN "wake" ELSE "try")
    /\ UNCHANGED <<ringVars, closed, ipc>>

\* Mutant of Notify: the word is lowered but nobody is woken.
NotifyQuietly(e) ==
    /\ pc[e] = "notify"
    /\ waiter' = [waiter EXCEPT ![e] = Drained(e), ![Other(e)] = 0]
    /\ stores' = [stores EXCEPT ![e] = <<>>]
    /\ Goto(e, "try")
    /\ UNCHANGED <<ringVars, closed, ipc>>

\* notify: exchange the peer's word for 0; wake the peer if it was raised.
\* The exchange is a read-modify-write: the caller's own stores drain first.
Notify(e) ==
    /\ pc[e] = "notify"
    /\ waiter' = [waiter EXCEPT ![e] = Drained(e), ![Other(e)] = 0]
    /\ stores' = [stores EXCEPT ![e] = <<>>]
    /\ Goto(e, IF waiter[Other(e)] # 0 THEN "wake" ELSE "try")
    /\ UNCHANGED <<ringVars, closed, ipc>>

\* FUTEX_WAKE on the word of end e: who sleeps on it tries again.
Woken(e, pcs) == [pcs EXCEPT ![e] = IF @ = "asleep" THEN "try" ELSE @]

\* Mutant of FutexWake: the caller's own word is woken, not the peer's.
WakeOwn(e) ==
    /\ pc[e] = "wake"
    /\ pc' = Woken(e, [pc EXCEPT ![e] = "try"])
    /\ UNCHANGED <<ringVars, waiter, stores, closed, ipc>>

FutexWake(e) ==
    /\ pc[e] = "wake"
    /\ pc' = Woken(Other(e), [pc EXCEPT ![e] = "try"])
    /\ UNCHANGED <<ringVars, waiter, stores, closed, ipc>>
-----------------------------------------------------------------------------
\* interrupt(): closed is set first; then, per ring, both words are lowered
\* and both are woken, data before space.
InterruptClose ==
    /\ Interruptible /\ ipc = "idle"
    /\ closed' = 1 /\ ipc' = "lower_data"
    /\ UNCHANGED <<ringVars, waiter, stores, pc>>

InterruptLower(e, here, next) ==
    /\ ipc = here
    /\ waiter' = [waiter EXCEPT ![e] = 0]
    /\ ipc' = next
    /\ UNCHANGED <<ringVars, stores, closed, pc>>

InterruptWake(e, here, next) ==
    /\ ipc = here
    /\ pc' = Woken(e, pc)
    /\ ipc' = next
    /\ UNCHANGED <<ringVars, waiter, stores, closed>>

InterruptSteps ==
    \/ InterruptLower("reader", "lower_data", "lower_space")
    \/ InterruptLower("writer", "lower_space", "wake_data")
    \/ InterruptWake("reader", "wake_data", "wake_space")
    \/ InterruptWake("writer", "wake_space", "finished")
-----------------------------------------------------------------------------
\* What the thread of end e does by itself.
Run(e) ==
    \/ Transfer(e)
    \/ TransferFails(e)
    \/ Return(e)
    \/ RequireOpen(e)
    \/ Arm(e)
    \/ Recheck(e)
    \/ FutexWait(e)
    \/ Notify(e)
    \/ FutexWake(e)

Next ==
    \/ \E e \in Ends : Run(e) \/ Drain(e) \/ Eintr(e) \/ Timeout(e)
    \/ InterruptClose
    \/ InterruptSteps

Spec == Init /\ [][Next]_vars

\* Threads are scheduled, store buffers drain, timers expire and a started
\* interrupt() finishes.  Nobody has to interrupt, and no signal has to come.
Fairness ==
    /\ \A e \in Ends : WF_vars(Run(e)) /\ WF_vars(Drain(e)) /\ WF_vars(Timeout(e))
    /\ WF_vars(InterruptSteps)

FairSpec == Spec /\ Fairness
-----------------------------------------------------------------------------
EndLabels == {"try", "require_open", "arm", "recheck", "wait", "asleep", "notify",
              "wake", "done", "failed"}
InterruptLabels == {"idle", "lower_data", "lower_space", "wake_data", "wake_space",
                    "finished"}

\* The values the variables range over: the two waiter words and the closed
\* flag of the shared header are only ever 0 or 1.
TypeOK ==
    /\ queue \in Seq(Nat) /\ sent \in Nat /\ received \in Seq(Nat)
    /\ waiter \in [Ends -> {0, 1}]
    /\ stores \in [Ends -> Seq({0, 1})]
    /\ closed \in {0, 1}
    /\ pc \in [Ends -> EndLabels]
    /\ ipc \in InterruptLabels

\* The thread calling interrupt() is yet to wake end e.
WakePending(e) ==
    IF e = "reader" THEN ipc \in {"lower_data", "lower_space", "wake_data"}
    ELSE ipc \in {"lower_data", "lower_space", "wake_data", "wake_space"}

\* A side sleeps although the ring has what it waits for only while its wake
\* is on the way: the peer is between its transfer and FUTEX_WAKE, or an
\* interrupt is still to wake it.
NoLostWakeup ==
    \A e \in Ends :
        pc[e] = "asleep" /\ Ready(e) =>
            pc[Other(e)] \in {"notify", "wake"} \/ WakePending(e)

\* What makes it so, when stores are visible at once: a sleeping end's word is
\* up, or its wake is on the way; and a word that is still up although the
\* ring is ready has a peer about to lower it.
WakeInv ==
    /\ TypeOK
    /\ \A e \in Ends : stores[e] = <<>>
    /\ \A e \in Ends : pc[e] = "asleep" =>
           waiter[e] = 1 \/ pc[Other(e)] = "wake" \/ WakePending(e)
    /\ \A e \in Ends : pc[e] \in {"wait", "asleep"} /\ waiter[e] = 1 /\ Ready(e) =>
           pc[Other(e)] = "notify"

\* Unless the channel is closed, every chunk arrives and both calls return.
AllDelivered == <>(closed = 1 \/ (pc["writer"] = "done" /\ pc["reader"] = "done"))

\* A chunk in the ring is read, unless the channel is closed.
PushedIsRead ==
    \A k \in 1 .. Total : sent >= k ~> Len(received) >= k \/ closed = 1

\* An end that waits with a timeout leaves a closed channel.
TimedCloseReleases ==
    \A e \in Timed : closed = 1 ~> pc[e] \in {"done", "failed"}

\* interrupt() releases whoever is blocked in the channel.
CloseReleases ==
    closed = 1 ~> \A e \in Ends : pc[e] \in {"done", "failed"}
=============================================================================
