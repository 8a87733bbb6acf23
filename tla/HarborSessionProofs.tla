------------------------- MODULE HarborSessionProofs -------------------------
(***************************************************************************)
(* Proofs about the sessions between solvers and worker, for any number of *)
(* solvers, ranks, sessions and connections: both ends of a connection use *)
(* one plane and agree on one session, and the connections a worker serves *)
(* are the ranks of one run.                                               *)
(***************************************************************************)
EXTENDS HarborSession, FiniteSetTheorems, SequenceTheorems, TLAPS

\* The plane that the capabilities of a session lead both ends to.
PlaneOf(session) ==
    IF "ucx" \in session.capabilities THEN "ucx"
    ELSE IF "shm" \in session.capabilities THEN "shm" ELSE "socket"

Upgrading == {"shm_offer", "shm_ready", "attach", "ucx_offer", "ucx_accept", "ucx_ready"}

\* A solver that has announced its region or its UCX end sends nothing more over the
\* socket.
Announced == {"shm_switch", "ucx_switch", "ready", "failed"}

\* There is one session per connection, the one the worker made of the offer, and the
\* solver has it or nothing.
SessionKnown(c) ==
    /\ wsession[c] \in {NoSession, Select(offer[c])}
    /\ csession[c] \in {NoSession, wsession[c]}
    /\ wsession[c] = NoSession => toClient[c] = <<>>
    /\ wsession[c] # NoSession => cpc[c] \notin {"start", "hello"}
    /\ toClient[c] \in Seq({rune \in RuneType : rune.hello = wsession[c]})
    /\ csession[c] = NoSession => cpc[c] \in {"start", "hello", "reply", "failed"} /\ first[c] = "none"

\* The solver goes the way that session leads to.
PlaneFollowed(c) ==
    LET plane == PlaneOf(wsession[c])
    IN  /\ cpc[c] \in {"shm_offer", "shm_announce", "shm_switch"} => plane = "shm"
        /\ cpc[c] \in {"ucx_offer", "ucx_announce", "ucx_switch"} => plane = "ucx"
        /\ cpc[c] = "ready" => cplane[c] = plane
        /\ first[c] \in {"none", plane}

\* One rune at most waits in the socket for the worker, unless the socket is the plane:
\* the hello, and after an upgrade the announcement, which the worker takes last.
SocketDrained(c) ==
    /\ wsession[c] = NoSession =>
          \/ toWorker[c] = <<>>
          \/ toWorker[c] = <<Rune("hello", offer[c])>> /\ cpc[c] \in {"reply", "failed"}
    /\ wsession[c] # NoSession /\ PlaneOf(wsession[c]) # "socket" =>
          \/ toWorker[c] = <<>>
          \/ Len(toWorker[c]) = 1 /\ cpc[c] \in Announced /\ c \notin seated
    /\ /\ c \in seated \/ (c = current /\ wpc = "attach")
       /\ PlaneOf(wsession[c]) # "socket"
       => toWorker[c] = <<>> /\ cpc[c] \in Announced

\* The region exists from before it is announced until the solver ends.
RegionKept(c) ==
    /\ cpc[c] = "shm_announce" => region[c]
    /\ /\ wsession[c] # NoSession /\ PlaneOf(wsession[c]) = "shm"
       /\ toWorker[c] # <<>> \/ (c = current /\ wpc = "attach")
       => region[c] \/ cpc[c] = "failed"

ConnectionInv(c) == SessionKnown(c) /\ PlaneFollowed(c) /\ SocketDrained(c) /\ RegionKept(c)

\* Every connection is accepted once, and knows nothing of the worker before.
BacklogFresh ==
    /\ \A i, j \in 1 .. Len(backlog) : i # j => backlog[i] # backlog[j]
    /\ \A i \in 1 .. Len(backlog) :
          cpc[backlog[i]] # "start" /\ wsession[backlog[i]] = NoSession /\ backlog[i] \notin seated

\* What the worker knows of the connection it is busy with.
WorkerKnows ==
    /\ wpc \notin {"accept", "serving", "threw"} =>
          /\ current \in Clients \ seated /\ cpc[current] # "start"
          /\ \A i \in 1 .. Len(backlog) : backlog[i] # current
    /\ wpc = "hello" => wsession[current] = NoSession
    /\ wpc \in Upgrading \cup {"admit"} => wsession[current] # NoSession
    /\ wpc \in {"shm_offer", "shm_ready", "attach"} => PlaneOf(wsession[current]) = "shm"
    /\ wpc \in {"ucx_offer", "ucx_accept", "ucx_ready"} => PlaneOf(wsession[current]) = "ucx"

Admitted == seated \cup (IF wpc \in Upgrading THEN {current} ELSE {})

\* The connections admitted so far are ranks of the one session of identity.
RunKnown ==
    /\ \A c \in Admitted :
          /\ wsession[c] # NoSession
          /\ wsession[c].session = identity /\ wsession[c].rank \in ranks
    /\ \A c, d \in Admitted : c # d => wsession[c].rank # wsession[d].rank
    /\ \A c \in seated : wplane[c] = PlaneOf(wsession[c])

\* Connections are taken up to the number the worker was started for.
Counted ==
    /\ IsFiniteSet(seated) /\ Cardinality(seated) <= Connections
    /\ wpc = "serving" <=> Cardinality(seated) = Connections

IInv ==
    /\ Configured /\ WireTypeOK /\ ClientTypeOK /\ WorkerTypeOK /\ Counted
    /\ \A c \in Clients : ConnectionInv(c)
    /\ BacklogFresh /\ WorkerKnows /\ RunKnown
-----------------------------------------------------------------------------
\* What sending, receiving and a larger set of runes mean for a queue.
LEMMA QueueSteps ==
    ASSUME NEW S, NEW queue \in Seq(S)
    PROVE  /\ \A rune \in S : Append(queue, rune) \in Seq(S)
           /\ queue # <<>> => Head(queue) \in S /\ Tail(queue) \in Seq(S)
           /\ \A T : S \subseteq T => queue \in Seq(T)
OBVIOUS

LEMMA TailOfOne ==
    ASSUME NEW S, NEW queue \in Seq(S), Len(queue) = 1
    PROVE  Tail(queue) = <<>>
<1>1. Tail(queue) \in Seq(S) /\ Len(Tail(queue)) = 0
  OBVIOUS
<1> QED
  BY <1>1, EmptySeq

\* accept_session makes one session of an offer: it keeps identity and rank, and takes
\* of capabilities and payload what both ends can do.
LEMMA SelectedSession ==
    ASSUME Configured, NEW c \in Clients
    PROVE  LET session == Select(offer[c])
           IN  /\ session \in Hello /\ session # NoSession /\ session.session # 0
               /\ session.session = offer[c].session /\ session.rank = offer[c].rank
               /\ session.capabilities = offer[c].capabilities \cap support
               /\ session.payload = Min2(SolverLimit, WorkerLimit)
<1>1. offer[c] \in Hello /\ offer[c].payload = SolverLimit
  BY DEF Configured
<1>2. Min2(offer[c].payload, WorkerLimit) \in {SolverLimit, WorkerLimit}
  BY <1>1 DEF Min2
<1>3. /\ Select(offer[c]).session = offer[c].session /\ Select(offer[c]).rank = offer[c].rank
      /\ Select(offer[c]).capabilities = offer[c].capabilities \cap support
      /\ Select(offer[c]).payload = Min2(offer[c].payload, WorkerLimit)
  BY <1>1 DEF Select, Hello
<1>4. Select(offer[c]) \in Hello
  <2>1. /\ offer[c].capabilities \cap support \in SUBSET {"uds", "tcp", "shm", "ucx"}
        /\ offer[c].capabilities \in SUBSET {"uds", "tcp", "shm", "ucx"}
    BY <1>1 DEF Hello
  <2> QED
    BY <1>1, <1>2, <2>1 DEF Select, Hello
<1>5. Select(offer[c]).session # 0
  BY <1>1, <1>3, SessionsAssumption DEF Hello
<1> QED
  BY <1>1, <1>3, <1>4, <1>5 DEF NoSession

\* An address is of one kind, so that no session has two planes to choose from, and a
\* solver has UCX in its session only when it wants it.
LEMMA OnePlane ==
    ASSUME Configured, NEW c \in Clients
    PROVE  /\ "ucx" \in Select(offer[c]).capabilities => wants[c] = "ucx"
           /\ "shm" \in Select(offer[c]).capabilities => wants[c] = "shm"
<1>1. Select(offer[c]).capabilities \subseteq Capabilities(socket, wants[c])
  BY SelectedSession DEF Configured
<1> QED
  BY <1>1 DEF Capabilities, Configured

LEMMA InvariantInit == Init => IInv
<1> SUFFICES ASSUME Init PROVE IInv
  OBVIOUS
<1>1. WireTypeOK /\ ClientTypeOK
  BY DEF Init, WireTypeOK, ClientTypeOK, ClientLabels, SessionType, Planes
<1>2. WorkerTypeOK
  BY DEF Init, WorkerTypeOK, WorkerLabels, SessionType, Planes
<1>3. Counted
  BY ConnectionsAssumption, FS_EmptySet DEF Init, Counted
<1>4. ASSUME NEW c \in Clients PROVE ConnectionInv(c)
  <2>1. SessionKnown(c)
    BY DEF Init, SessionKnown
  <2>2. PlaneFollowed(c) /\ SocketDrained(c) /\ RegionKept(c)
    BY DEF Init, PlaneFollowed, SocketDrained, RegionKept
  <2> QED
    BY <2>1, <2>2 DEF ConnectionInv
<1>5. BacklogFresh /\ WorkerKnows /\ RunKnown
  BY DEF Init, BacklogFresh, WorkerKnows, RunKnown, Admitted, Upgrading
<1> QED
  BY <1>1, <1>2, <1>3, <1>4, <1>5 DEF IInv, Init
-----------------------------------------------------------------------------
(***************************************************************************)
(* Steps of a solver.                                                      *)
(***************************************************************************)
ClientMoves(c) == Connect(c) \/ Client(c) \/ Talk(c) \/ Leave(c) \/ Crash(c)

ToWorkerKinds == {"hello", "shm_ready", "ucx_ready", "tensor"}

\* All that a step of solver c may change.
ClientEffects(c) ==
    /\ UNCHANGED <<configVars, workerVars>>
    /\ \/ backlog' = backlog
       \/ cpc[c] = "start" /\ cpc'[c] # "start" /\ backlog' = Append(backlog, c)
    /\ cpc' = cpc \/ \E label \in ClientLabels \ {"start"} : cpc' = [cpc EXCEPT ![c] = label]
    /\ clientOpen' = clientOpen \/ \E open \in BOOLEAN : clientOpen' = [clientOpen EXCEPT ![c] = open]
    /\ region' = region \/ \E exists \in BOOLEAN : region' = [region EXCEPT ![c] = exists]
    /\ ucx' = ucx \/ ucx' = [ucx EXCEPT ![c] = "connected"]
    /\ \/ toWorker' = toWorker
       \/ \E kind \in ToWorkerKinds :
             toWorker' = [toWorker EXCEPT ![c] = Append(@, Rune(kind, offer[c]))]
    /\ \/ toClient' = toClient
       \/ toClient[c] # <<>> /\ toClient' = [toClient EXCEPT ![c] = Tail(@)]
    /\ \/ csession' = csession
       \/ toClient[c] # <<>> /\ csession' = [csession EXCEPT ![c] = Head(toClient[c]).hello]
    /\ cplane' = cplane \/ \E plane \in Planes : cplane' = [cplane EXCEPT ![c] = plane]
    /\ first' = first \/ first' = [first EXCEPT ![c] = cplane[c]]

LEMMA ClientChanges ==
    ASSUME WireTypeOK, ClientTypeOK, NEW c \in Clients, ClientMoves(c) PROVE ClientEffects(c)
<1> USE DEF ClientEffects, ClientThrows, ClientTo, ClientLabels, Connecting
<1>1. CASE Connect(c)
  BY <1>1 DEF Connect, ClientTypeOK
<1>2. ASSUME NEW here, NEW kind \in {"hello", "shm_ready", "ucx_ready"},
             NEW next \in {"reply", "shm_switch", "ucx_switch"}, ClientSends(c, here, kind, next)
      PROVE  ClientEffects(c)
  BY <1>2 DEF ClientSends, ToWorkerKinds
<1>3. CASE TakeReply(c)
  <2>1. NextAfterReply(c, Head(toClient[c]).hello) \in {"ready", "shm_offer", "ucx_offer", "failed"}
    BY DEF NextAfterReply
  <2>2. \E plane \in Planes : cplane' = [cplane EXCEPT ![c] = plane]
    BY <1>3 DEF TakeReply, Planes, ClientTypeOK
  <2> QED
    BY <1>3, <2>1, <2>2 DEF TakeReply, ClientReceives
<1>4. CASE TakeShmOffer(c) \/ TakeUcxOffer(c)
  BY <1>4 DEF TakeShmOffer, TakeUcxOffer, ClientReceives
<1>5. ASSUME NEW here, NEW plane \in {"shm", "ucx"}, Switch(c, here, plane) PROVE ClientEffects(c)
  <2>1. \E open \in BOOLEAN : clientOpen' = [clientOpen EXCEPT ![c] = open]
    <3>1. (plane = "shm") \in BOOLEAN
      OBVIOUS
    <3> QED
      BY <1>5, <3>1 DEF Switch
  <2>2. \E to \in Planes : cplane' = [cplane EXCEPT ![c] = to]
    BY <1>5 DEF Switch, Planes
  <2> QED
    BY <1>5, <2>1, <2>2 DEF Switch
<1>6. CASE ClientReadFails(c)
  BY <1>6 DEF ClientReadFails
<1>7. CASE Talk(c)
  <2>1. CASE cplane[c] = "socket"
    BY <1>7, <2>1 DEF Talk, ToWorkerKinds
  <2>2. CASE cplane[c] # "socket"
    BY <1>7, <2>2 DEF Talk, WireTypeOK
  <2> QED
    BY <2>1, <2>2
<1>8. CASE Leave(c) \/ Crash(c)
  BY <1>8 DEF Leave, Crash
<1> QED
  BY <1>1, <1>2, <1>3, <1>4, <1>5, <1>6, <1>7, <1>8 DEF ClientMoves, Client

LEMMA ClientTypes ==
    ASSUME IInv, NEW c \in Clients, ClientEffects(c)
    PROVE  Configured' /\ WireTypeOK' /\ ClientTypeOK' /\ WorkerTypeOK' /\ Counted'
<1>1. Configured' /\ Counted'
  BY DEF IInv, Configured, Counted, ClientEffects, configVars, workerVars
<1>2. WorkerTypeOK'
  BY DEF IInv, WorkerTypeOK, ClientEffects, workerVars
<1>3. /\ toWorker \in [Clients -> Seq(RuneType)] /\ toClient \in [Clients -> Seq(RuneType)]
      /\ toWorker[c] \in Seq(RuneType) /\ toClient[c] \in Seq(RuneType)
  BY DEF IInv, WireTypeOK
<1>4. WireTypeOK'
  <2>1. ASSUME NEW kind \in ToWorkerKinds PROVE Rune(kind, offer[c]) \in RuneType
    BY DEF IInv, Configured, ToWorkerKinds, Rune, RuneType, SessionType
  <2>2. toWorker' \in [Clients -> Seq(RuneType)]
    <3>1. \/ toWorker' = toWorker
          \/ \E rune \in RuneType : toWorker' = [toWorker EXCEPT ![c] = Append(@, rune)]
      BY <2>1 DEF ClientEffects
    <3> QED
      BY <1>3, <3>1, QueueSteps
  <2>3. toClient' \in [Clients -> Seq(RuneType)]
    <3>1. \/ toClient' = toClient
          \/ toClient[c] # <<>> /\ toClient' = [toClient EXCEPT ![c] = Tail(@)]
      BY DEF ClientEffects
    <3> QED
      BY <1>3, <3>1, QueueSteps
  <2>4. clientOpen' \in [Clients -> BOOLEAN] /\ region' \in [Clients -> BOOLEAN]
    BY DEF IInv, WireTypeOK, ClientEffects
  <2>5. ucx' \in [Clients -> {"none", "listening", "connected"}]
    BY DEF IInv, WireTypeOK, ClientEffects
  <2> QED
    BY <2>2, <2>3, <2>4, <2>5 DEF WireTypeOK
<1>5. ClientTypeOK'
  <2>1. toClient[c] # <<>> => Head(toClient[c]).hello \in SessionType
    BY <1>3, QueueSteps DEF RuneType
  <2>2. csession' \in [Clients -> SessionType]
    BY <2>1 DEF IInv, ClientTypeOK, ClientEffects
  <2>3. cpc' \in [Clients -> ClientLabels]
    BY DEF IInv, ClientTypeOK, ClientEffects
  <2>4. cplane' \in [Clients -> Planes] /\ first' \in [Clients -> Planes]
    BY DEF IInv, ClientTypeOK, ClientEffects
  <2> QED
    BY <2>2, <2>3, <2>4 DEF ClientTypeOK
<1> QED
  BY <1>1, <1>2, <1>4, <1>5
\* What ConnectionInv(c) reads, unchanged.
SameConnection(c) ==
    /\ UNCHANGED <<offer[c], wsession[c], csession[c], toClient[c], toWorker[c], cpc[c], cplane[c],
                   first[c], region[c]>>
    /\ (c \in seated)' = (c \in seated)
    /\ (c = current /\ wpc = "attach")' = (c = current /\ wpc = "attach")

LEMMA SameConnectionKeeps ==
    ASSUME NEW c \in Clients, ConnectionInv(c), SameConnection(c),
           UNCHANGED <<support>>
    PROVE  ConnectionInv(c)'
<1> USE DEF SameConnection, ConnectionInv
<1>1. Select(offer[c])' = Select(offer[c])
  BY DEF Select
<1>2. SessionKnown(c)'
  BY <1>1 DEF SessionKnown
<1>3. PlaneFollowed(c)'
  BY DEF PlaneFollowed
<1>4. SocketDrained(c)'
  BY DEF SocketDrained, Rune
<1>5. RegionKept(c)'
  BY DEF RegionKept
<1> QED
  BY <1>2, <1>3, <1>4, <1>5

LEMMA OtherClients ==
    ASSUME IInv, NEW c \in Clients, ClientEffects(c), NEW d \in Clients \ {c}
    PROVE  ConnectionInv(d)'
<1>1. UNCHANGED <<support, offer, seated, current, wpc, wsession>>
  BY DEF ClientEffects, configVars, workerVars
<1>2. UNCHANGED <<csession[d], cpc[d], cplane[d], first[d]>>
  BY DEF IInv, ClientTypeOK, ClientEffects
<1>3. UNCHANGED <<toClient[d], toWorker[d], region[d]>>
  BY DEF IInv, WireTypeOK, ClientEffects
<1>4. SameConnection(d)
  BY <1>1, <1>2, <1>3 DEF SameConnection
<1> QED
  BY <1>1, <1>4, SameConnectionKeeps DEF IInv

\* What the solver's steps leave of what is said about all connections.
LEMMA ClientKeepsRun ==
    ASSUME IInv, NEW c \in Clients, ClientEffects(c)
    PROVE  BacklogFresh' /\ WorkerKnows' /\ RunKnown'
<1>1. UNCHANGED <<support, offer, seated, current, wpc, wsession, wplane, ranks, identity>>
  BY DEF ClientEffects, configVars, workerVars
<1>2. RunKnown'
  BY <1>1 DEF IInv, RunKnown, Admitted, PlaneOf
<1>3. \A d \in Clients : cpc[d] # "start" => cpc'[d] # "start"
  BY DEF IInv, ClientTypeOK, ClientEffects
<1>4. cpc[c] = "start" => wsession[c] = NoSession /\ c \notin seated
  BY DEF IInv, ConnectionInv, SessionKnown, RunKnown, Admitted
<1>5. backlog \in Seq(Clients)
  BY DEF IInv, WorkerTypeOK
<1>6. CASE backlog' = backlog
  BY <1>1, <1>2, <1>3, <1>5, <1>6 DEF IInv, BacklogFresh, WorkerKnows, PlaneOf
<1>7. CASE backlog' # backlog
  <2>1. cpc[c] = "start" /\ backlog' = Append(backlog, c) /\ cpc'[c] # "start"
    BY <1>7 DEF ClientEffects
  <2> QED
    BY <1>1, <1>2, <1>3, <1>4, <1>5, <2>1 DEF IInv, BacklogFresh, WorkerKnows, PlaneOf
<1> QED
  BY <1>6, <1>7
\* A solver that has ended asks nothing of its connection any more.
LEMMA FailedKeeps ==
    ASSUME IInv, NEW c \in Clients, ClientEffects(c), cpc'[c] = "failed",
           UNCHANGED <<toWorker, first>>
    PROVE  ConnectionInv(c)'
<1>1. ConnectionInv(c) /\ toClient \in [Clients -> Seq(RuneType)] /\ csession \in [Clients -> SessionType]
  BY DEF IInv, WireTypeOK, ClientTypeOK
<1>2. UNCHANGED <<support, offer, seated, current, wpc, wsession>>
  BY DEF ClientEffects, configVars, workerVars
<1>3. toClient'[c] = toClient[c] \/ (toClient[c] # <<>> /\ toClient'[c] = Tail(toClient[c]))
  BY <1>1 DEF ClientEffects
<1>4. csession'[c] = csession[c] \/ (toClient[c] # <<>> /\ csession'[c] = Head(toClient[c]).hello)
  BY <1>1 DEF ClientEffects
<1>5. csession'[c] \in {NoSession, wsession[c]}
  BY <1>1, <1>4, QueueSteps DEF ConnectionInv, SessionKnown
<1>6. /\ toClient'[c] \in Seq({rune \in RuneType : rune.hello = wsession[c]})
      /\ wsession[c] = NoSession => toClient'[c] = <<>>
  BY <1>1, <1>3, QueueSteps DEF ConnectionInv, SessionKnown
<1>7. csession'[c] = NoSession => first[c] = "none"
  <2>1. csession[c] # NoSession => csession'[c] # NoSession
    BY <1>1, <1>4, QueueSteps DEF ConnectionInv, SessionKnown
  <2> QED
    BY <1>1, <2>1 DEF ConnectionInv, SessionKnown
<1>8. Select(offer[c])' = Select(offer[c])
  BY <1>2 DEF Select
<1>9. SessionKnown(c)'
  BY <1>1, <1>2, <1>5, <1>6, <1>7, <1>8 DEF ConnectionInv, SessionKnown
<1>10. PlaneFollowed(c)' /\ RegionKept(c)'
  BY <1>1, <1>2 DEF ConnectionInv, PlaneFollowed, RegionKept
<1>11. SocketDrained(c)'
  BY <1>1, <1>2 DEF ConnectionInv, SocketDrained, Rune, Announced
<1> QED
  BY <1>9, <1>10, <1>11 DEF ConnectionInv

\* The hello, the announcement of an upgrade, or a tensor.
LEMMA SendKeeps ==
    ASSUME IInv, NEW c \in Clients, ClientEffects(c),
           \/ ClientSends(c, "hello", "hello", "reply")
           \/ ClientSends(c, "shm_announce", "shm_ready", "shm_switch")
           \/ ClientSends(c, "ucx_announce", "ucx_ready", "ucx_switch")
           \/ Talk(c)
    PROVE  ConnectionInv(c)'
<1>1. /\ ConnectionInv(c) /\ toWorker \in [Clients -> Seq(RuneType)] /\ cpc \in [Clients -> ClientLabels]
      /\ first \in [Clients -> Planes] /\ cplane[c] \in Planes /\ region \in [Clients -> BOOLEAN]
  BY DEF IInv, WireTypeOK, ClientTypeOK
<1>2. UNCHANGED <<support, offer, seated, current, wpc, wsession>>
  BY DEF ClientEffects, configVars, workerVars
<1>3. Select(offer[c])' = Select(offer[c])
  BY <1>2 DEF Select
<1>4. ASSUME NEW here, NEW kind, NEW next, ClientSends(c, here, kind, next), cpc'[c] # "failed"
      PROVE  /\ cpc[c] = here /\ cpc'[c] = next
             /\ toWorker'[c] = Append(toWorker[c], Rune(kind, offer[c]))
             /\ UNCHANGED <<toClient, csession, cplane, first, region>>
  BY <1>1, <1>4 DEF ClientSends, ClientTo, ClientThrows
<1>5. ASSUME NEW here, NEW kind, NEW next, ClientSends(c, here, kind, next), cpc'[c] = "failed",
             next # "failed"
      PROVE  ConnectionInv(c)'
  BY <1>1, <1>5, FailedKeeps DEF ClientSends, ClientTo, ClientThrows
<1>6. CASE ClientSends(c, "hello", "hello", "reply")
  <2>1. CASE cpc'[c] # "failed"
    <3>1. wsession[c] = NoSession /\ toWorker[c] = <<>> /\ c \notin seated
      BY <1>1, <1>4, <1>6, <2>1 DEF IInv, ConnectionInv, SessionKnown, SocketDrained, RunKnown, Admitted
    <3>2. toWorker'[c] = <<Rune("hello", offer[c])>> /\ cpc'[c] = "reply"
      BY <1>4, <1>6, <2>1, <3>1
    <3>3. SessionKnown(c)' /\ PlaneFollowed(c)'
      BY <1>1, <1>2, <1>3, <1>4, <1>6, <2>1, <3>1 DEF ConnectionInv, SessionKnown, PlaneFollowed
    <3>4. SocketDrained(c)'
      BY <1>1, <1>2, <3>1, <3>2 DEF IInv, ConnectionInv, SocketDrained, Rune, WorkerKnows, Upgrading
    <3>5. RegionKept(c)'
      BY <1>2, <3>1, <3>2 DEF RegionKept
    <3> QED
      BY <3>3, <3>4, <3>5 DEF ConnectionInv
  <2> QED
    BY <1>5, <1>6, <2>1
<1>7. CASE \/ ClientSends(c, "shm_announce", "shm_ready", "shm_switch")
           \/ ClientSends(c, "ucx_announce", "ucx_ready", "ucx_switch")
  <2>1. CASE cpc'[c] # "failed"
    <3>1. /\ \/ cpc[c] = "shm_announce" /\ cpc'[c] = "shm_switch"
             \/ cpc[c] = "ucx_announce" /\ cpc'[c] = "ucx_switch"
          /\ \E rune : toWorker'[c] = Append(toWorker[c], rune)
          /\ UNCHANGED <<toClient, csession, cplane, first, region>>
      BY <1>4, <1>7, <2>1
    <3>2. PlaneOf(wsession[c]) # "socket" /\ wsession[c] # NoSession /\ toWorker[c] = <<>> /\ c \notin seated
      <4>1. PlaneOf(wsession[c]) # "socket"
        BY <1>1, <3>1 DEF ConnectionInv, PlaneFollowed
      <4>2. wsession[c] # NoSession
        BY <1>1, <3>1 DEF ConnectionInv, SessionKnown
      <4> QED
        BY <1>1, <3>1, <4>1, <4>2 DEF ConnectionInv, SocketDrained, Announced
    <3>3. ~(c = current /\ wpc = "attach")
      BY <1>1, <3>1, <3>2 DEF ConnectionInv, SocketDrained, Announced
    <3>4. Len(toWorker'[c]) = 1
      <4>1. PICK rune : toWorker'[c] = Append(<<>>, rune)
        BY <3>1, <3>2
      <4> QED
        BY <4>1
    <3>5. SessionKnown(c)' /\ PlaneFollowed(c)'
      BY <1>1, <1>2, <1>3, <3>1 DEF ConnectionInv, SessionKnown, PlaneFollowed
    <3>6. SocketDrained(c)'
      BY <1>2, <3>1, <3>2, <3>3, <3>4 DEF SocketDrained, Announced
    <3>7. RegionKept(c)'
      BY <1>1, <1>2, <3>1 DEF ConnectionInv, PlaneFollowed, RegionKept
    <3> QED
      BY <3>5, <3>6, <3>7 DEF ConnectionInv
  <2> QED
    BY <1>5, <1>7, <2>1
<1>8. CASE Talk(c)
  <2>1. /\ cpc[c] = "ready" /\ first'[c] = cplane[c] /\ UNCHANGED <<cpc, cplane, csession, toClient, region>>
        /\ cplane[c] # "socket" => toWorker'[c] = toWorker[c]
    BY <1>1, <1>8 DEF Talk
  <2>2. csession[c] # NoSession /\ wsession[c] # NoSession /\ cplane[c] = PlaneOf(wsession[c])
    BY <1>1, <2>1 DEF ConnectionInv, SessionKnown, PlaneFollowed
  <2>3. SessionKnown(c)' /\ PlaneFollowed(c)'
    BY <1>1, <1>2, <1>3, <2>1, <2>2 DEF ConnectionInv, SessionKnown, PlaneFollowed
  <2>4. SocketDrained(c)'
    BY <1>1, <1>2, <2>1, <2>2 DEF ConnectionInv, SocketDrained
  <2>5. RegionKept(c)'
    BY <1>1, <1>2, <2>1, <2>2 DEF ConnectionInv, RegionKept
  <2> QED
    BY <2>3, <2>4, <2>5 DEF ConnectionInv
<1> QED
  BY <1>6, <1>7, <1>8

\* Everything else a solver does while it goes on.
LEMMA ReceiveKeeps ==
    ASSUME IInv, NEW c \in Clients, ClientEffects(c), cpc'[c] # "failed",
           \/ Connect(c) \/ TakeReply(c) \/ TakeShmOffer(c) \/ TakeUcxOffer(c)
           \/ Switch(c, "shm_switch", "shm") \/ Switch(c, "ucx_switch", "ucx")
    PROVE  ConnectionInv(c)'
<1>1. /\ ConnectionInv(c) /\ toClient \in [Clients -> Seq(RuneType)] /\ cpc \in [Clients -> ClientLabels]
      /\ csession \in [Clients -> SessionType] /\ cplane \in [Clients -> Planes]
      /\ region \in [Clients -> BOOLEAN]
  BY DEF IInv, WireTypeOK, ClientTypeOK
<1>2. UNCHANGED <<support, offer, wants, seated, current, wpc, wsession>>
  BY DEF ClientEffects, configVars, workerVars
<1>3. Select(offer[c])' = Select(offer[c])
  BY <1>2 DEF Select
<1>4. UNCHANGED <<toWorker, first>>
  BY DEF Connect, TakeReply, TakeShmOffer, TakeUcxOffer, Switch
<1>5. CASE Connect(c)
  <2>1. cpc[c] = "start" /\ cpc'[c] = "hello" /\ UNCHANGED <<toClient, csession, cplane, region>>
    BY <1>1, <1>5 DEF Connect, ClientTo
  <2>2. SessionKnown(c)' /\ PlaneFollowed(c)'
    BY <1>1, <1>2, <1>3, <1>4, <2>1 DEF ConnectionInv, SessionKnown, PlaneFollowed
  <2>3. SocketDrained(c)' /\ RegionKept(c)'
    BY <1>1, <1>2, <1>4, <2>1 DEF ConnectionInv, SessionKnown, SocketDrained, RegionKept, Rune, Announced
  <2> QED
    BY <2>2, <2>3 DEF ConnectionInv
<1>6. CASE TakeReply(c)
  <2> DEFINE selected == Head(toClient[c]).hello
             next == NextAfterReply(c, selected)
  <2>1. /\ cpc[c] = "reply" /\ toClient[c] # <<>> /\ toClient'[c] = Tail(toClient[c])
        /\ csession'[c] = selected /\ cpc'[c] = next /\ next # "failed"
        /\ cplane'[c] = (IF next = "ready" THEN "socket" ELSE cplane[c])
        /\ region' = region
    <3>1. Acceptable(c, selected) /\ next # "failed"
      BY <1>1, <1>6 DEF TakeReply, ClientThrows, ClientTo
    <3> QED
      BY <1>1, <1>6, <3>1 DEF TakeReply, ClientReceives, ClientThrows, ClientTo
  <2>2. selected = wsession[c] /\ wsession[c] = Select(offer[c]) /\ wsession[c] # NoSession
    BY <1>1, <2>1, QueueSteps DEF ConnectionInv, SessionKnown
  <2>3. \/ next = "ready" /\ PlaneOf(wsession[c]) = "socket"
        \/ next = "shm_offer" /\ PlaneOf(wsession[c]) = "shm"
        \/ next = "ucx_offer" /\ PlaneOf(wsession[c]) = "ucx"
    BY <2>1, <2>2, OnePlane DEF IInv, NextAfterReply, PlaneOf
  <2>4. SessionKnown(c)'
    BY <1>1, <1>2, <1>3, <1>4, <2>1, <2>2, <2>3, QueueSteps DEF ConnectionInv, SessionKnown
  <2>5. PlaneFollowed(c)'
    BY <1>1, <1>2, <1>4, <2>1, <2>3 DEF ConnectionInv, PlaneFollowed
  <2>6. SocketDrained(c)' /\ RegionKept(c)'
    BY <1>1, <1>2, <1>4, <2>1, <2>2, <2>3
       DEF ConnectionInv, SocketDrained, RegionKept, Announced
  <2> QED
    BY <2>4, <2>5, <2>6 DEF ConnectionInv
<1>7. CASE TakeShmOffer(c) \/ TakeUcxOffer(c)
  <2>1. /\ \/ cpc[c] = "shm_offer" /\ cpc'[c] = "shm_announce" /\ region'[c]
           \/ cpc[c] = "ucx_offer" /\ cpc'[c] = "ucx_announce" /\ region' = region
        /\ toClient[c] # <<>> /\ toClient'[c] = Tail(toClient[c])
        /\ UNCHANGED <<csession, cplane>>
    BY <1>1, <1>7 DEF TakeShmOffer, TakeUcxOffer, ClientReceives, ClientTo, ClientThrows
  <2>2. SessionKnown(c)'
    BY <1>1, <1>2, <1>3, <1>4, <2>1, QueueSteps DEF ConnectionInv, SessionKnown
  <2>3. PlaneFollowed(c)'
    BY <1>1, <1>2, <1>4, <2>1 DEF ConnectionInv, PlaneFollowed
  <2>4. SocketDrained(c)' /\ RegionKept(c)'
    BY <1>1, <1>2, <1>4, <2>1 DEF ConnectionInv, SessionKnown, PlaneFollowed, SocketDrained, RegionKept,
                                  Announced
  <2> QED
    BY <2>2, <2>3, <2>4 DEF ConnectionInv
<1>8. CASE Switch(c, "shm_switch", "shm") \/ Switch(c, "ucx_switch", "ucx")
  <2>1. /\ \/ cpc[c] = "shm_switch" /\ cplane'[c] = "shm"
           \/ cpc[c] = "ucx_switch" /\ cplane'[c] = "ucx"
        /\ cpc'[c] = "ready" /\ UNCHANGED <<toClient, csession, region>>
    BY <1>1, <1>8 DEF Switch, ClientTo
  <2>2. SessionKnown(c)'
    BY <1>1, <1>2, <1>3, <1>4, <2>1 DEF ConnectionInv, SessionKnown
  <2>3. PlaneFollowed(c)'
    BY <1>1, <1>2, <1>4, <2>1 DEF ConnectionInv, PlaneFollowed
  <2>4. SocketDrained(c)' /\ RegionKept(c)'
    BY <1>1, <1>2, <1>4, <2>1 DEF ConnectionInv, SessionKnown, SocketDrained, RegionKept, Announced
  <2> QED
    BY <2>2, <2>3, <2>4 DEF ConnectionInv
<1> QED
  BY <1>5, <1>6, <1>7, <1>8

LEMMA ClientStep == ASSUME IInv, NEW c \in Clients, ClientMoves(c) PROVE IInv'
<1>1. ClientEffects(c)
  BY ClientChanges DEF IInv
<1>2. Configured' /\ WireTypeOK' /\ ClientTypeOK' /\ WorkerTypeOK' /\ Counted'
  BY <1>1, ClientTypes
<1>3. ConnectionInv(c)'
  <2>1. ClientReadFails(c) \/ Leave(c) \/ Crash(c) => cpc'[c] = "failed" /\ UNCHANGED <<toWorker, first>>
    BY DEF ClientReadFails, Leave, Crash, ClientThrows, ClientTo, IInv, ClientTypeOK
  <2>2. \/ Connect(c) \/ TakeReply(c) \/ TakeShmOffer(c) \/ TakeUcxOffer(c)
        \/ Switch(c, "shm_switch", "shm") \/ Switch(c, "ucx_switch", "ucx")
        => UNCHANGED <<toWorker, first>>
    BY DEF Connect, TakeReply, TakeShmOffer, TakeUcxOffer, Switch
  <2> QED
    BY <1>1, <2>1, <2>2, FailedKeeps, SendKeeps, ReceiveKeeps DEF ClientMoves, Client
<1>4. \A d \in Clients \ {c} : ConnectionInv(d)'
  BY <1>1, OtherClients
<1>5. BacklogFresh' /\ WorkerKnows' /\ RunKnown'
  BY <1>1, ClientKeepsRun
<1> QED
  BY <1>2, <1>3, <1>4, <1>5 DEF IInv
-----------------------------------------------------------------------------
(***************************************************************************)
(* Steps of the worker.                                                    *)
(***************************************************************************)

\* Throwing changes nothing but where the worker is.
Threw ==
    /\ wpc \notin {"serving", "threw"} /\ wpc' = "threw"
    /\ UNCHANGED <<configVars, wireVars, clientVars, backlog, current, wsession, wplane, ranks,
                   identity, seated>>

LEMMA ThrewKeeps == ASSUME IInv, Threw PROVE IInv'
<1> USE DEF Threw, configVars, wireVars, clientVars
<1>1. Configured' /\ WireTypeOK' /\ ClientTypeOK'
  BY DEF IInv, Configured, WireTypeOK, ClientTypeOK
<1>2. WorkerTypeOK' /\ Counted'
  BY DEF IInv, WorkerTypeOK, Counted, WorkerLabels
<1>3. ASSUME NEW c \in Clients PROVE ConnectionInv(c)'
  <2>1. ConnectionInv(c)
    BY DEF IInv
  <2>2. Select(offer[c])' = Select(offer[c])
    BY DEF Select
  <2>3. SessionKnown(c)' /\ PlaneFollowed(c)'
    BY <2>1, <2>2 DEF ConnectionInv, SessionKnown, PlaneFollowed
  <2>4. SocketDrained(c)' /\ RegionKept(c)'
    BY <2>1 DEF ConnectionInv, SocketDrained, RegionKept, Rune
  <2> QED
    BY <2>3, <2>4 DEF ConnectionInv
<1>4. BacklogFresh' /\ WorkerKnows' /\ RunKnown'
  BY DEF IInv, BacklogFresh, WorkerKnows, RunKnown, Admitted, Upgrading, PlaneOf
<1> QED
  BY <1>1, <1>2, <1>3, <1>4 DEF IInv

LEMMA AcceptKeeps == ASSUME IInv, Accept PROVE IInv'
<1> USE DEF Accept, WorkerTo, configVars, wireVars, clientVars
<1>1. /\ backlog \in Seq(Clients) /\ backlog # <<>> /\ current' = backlog[1]
      /\ current' \in Clients /\ backlog' \in Seq(Clients) /\ Len(backlog) \in Nat \ {0}
      /\ Len(backlog') = Len(backlog) - 1
      /\ \A i \in 1 .. Len(backlog') : backlog'[i] = backlog[i + 1]
  BY DEF IInv, WorkerTypeOK
<1>2. Configured' /\ WireTypeOK' /\ ClientTypeOK' /\ Counted'
  BY DEF IInv, Configured, WireTypeOK, ClientTypeOK, Counted
<1>3. WorkerTypeOK'
  BY <1>1 DEF IInv, WorkerTypeOK, WorkerLabels
<1>4. ASSUME NEW c \in Clients PROVE ConnectionInv(c)'
  BY SameConnectionKeeps DEF IInv, SameConnection
<1>5. BacklogFresh'
  BY <1>1 DEF IInv, BacklogFresh
<1>6. WorkerKnows'
  BY <1>1 DEF IInv, BacklogFresh, WorkerKnows, Upgrading
<1>7. RunKnown'
  BY DEF IInv, RunKnown, Admitted, Upgrading, PlaneOf
<1> QED
  BY <1>2, <1>3, <1>4, <1>5, <1>6, <1>7 DEF IInv

ToClientKinds == {"hello_accept", "shm_offer", "ucx_offer"}

\* All that a step of the worker may change that goes on with its current connection.
WorkerEffects(c) ==
    /\ UNCHANGED <<configVars, clientVars, clientOpen, region, backlog, current>>
    /\ toWorker' = toWorker \/ (toWorker[c] # <<>> /\ toWorker' = [toWorker EXCEPT ![c] = Tail(@)])
    /\ \/ toClient' = toClient
       \/ \E kind \in ToClientKinds :
             toClient' = [toClient EXCEPT ![c] = Append(@, Rune(kind, wsession'[c]))]
    /\ ucx' = ucx \/ ucx' = [ucx EXCEPT ![c] = "listening"]
    /\ wsession' = wsession \/ wsession' = [wsession EXCEPT ![c] = Select(offer[c])]
    /\ \/ seated' = seated /\ wplane' = wplane /\ wpc' \in WorkerLabels \ {"serving"}
       \/ /\ wplane' = [wplane EXCEPT ![c] = PlaneOf(wsession[c])] /\ seated' = seated \cup {c}
          /\ wpc' = IF Cardinality(seated) + 1 = Connections THEN "serving" ELSE "accept"
    /\ \/ ranks' = ranks /\ identity' = identity
       \/ /\ wpc = "admit"
          /\ ranks' = ranks \cup {wsession[c].rank} /\ identity' = wsession[c].session

WorkerGoesOn ==
    \/ TakeHello \/ Admit \/ OfferShm \/ TakeShmReady \/ Attach \/ OfferUcx \/ AcceptUcx
    \/ TakeUcxReady

LEMMA WorkerChanges ==
    ASSUME IInv, WorkerGoesOn, wpc' # "threw"
    PROVE  /\ WorkerEffects(current)
           /\ current \in Clients \ seated /\ wpc \notin {"accept", "serving", "threw"}
<1> DEFINE c == current
<1>1. wpc \notin {"accept", "serving", "threw"}
  BY DEF WorkerGoesOn, TakeHello, Admit, OfferShm, TakeShmReady, Attach, OfferUcx, AcceptUcx,
         TakeUcxReady, WorkerReceives
<1>2. c \in Clients \ seated
  BY <1>1 DEF IInv, WorkerKnows
<1>3. /\ wsession \in [Clients -> SessionType] /\ toWorker \in [Clients -> Seq(RuneType)]
      /\ ConnectionInv(c)
  BY <1>2 DEF IInv, WorkerTypeOK, WireTypeOK
<1> USE DEF WorkerEffects, WorkerTo, wireVars, clientVars, WorkerSends, ToClientKinds, WorkerLabels
<1>4. CASE TakeHello
  <2>1. toWorker[c] = <<Rune("hello", offer[c])>>
    BY <1>3, <1>4 DEF IInv, WorkerKnows, ConnectionInv, SocketDrained, TakeHello, WorkerReceives
  <2>2. Head(toWorker[c]).hello = offer[c]
    BY <2>1 DEF Rune
  <2>3. wsession' = [wsession EXCEPT ![c] = Select(offer[c])] /\ wsession'[c] = Select(offer[c])
    BY <1>2, <1>3, <1>4, <2>2 DEF TakeHello
  <2> QED
    BY <1>1, <1>2, <1>4, <2>2, <2>3 DEF TakeHello, WorkerReceives
<1>5. CASE Admit
  <2>1. Admissible(wsession[c])
    BY <1>5 DEF Admit
  <2>2. CASE "ucx" \in wsession[c].capabilities \/ "shm" \in wsession[c].capabilities
    BY <1>1, <1>2, <1>5, <2>1, <2>2 DEF Admit
  <2>3. CASE "ucx" \notin wsession[c].capabilities /\ "shm" \notin wsession[c].capabilities
    <3>1. Seat("socket") /\ PlaneOf(wsession[c]) = "socket"
      BY <1>5, <2>1, <2>3 DEF Admit, PlaneOf
    <3> QED
      BY <1>1, <1>2, <1>5, <2>1, <3>1 DEF Admit, Seat
  <2> QED
    BY <2>2, <2>3
<1>6. CASE OfferShm \/ OfferUcx
  BY <1>1, <1>2, <1>6 DEF OfferShm, OfferUcx
<1>7. CASE TakeShmReady
  BY <1>1, <1>2, <1>7 DEF TakeShmReady, WorkerReceives
<1>8. CASE Attach
  <2>1. Seat("shm") /\ PlaneOf(wsession[c]) = "shm"
    BY <1>8 DEF Attach, IInv, WorkerKnows
  <2> QED
    BY <1>1, <1>2, <1>8, <2>1 DEF Attach, Seat
<1>9. CASE AcceptUcx
  BY <1>1, <1>2, <1>9 DEF AcceptUcx
<1>10. CASE TakeUcxReady
  <2>1. PlaneOf(wsession[c]) = "ucx"
    BY <1>10 DEF TakeUcxReady, WorkerReceives, IInv, WorkerKnows
  <2> QED
    BY <1>1, <1>2, <1>10, <2>1 DEF TakeUcxReady, WorkerReceives, Seat
<1> QED
  BY <1>4, <1>5, <1>6, <1>7, <1>8, <1>9, <1>10 DEF WorkerGoesOn

LEMMA WorkerTypes ==
    ASSUME IInv, NEW c \in Clients \ seated, c = current, WorkerEffects(c),
           wpc \notin {"accept", "serving", "threw"}
    PROVE  Configured' /\ WireTypeOK' /\ ClientTypeOK' /\ WorkerTypeOK' /\ Counted'
<1>1. Configured' /\ ClientTypeOK'
  BY DEF IInv, Configured, ClientTypeOK, WorkerEffects, configVars, clientVars
<1>2. Select(offer[c]) \in Hello
  BY SelectedSession DEF IInv
<1>3. wsession \in [Clients -> SessionType] /\ wsession[c] \in SessionType
  BY DEF IInv, WorkerTypeOK
<1>4. wsession' \in [Clients -> SessionType] /\ wsession'[c] \in SessionType
  BY <1>2, <1>3 DEF WorkerEffects, SessionType
<1>5. WireTypeOK'
  <2>1. /\ toWorker \in [Clients -> Seq(RuneType)] /\ toClient \in [Clients -> Seq(RuneType)]
        /\ toWorker[c] \in Seq(RuneType) /\ toClient[c] \in Seq(RuneType)
    BY DEF IInv, WireTypeOK
  <2>2. toWorker' \in [Clients -> Seq(RuneType)]
    <3>1. toWorker' = toWorker \/ (toWorker[c] # <<>> /\ toWorker' = [toWorker EXCEPT ![c] = Tail(@)])
      BY DEF WorkerEffects
    <3> QED
      BY <2>1, <3>1, QueueSteps
  <2>3. toClient' \in [Clients -> Seq(RuneType)]
    <3>1. \/ toClient' = toClient
          \/ \E rune \in RuneType : toClient' = [toClient EXCEPT ![c] = Append(@, rune)]
      BY <1>4 DEF WorkerEffects, Rune, RuneType, ToClientKinds
    <3> QED
      BY <2>1, <3>1, QueueSteps
  <2>4. ucx' \in [Clients -> {"none", "listening", "connected"}]
    BY DEF IInv, WireTypeOK, WorkerEffects
  <2>5. clientOpen' \in [Clients -> BOOLEAN] /\ region' \in [Clients -> BOOLEAN]
    BY DEF IInv, WireTypeOK, WorkerEffects
  <2> QED
    BY <2>2, <2>3, <2>4, <2>5 DEF WireTypeOK
<1>6. WorkerTypeOK'
  <2>1. wpc' \in WorkerLabels
    BY DEF WorkerEffects, WorkerLabels
  <2>2. wplane' \in [Clients -> Planes] /\ seated' \subseteq Clients
    BY DEF IInv, WorkerTypeOK, WorkerEffects, PlaneOf, Planes
  <2>3. wpc = "admit" => wsession[c] \in Hello
    BY <1>3 DEF IInv, WorkerKnows, SessionType
  <2>4. ranks' \subseteq 0 .. Peers - 1 /\ identity' \in Sessions \cup {0}
    BY <2>3 DEF IInv, WorkerTypeOK, WorkerEffects, Hello
  <2>5. backlog' \in Seq(Clients) /\ current' \in Clients \cup {Nobody}
    BY DEF IInv, WorkerTypeOK, WorkerEffects
  <2> QED
    BY <1>4, <2>1, <2>2, <2>4, <2>5 DEF WorkerTypeOK
<1>7. Counted'
  <2>1. IsFiniteSet(seated) /\ Cardinality(seated) \in Nat /\ Cardinality(seated) < Connections
    <3>1. IsFiniteSet(seated) /\ Cardinality(seated) <= Connections /\ Cardinality(seated) # Connections
      BY DEF IInv, Counted
    <3> QED
      BY <3>1, FS_CardinalityType, ConnectionsAssumption
  <2>2. CASE seated' = seated /\ wpc' # "serving"
    BY <2>1, <2>2, ConnectionsAssumption DEF Counted
  <2>3. CASE /\ seated' = seated \cup {c}
             /\ wpc' = IF Cardinality(seated) + 1 = Connections THEN "serving" ELSE "accept"
    <3>1. IsFiniteSet(seated') /\ Cardinality(seated') = Cardinality(seated) + 1
      BY <2>1, <2>3, FS_AddElement
    <3> QED
      BY <2>1, <2>3, <3>1, ConnectionsAssumption DEF Counted
  <2> QED
    BY <2>2, <2>3 DEF WorkerEffects
<1> QED
  BY <1>1, <1>4, <1>5, <1>6, <1>7

LEMMA OtherConnections ==
    ASSUME IInv, NEW c \in Clients \ seated, c = current, WorkerEffects(c),
           wpc \notin {"accept", "serving", "threw"}, NEW d \in Clients \ {c}
    PROVE  ConnectionInv(d)'
<1>1. UNCHANGED <<support, offer, current, csession, cpc, cplane, first, region>>
  BY DEF WorkerEffects, configVars, clientVars
<1>2. UNCHANGED <<toClient[d], toWorker[d]>>
  BY DEF IInv, WireTypeOK, WorkerEffects
<1>3. UNCHANGED wsession[d]
  BY DEF IInv, WorkerTypeOK, WorkerEffects
<1>4. (d \in seated)' = (d \in seated)
  BY DEF WorkerEffects
<1>5. SameConnection(d)
  BY <1>1, <1>2, <1>3, <1>4 DEF SameConnection
<1> QED
  BY <1>1, <1>5, SameConnectionKeeps DEF IInv

\* The connection the worker is busy with.
LEMMA CurrentConnection ==
    ASSUME IInv, NEW c \in Clients \ seated, c = current, WorkerEffects(c), WorkerGoesOn,
           wpc \notin {"accept", "serving", "threw"}, wpc' # "threw"
    PROVE  ConnectionInv(c)'
<1>1. /\ ConnectionInv(c) /\ toWorker \in [Clients -> Seq(RuneType)] /\ toClient \in [Clients -> Seq(RuneType)]
      /\ wsession \in [Clients -> SessionType] /\ wplane \in [Clients -> Planes]
      /\ toWorker[c] \in Seq(RuneType)
  BY DEF IInv, WireTypeOK, WorkerTypeOK
<1>2. UNCHANGED <<support, offer, current, csession, cpc, cplane, first, region>>
  BY DEF WorkerEffects, configVars, clientVars
<1>3. Select(offer[c])' = Select(offer[c])
  BY <1>2 DEF Select
<1>4. wsession'[c] \in SessionType
  BY WorkerTypes DEF WorkerTypeOK
<1>5. \A kind \in ToClientKinds : Rune(kind, wsession'[c]) \in {rune \in RuneType : rune.hello = wsession'[c]}
  BY <1>4 DEF ToClientKinds, Rune, RuneType
<1>6. CASE TakeHello
  <2>1. /\ wpc = "hello" /\ wpc' = "admit" /\ wsession[c] = NoSession /\ seated' = seated
        /\ toWorker[c] = <<Rune("hello", offer[c])>> /\ cpc[c] \in {"reply", "failed"}
        /\ toClient[c] = <<>> /\ csession[c] = NoSession
    BY <1>1, <1>6 DEF IInv, WorkerKnows, ConnectionInv, SessionKnown, SocketDrained, TakeHello,
                      WorkerReceives, WorkerTo
  <2>2. toWorker'[c] = <<>> /\ wsession'[c] = Select(offer[c]) /\ wsession'[c] # NoSession
    <3>1. Head(toWorker[c]).hello = offer[c] /\ toWorker'[c] = Tail(toWorker[c])
      BY <1>1, <1>6, <2>1 DEF TakeHello, WorkerReceives, Rune
    <3>2. wsession'[c] = Select(offer[c])
      BY <1>1, <1>6, <3>1 DEF TakeHello
    <3> QED
      BY <2>1, <3>1, <3>2, SelectedSession DEF IInv
  <2>3. toClient'[c] \in Seq({rune \in RuneType : rune.hello = wsession'[c]})
    <3>1. \E kind \in ToClientKinds : toClient'[c] = Append(<<>>, Rune(kind, wsession'[c]))
      BY <1>1, <1>6, <2>1 DEF WorkerEffects, TakeHello, WorkerSends, ToClientKinds
    <3>2. <<>> \in Seq({rune \in RuneType : rune.hello = wsession'[c]})
      OBVIOUS
    <3> QED
      BY <1>5, <3>1, <3>2, QueueSteps
  <2>4. SessionKnown(c)'
    BY <1>1, <1>2, <1>3, <2>1, <2>2, <2>3 DEF ConnectionInv, SessionKnown
  <2>5. PlaneFollowed(c)'
    BY <1>1, <1>2, <2>1 DEF ConnectionInv, SessionKnown, PlaneFollowed
  <2>6. SocketDrained(c)' /\ RegionKept(c)'
    BY <1>2, <2>1, <2>2 DEF SocketDrained, RegionKept
  <2> QED
    BY <2>4, <2>5, <2>6 DEF ConnectionInv
<1>7. CASE Admit \/ OfferShm \/ OfferUcx \/ AcceptUcx
  <2>1. /\ wpc # "attach" /\ wpc' # "attach" /\ wsession' = wsession /\ wsession[c] # NoSession
        /\ UNCHANGED toWorker
    BY <1>7 DEF IInv, WorkerKnows, Upgrading, Admit, Admissible, Seat, WorkerTo, OfferShm, OfferUcx,
                AcceptUcx, wireVars
  <2>2. toClient'[c] \in Seq({rune \in RuneType : rune.hello = wsession'[c]})
    <3>1. toClient[c] \in Seq({rune \in RuneType : rune.hello = wsession'[c]})
      BY <1>1, <2>1 DEF ConnectionInv, SessionKnown
    <3>2. CASE toClient' = toClient
      BY <3>1, <3>2
    <3>3. ASSUME NEW kind \in ToClientKinds,
                 toClient' = [toClient EXCEPT ![c] = Append(@, Rune(kind, wsession'[c]))]
          PROVE  toClient'[c] \in Seq({rune \in RuneType : rune.hello = wsession'[c]})
      <4>1. toClient'[c] = Append(toClient[c], Rune(kind, wsession'[c]))
        BY <1>1, <3>3
      <4>2. Rune(kind, wsession'[c]) \in {rune \in RuneType : rune.hello = wsession'[c]}
        BY <1>5
      <4> HIDE DEF Rune
      <4> QED
        BY <3>1, <4>1, <4>2, QueueSteps
    <3> QED
      BY <3>2, <3>3 DEF WorkerEffects
  <2>3. c \in seated' => PlaneOf(wsession[c]) = "socket"
    <3>1. CASE Admit
      BY <3>1, <2>1 DEF Admit, PlaneOf
    <3>2. CASE OfferShm \/ OfferUcx \/ AcceptUcx
      BY <3>2 DEF OfferShm, OfferUcx, AcceptUcx
    <3> QED
      BY <1>7, <3>1, <3>2
  <2>4. SessionKnown(c)' /\ PlaneFollowed(c)'
    BY <1>1, <1>2, <1>3, <2>1, <2>2 DEF ConnectionInv, SessionKnown, PlaneFollowed
  <2>5. SocketDrained(c)' /\ RegionKept(c)'
    BY <1>1, <1>2, <2>1, <2>3 DEF ConnectionInv, SocketDrained, RegionKept, Rune, Announced
  <2> QED
    BY <2>4, <2>5 DEF ConnectionInv
<1>8. CASE TakeShmReady \/ TakeUcxReady
  <2>1. /\ wsession' = wsession /\ wsession[c] # NoSession /\ PlaneOf(wsession[c]) # "socket"
        /\ toClient' = toClient /\ toWorker[c] # <<>> /\ toWorker'[c] = Tail(toWorker[c])
        /\ wpc' = "attach" => PlaneOf(wsession[c]) = "shm"
    BY <1>1, <1>8 DEF IInv, WorkerKnows, Upgrading, TakeShmReady, TakeUcxReady, WorkerReceives, Seat,
                      WorkerTo
  <2>2. toWorker'[c] = <<>> /\ cpc[c] \in Announced
    <3>1. Len(toWorker[c]) = 1 /\ cpc[c] \in Announced
      BY <1>1, <2>1 DEF ConnectionInv, SocketDrained
    <3>2. Tail(toWorker[c]) = <<>>
      BY <1>1, <3>1, TailOfOne
    <3> QED
      BY <2>1, <3>1, <3>2
  <2>3. SessionKnown(c)' /\ PlaneFollowed(c)'
    BY <1>1, <1>2, <1>3, <2>1 DEF ConnectionInv, SessionKnown, PlaneFollowed
  <2>4. SocketDrained(c)' /\ RegionKept(c)'
    BY <1>1, <1>2, <2>1, <2>2 DEF ConnectionInv, SocketDrained, RegionKept, Announced
  <2> QED
    BY <2>3, <2>4 DEF ConnectionInv
<1>9. CASE Attach
  <2>1. /\ wpc = "attach" /\ wpc' # "attach" /\ UNCHANGED <<toWorker, toClient, wsession>>
        /\ wsession[c] # NoSession /\ PlaneOf(wsession[c]) = "shm"
    BY <1>9 DEF IInv, WorkerKnows, Upgrading, Attach, Seat, WorkerTo, wireVars
  <2>2. SessionKnown(c)' /\ PlaneFollowed(c)'
    BY <1>1, <1>2, <1>3, <2>1 DEF ConnectionInv, SessionKnown, PlaneFollowed
  <2>3. SocketDrained(c)' /\ RegionKept(c)'
    BY <1>1, <1>2, <2>1 DEF ConnectionInv, SocketDrained, RegionKept, Announced
  <2> QED
    BY <2>2, <2>3 DEF ConnectionInv
<1> QED
  BY <1>6, <1>7, <1>8, <1>9 DEF WorkerGoesOn

LEMMA WorkerKeepsRun ==
    ASSUME IInv, NEW c \in Clients \ seated, c = current, WorkerEffects(c), WorkerGoesOn,
           wpc \notin {"accept", "serving", "threw"}, wpc' # "threw"
    PROVE  BacklogFresh' /\ WorkerKnows' /\ RunKnown'
<1>1. UNCHANGED <<backlog, current, cpc>> /\ wsession \in [Clients -> SessionType]
      /\ wplane \in [Clients -> Planes] /\ backlog \in Seq(Clients)
  BY DEF IInv, WorkerTypeOK, WorkerEffects, clientVars
<1>2. /\ cpc[c] # "start" /\ \A i \in 1 .. Len(backlog) : backlog[i] # c
  BY DEF IInv, WorkerKnows
<1>3. \A d \in Clients \ {c} : wsession'[d] = wsession[d] /\ (d \in seated' <=> d \in seated)
  BY <1>1 DEF WorkerEffects
<1>4. BacklogFresh'
  <2>1. \A i \in 1 .. Len(backlog) : backlog[i] \in Clients \ {c}
    BY <1>1, <1>2
  <2> QED
    BY <1>1, <1>3, <2>1 DEF IInv, BacklogFresh
<1>5. CASE TakeHello
  <2>1. /\ wpc = "hello" /\ wpc' = "admit" /\ seated' = seated /\ wplane' = wplane /\ ranks' = ranks
        /\ identity' = identity
    BY <1>5 DEF TakeHello, WorkerReceives, WorkerTo
  <2>2. wsession'[c] # NoSession
    <3>1. toWorker[c] = <<Rune("hello", offer[c])>>
      BY <1>5 DEF IInv, WorkerKnows, ConnectionInv, SocketDrained, TakeHello, WorkerReceives
    <3>2. wsession'[c] = Select(offer[c])
      BY <1>1, <1>5, <3>1 DEF TakeHello, Rune
    <3> QED
      BY <3>2, SelectedSession DEF IInv
  <2>3. WorkerKnows'
    BY <1>1, <1>2, <2>1, <2>2 DEF WorkerKnows, Upgrading
  <2>4. \A d \in seated : d \in Clients \ {c} /\ wsession'[d] = wsession[d]
    BY <1>3 DEF IInv, WorkerTypeOK
  <2>5. RunKnown'
    BY <2>1, <2>4 DEF IInv, RunKnown, Admitted, Upgrading, PlaneOf
  <2> QED
    BY <1>4, <2>3, <2>5
<1>6. CASE Admit
  <2>1. /\ wpc = "admit" /\ wsession' = wsession /\ wsession[c] # NoSession
        /\ wsession[c].rank \notin ranks /\ identity \in {0, wsession[c].session}
        /\ ranks' = ranks \cup {wsession[c].rank} /\ identity' = wsession[c].session
        /\ \/ "ucx" \in wsession[c].capabilities /\ wpc' = "ucx_offer" /\ seated' = seated /\ wplane' = wplane
           \/ /\ "ucx" \notin wsession[c].capabilities /\ "shm" \in wsession[c].capabilities
              /\ wpc' = "shm_offer" /\ seated' = seated /\ wplane' = wplane
           \/ /\ PlaneOf(wsession[c]) = "socket" /\ wpc' \in {"serving", "accept"}
              /\ seated' = seated \cup {c} /\ wplane' = [wplane EXCEPT ![c] = "socket"]
    BY <1>6 DEF IInv, WorkerKnows, Admit, Admissible, Seat, WorkerTo, PlaneOf
  <2>2. seated' \subseteq seated \cup {c} /\ Admitted = seated /\ Admitted' = seated \cup {c}
    BY <1>1, <2>1 DEF Admitted, Upgrading
  <2>3. \A d \in seated : wsession[d].session # 0 /\ d \in Clients
    <3> SUFFICES ASSUME NEW d \in seated PROVE wsession[d].session # 0 /\ d \in Clients
      OBVIOUS
    <3>1. d \in Clients /\ wsession[d] # NoSession
      BY DEF IInv, WorkerTypeOK, RunKnown, Admitted
    <3>2. wsession[d] = Select(offer[d])
      BY <3>1 DEF IInv, ConnectionInv, SessionKnown
    <3> QED
      BY <3>1, <3>2, SelectedSession DEF IInv
  <2>4. \A d \in seated : wsession[d].session = wsession[c].session /\ wsession[d].rank # wsession[c].rank
    BY <2>1, <2>2, <2>3 DEF IInv, RunKnown
  <2>5. WorkerKnows'
    BY <1>1, <1>2, <2>1 DEF WorkerKnows, Upgrading, PlaneOf
  <2>6. \A d \in seated' : wplane'[d] = PlaneOf(wsession[d])
    BY <1>1, <2>1, <2>3 DEF IInv, RunKnown
  <2>7. RunKnown'
    BY <2>1, <2>2, <2>4, <2>6 DEF IInv, RunKnown, PlaneOf
  <2> QED
    BY <1>4, <2>5, <2>7
<1>7. CASE OfferShm \/ OfferUcx \/ TakeShmReady \/ AcceptUcx
  <2>1. /\ wpc \in Upgrading /\ wpc' \in Upgrading
        /\ wpc \in {"shm_offer", "shm_ready", "attach"} <=> wpc' \in {"shm_offer", "shm_ready", "attach"}
        /\ UNCHANGED <<wsession, wplane, ranks, identity, seated>>
    BY <1>7 DEF OfferShm, OfferUcx, TakeShmReady, AcceptUcx, WorkerReceives, WorkerTo, Upgrading
  <2>2. WorkerKnows'
    BY <1>1, <1>2, <2>1 DEF IInv, WorkerKnows, Upgrading, PlaneOf
  <2>3. RunKnown'
    BY <1>1, <2>1 DEF IInv, RunKnown, Admitted, PlaneOf
  <2> QED
    BY <1>4, <2>2, <2>3
<1>8. CASE Attach \/ TakeUcxReady
  <2>1. /\ wpc \in Upgrading /\ wpc' \in {"serving", "accept"}
        /\ UNCHANGED <<wsession, ranks, identity>> /\ seated' = seated \cup {c}
        /\ wplane' = [wplane EXCEPT ![c] = PlaneOf(wsession[c])]
    BY <1>8 DEF IInv, WorkerKnows, Attach, TakeUcxReady, WorkerReceives, WorkerTo, Upgrading, Seat
  <2>2. WorkerKnows'
    BY <2>1 DEF WorkerKnows, Upgrading
  <2>3. Admitted' = Admitted
    BY <1>1, <2>1 DEF Admitted, Upgrading
  <2>4. \A d \in seated' : wplane'[d] = PlaneOf(wsession[d])
    BY <1>1, <2>1 DEF IInv, RunKnown, WorkerTypeOK
  <2>5. RunKnown'
    BY <2>1, <2>3, <2>4 DEF IInv, RunKnown, PlaneOf
  <2> QED
    BY <1>4, <2>2, <2>5
<1> QED
  BY <1>5, <1>6, <1>7, <1>8 DEF WorkerGoesOn

LEMMA WorkerStep == IInv /\ (Worker \/ Die) => IInv'
<1> SUFFICES ASSUME IInv, Worker \/ Die PROVE IInv'
  OBVIOUS
<1>1. Threw \/ Accept \/ (WorkerGoesOn /\ wpc' # "threw")
  <2>1. CASE WorkerGoesOn
    <3>1. wpc' = "threw" => Threw
      BY <2>1 DEF WorkerGoesOn, Threw, TakeHello, Admit, OfferShm, TakeShmReady, Attach, OfferUcx,
                  AcceptUcx, TakeUcxReady, Seat, WorkerTo, WorkerReceives
    <3> QED
      BY <2>1, <3>1
  <2>2. ASSUME NEW here \in {"hello", "shm_ready", "ucx_ready", "shm_offer", "ucx_offer"},
               NEW kind, WorkerReadFails(here, kind) \/ WorkerWriteFails(here)
        PROVE  Threw
    BY <2>2 DEF WorkerReadFails, WorkerWriteFails, Threw, WorkerTo
  <2>3. CASE Die
    BY <2>3 DEF Die, Threw, WorkerTo
  <2> QED
    BY <2>1, <2>2, <2>3 DEF Worker, WorkerGoesOn
<1>2. CASE WorkerGoesOn /\ wpc' # "threw"
  <2>1. /\ WorkerEffects(current) /\ current \in Clients \ seated
        /\ wpc \notin {"accept", "serving", "threw"}
    BY <1>2, WorkerChanges
  <2>2. Configured' /\ WireTypeOK' /\ ClientTypeOK' /\ WorkerTypeOK' /\ Counted'
    BY <2>1, WorkerTypes
  <2>3. PICK c \in Clients \ seated : c = current
    BY <2>1
  <2>4. ASSUME NEW d \in Clients PROVE ConnectionInv(d)'
    <3>1. WorkerEffects(c)
      BY <2>1, <2>3
    <3>2. CASE d = c
      <4>1. ConnectionInv(c)'
        BY <1>2, <2>1, <2>3, <3>1, CurrentConnection
      <4> QED
        BY <3>2, <4>1
    <3>3. CASE d # c
      BY <2>1, <2>3, <3>1, <3>3, OtherConnections
    <3> QED
      BY <3>2, <3>3
  <2>5. BacklogFresh' /\ WorkerKnows' /\ RunKnown'
    BY <1>2, <2>1, WorkerKeepsRun
  <2> QED
    BY <2>2, <2>4, <2>5 DEF IInv
<1> QED
  BY <1>1, <1>2, ThrewKeeps, AcceptKeeps

LEMMA InvariantStep == IInv /\ [Next]_vars => IInv'
<1> SUFFICES ASSUME IInv, [Next]_vars PROVE IInv'
  OBVIOUS
<1>1. CASE \E c \in Clients : ClientMoves(c)
  BY <1>1, ClientStep
<1>2. CASE Worker \/ Die
  BY <1>2, WorkerStep
<1>3. CASE UNCHANGED vars
  <2>1. UNCHANGED <<configVars, wireVars, clientVars, backlog, workerVars>>
    BY <1>3 DEF vars
  <2>2. Configured' /\ WireTypeOK' /\ ClientTypeOK' /\ WorkerTypeOK' /\ Counted'
    BY <2>1 DEF IInv, Configured, Capabilities, WireTypeOK, ClientTypeOK, WorkerTypeOK, Counted, configVars,
                wireVars, clientVars, workerVars
  <2>3. ASSUME NEW c \in Clients PROVE ConnectionInv(c)'
    <3>1. SameConnection(c)
      BY <2>1 DEF SameConnection, configVars, wireVars, clientVars, workerVars
    <3> QED
      BY <2>1, <3>1, SameConnectionKeeps DEF IInv, configVars
  <2>4. BacklogFresh' /\ WorkerKnows'
    BY <2>1 DEF IInv, BacklogFresh, WorkerKnows, PlaneOf, clientVars, workerVars
  <2>5. RunKnown'
    BY <2>1 DEF IInv, RunKnown, Admitted, PlaneOf, workerVars
  <2> QED
    BY <2>2, <2>3, <2>4, <2>5 DEF IInv
<1> QED
  BY <1>1, <1>2, <1>3 DEF Next, ClientMoves

LEMMA Invariant == Spec => []IInv
<1> QED
  BY InvariantInit, InvariantStep, PTL DEF Spec
-----------------------------------------------------------------------------
(***************************************************************************)
(* What follows for a run.                                                 *)
(***************************************************************************)

\* Every variable keeps its type, and ModelWorker::run goes from accepting to
\* serving exactly when it has admitted WorkerOptions::connections connections.
THEOREM TypeCorrect == Spec => []TypeOK
<1>1. IInv => TypeOK
  BY DEF IInv, TypeOK, Counted
<1> QED
  BY <1>1, Invariant, PTL

\* Offer, acceptance and announcement of an upgrade (offer_shared_memory,
\* accept_shared_memory, offer_ucx, accept_ucx) bring the two ends of a connection to
\* one plane: a tensor is written where the runner reads, and nothing is left in a
\* socket that has been abandoned.
THEOREM BothEndsOnOnePlane == Spec => []PlanesAgree
<1>1. ASSUME IInv PROVE PlanesAgree
  <2> SUFFICES ASSUME NEW c \in seated
               PROVE  /\ first[c] \in {"none", wplane[c]}
                      /\ wplane[c] # "socket" => toWorker[c] = <<>>
    BY DEF PlanesAgree
  <2>1. c \in Clients /\ wplane[c] = PlaneOf(wsession[c])
    BY <1>1 DEF IInv, WorkerTypeOK, RunKnown
  <2>2. PlaneFollowed(c) /\ SocketDrained(c)
    BY <1>1, <2>1 DEF IInv, ConnectionInv
  <2> QED
    BY <2>1, <2>2 DEF PlaneFollowed, SocketDrained
<1> QED
  BY <1>1, Invariant, PTL

\* ModelWorker::run refuses a rank it has and a session other than the first, so that
\* the connections it serves are different ranks of one run, whoever else connects.
THEOREM ServesOneRun == Spec => []OneRun
<1>1. IInv => OneRun
  BY DEF IInv, RunKnown, Admitted, OneRun
<1> QED
  BY <1>1, Invariant, PTL

\* A hello is answered once and with one selection, which both ends keep: what a solver
\* has for its session after connect_session is what accept_session made of its offer.
THEOREM SessionsAgree == Spec => []SessionAgreed
<1>1. ASSUME IInv PROVE SessionAgreed
  <2> SUFFICES ASSUME NEW c \in Clients, csession[c] # NoSession
               PROVE  /\ csession[c] = wsession[c]
                      /\ csession[c].capabilities \subseteq offer[c].capabilities \cap support
                      /\ csession[c].payload = Min2(SolverLimit, WorkerLimit)
    BY DEF SessionAgreed
  <2>1. csession[c] = wsession[c] /\ wsession[c] = Select(offer[c])
    BY <1>1 DEF IInv, ConnectionInv, SessionKnown
  <2> QED
    BY <1>1, <2>1, SelectedSession DEF IInv
<1> QED
  BY <1>1, Invariant, PTL

\* accept_shared_memory creates the region before it announces it and keeps it as long
\* as the solver lives, so the worker that goes to attach finds it.
THEOREM AttachFindsRegion == Spec => []AttachFinds
<1>1. ASSUME IInv PROVE AttachFinds
  <2> SUFFICES ASSUME wpc = "attach" PROVE region[current] \/ cpc[current] = "failed"
    BY DEF AttachFinds
  <2>1. /\ current \in Clients /\ wsession[current] # NoSession /\ PlaneOf(wsession[current]) = "shm"
    BY <1>1 DEF IInv, WorkerKnows, Upgrading
  <2>2. RegionKept(current)
    BY <1>1, <2>1 DEF IInv, ConnectionInv
  <2> QED
    BY <2>1, <2>2 DEF RegionKept
<1> QED
  BY <1>1, Invariant, PTL
=============================================================================
