--------------------------- MODULE HarborSession ---------------------------
(***************************************************************************)
(* How solver ranks and the model worker come to share a data plane: the   *)
(* accept phase of ModelWorker::run (inference/worker.cpp), connectSession *)
(* of the solver (openfoam/fieldProgramSession.C) and the hello exchange   *)
(* and channel upgrades of Harbor (harbor.cpp).  The worker takes one      *)
(* connection after the other; a rank that has been upgraded may already   *)
(* send while the worker still talks to the next.                          *)
(*                                                                         *)
(* Both ends derive the capability of the socket itself from the address   *)
(* they share, so the selection is never empty and hello_reject is never   *)
(* sent.  The handshake is the blocking one, which both programs use.      *)
(***************************************************************************)
EXTENDS Naturals, Sequences, FiniteSets

CONSTANTS Clients,      \* connection attempts of solver ranks
          Connections,  \* WorkerOptions::connections
          Sessions,     \* MPI identities (session id and number of peers)
          Peers,        \* solver ranks of an MPI run
          SolverLimit,  \* payload limit a solver offers
          WorkerLimit   \* WorkerOptions::maximum_payload

\* WorkerOptions::validate and SessionHello::validate refuse less.
ASSUME ClientsAssumption == IsFiniteSet(Clients)
ASSUME ConnectionsAssumption == Connections \in Nat \ {0}
ASSUME SessionsAssumption == Sessions \subseteq Nat \ {0}
ASSUME PeersAssumption == Peers \in Nat \ {0}
ASSUME LimitsAssumption == SolverLimit \in Nat \ {0} /\ WorkerLimit \in Nat \ {0}

Nobody == "nobody"
ASSUME NobodyAssumption == Nobody \notin Clients

VARIABLES
    socket,   \* "uds" or "tcp": the kind of the worker's address
    support,  \* capabilities of the worker
    wants,    \* plane each solver is configured for: "socket", "shm" or "ucx"
    offer,    \* SessionHello each solver offers
    \* one connection
    toWorker, toClient, \* runes in the socket
    clientOpen, \* the solver's end of the socket is open
    region,   \* the named region exists
    ucx,      \* "none", "listening" or "connected"
    \* the solver's end
    cpc, csession, cplane,
    first,    \* plane its first tensor was written to, "none" before
    \* the worker's end
    backlog,  \* connections not yet accepted
    wpc, current, wsession, wplane,
    ranks,    \* ranks inserted so far
    identity, \* session id of the first connection, 0 before
    seated    \* harbors: connections that have been admitted

configVars == <<socket, support, wants, offer>>
wireVars == <<toWorker, toClient, clientOpen, region, ucx>>
clientVars == <<cpc, csession, cplane, first>>
workerVars == <<wpc, current, wsession, wplane, ranks, identity, seated>>
vars == <<configVars, wireVars, clientVars, backlog, workerVars>>

Min2(a, b) == IF a < b THEN a ELSE b

\* The capability bits of an end with this preference.
Capabilities(kind, plane) ==
    {kind} \cup (IF plane = "shm" /\ kind = "uds" THEN {"shm"} ELSE {})
           \cup (IF plane = "ucx" /\ kind = "tcp" THEN {"ucx"} ELSE {})

Hello == [session : Sessions, capabilities : SUBSET {"uds", "tcp", "shm", "ucx"},
          rank : 0 .. Peers - 1, payload : {SolverLimit, WorkerLimit}]
NoSession == [session |-> 0, capabilities |-> {}, rank |-> 0, payload |-> 0]

Rune(kind, hello) == [kind |-> kind, hello |-> hello]

\* Two solvers may have been given the same address by mistake: ranks may be
\* duplicate and sessions may differ.
Configured ==
    /\ socket \in {"uds", "tcp"}
    /\ \E plane \in {"socket", "shm", "ucx"} : support = Capabilities(socket, plane)
    /\ wants \in [Clients -> {"socket", "shm", "ucx"}]
    /\ offer \in [Clients -> Hello]
    /\ \A c \in Clients :
          /\ offer[c].capabilities = Capabilities(socket, wants[c])
          /\ offer[c].payload = SolverLimit

Init ==
    /\ Configured
    /\ toWorker = [c \in Clients |-> <<>>] /\ toClient = [c \in Clients |-> <<>>]
    /\ clientOpen = [c \in Clients |-> FALSE]
    /\ region = [c \in Clients |-> FALSE] /\ ucx = [c \in Clients |-> "none"]
    /\ cpc = [c \in Clients |-> "start"]
    /\ csession = [c \in Clients |-> NoSession]
    /\ cplane = [c \in Clients |-> "none"] /\ first = [c \in Clients |-> "none"]
    /\ backlog = <<>>
    /\ wpc = "accept" /\ current = Nobody
    /\ wsession = [c \in Clients |-> NoSession]
    /\ wplane = [c \in Clients |-> "none"]
    /\ ranks = {} /\ identity = 0 /\ seated = {}

\* A worker that threw has ended, and with it listener and sockets.
WorkerUp == wpc # "threw"
-----------------------------------------------------------------------------
(***************************************************************************)
(* The solver's end.                                                       *)
(***************************************************************************)
ClientTo(c, label) == cpc' = [cpc EXCEPT ![c] = label]

\* An exception: the Harbor closes its socket and, if it owns one, removes the
\* region.
ClientThrows(c) ==
    /\ ClientTo(c, "failed")
    /\ clientOpen' = [clientOpen EXCEPT ![c] = FALSE]
    /\ region' = [region EXCEPT ![c] = FALSE]

\* connect; a solver that wants UCX over a Unix socket throws after it.
Connect(c) ==
    /\ cpc[c] = "start" /\ WorkerUp
    /\ backlog' = Append(backlog, c)
    /\ IF wants[c] = "ucx" /\ socket = "uds"
       THEN ClientTo(c, "failed") /\ UNCHANGED clientOpen
       ELSE ClientTo(c, "hello") /\ clientOpen' = [clientOpen EXCEPT ![c] = TRUE]
    /\ UNCHANGED <<configVars, toWorker, toClient, region, ucx, csession, cplane, first,
                   workerVars>>

\* A write to an end that is gone: EPIPE over a Unix socket, over TCP only from
\* the second write on.
Writable(up) == up \/ socket = "tcp"

\* A control rune over the socket; the write throws when the worker is gone.
ClientSends(c, here, kind, next) ==
    /\ cpc[c] = here
    /\ \/ /\ Writable(WorkerUp)
          /\ toWorker' = [toWorker EXCEPT ![c] = Append(@, Rune(kind, offer[c]))]
          /\ ClientTo(c, next)
          /\ UNCHANGED <<clientOpen, region>>
       \/ ~WorkerUp /\ ClientThrows(c) /\ UNCHANGED toWorker
    /\ UNCHANGED <<configVars, toClient, ucx, csession, cplane, first, backlog, workerVars>>

\* The checks of connect_session on what the worker selected.
Acceptable(c, hello) ==
    /\ hello.session = offer[c].session
    /\ hello.capabilities \subseteq offer[c].capabilities
    /\ hello.payload <= offer[c].payload

\* Mutant of NextAfterReply: the solver's wish counts, not the selection.
AsWished(c, selected) ==
    IF wants[c] = "socket" THEN "ready" ELSE wants[c] \o "_offer"

\* connectSession goes on with what was selected, or insists on UCX.
NextAfterReply(c, selected) ==
    IF wants[c] = "ucx"
    THEN IF "ucx" \in selected.capabilities THEN "ucx_offer" ELSE "failed"
    ELSE IF "shm" \in selected.capabilities THEN "shm_offer" ELSE "ready"

\* A read of the client: the next rune, or the end of the stream.  Closing may
\* cost runes that were still on their way.
ClientReceives(c, here, kind) ==
    cpc[c] = here /\ toClient[c] # <<>> /\ Head(toClient[c]).kind = kind
ClientReadFails(c) ==
    /\ cpc[c] \in {"reply", "shm_offer", "ucx_offer"} /\ ~WorkerUp
    /\ ClientThrows(c)
    /\ UNCHANGED <<configVars, toWorker, toClient, ucx, csession, cplane, first, backlog,
                   workerVars>>

TakeReply(c) ==
    LET selected == Head(toClient[c]).hello
        next == IF Acceptable(c, selected) THEN NextAfterReply(c, selected) ELSE "failed"
    IN  /\ ClientReceives(c, "reply", "hello_accept")
        /\ toClient' = [toClient EXCEPT ![c] = Tail(@)]
        /\ csession' = [csession EXCEPT ![c] = selected]
        /\ cplane' = [cplane EXCEPT ![c] = IF next = "ready" THEN "socket" ELSE @]
        /\ IF next = "failed" THEN ClientThrows(c)
           ELSE ClientTo(c, next) /\ UNCHANGED <<clientOpen, region>>
        /\ UNCHANGED <<configVars, toWorker, ucx, first, backlog, workerVars>>

\* Mutant of TakeShmOffer: the region is announced before it is created.
AnnounceFirst(c) ==
    /\ ClientReceives(c, "shm_offer", "shm_offer")
    /\ toClient' = [toClient EXCEPT ![c] = Tail(@)]
    /\ ClientTo(c, "shm_announce")
    /\ UNCHANGED <<configVars, toWorker, clientOpen, region, ucx, csession, cplane, first,
                   backlog, workerVars>>

\* accept_shared_memory: create the region of that name, or throw.
TakeShmOffer(c) ==
    /\ ClientReceives(c, "shm_offer", "shm_offer")
    /\ toClient' = [toClient EXCEPT ![c] = Tail(@)]
    /\ \/ /\ region' = [region EXCEPT ![c] = TRUE]
          /\ ClientTo(c, "shm_announce")
          /\ UNCHANGED clientOpen
       \/ ClientThrows(c)
    /\ UNCHANGED <<configVars, toWorker, ucx, csession, cplane, first, backlog, workerVars>>

\* accept_ucx: connect and write the bootstrap byte, or throw.
TakeUcxOffer(c) ==
    /\ ClientReceives(c, "ucx_offer", "ucx_offer")
    /\ toClient' = [toClient EXCEPT ![c] = Tail(@)]
    /\ \/ /\ ucx[c] = "listening"
          /\ ucx' = [ucx EXCEPT ![c] = "connected"]
          /\ ClientTo(c, "ucx_announce")
          /\ UNCHANGED <<clientOpen, region>>
       \/ ClientThrows(c) /\ UNCHANGED ucx
    /\ UNCHANGED <<configVars, toWorker, csession, cplane, first, backlog, workerVars>>

\* channel_->close(), then the new channel.  Under SHM the duplicate made for
\* wake-ups keeps the socket open; under UCX it is gone.
Switch(c, here, plane) ==
    /\ cpc[c] = here
    /\ cplane' = [cplane EXCEPT ![c] = plane]
    /\ clientOpen' = [clientOpen EXCEPT ![c] = (plane = "shm")]
    /\ ClientTo(c, "ready")
    /\ UNCHANGED <<configVars, toWorker, toClient, region, ucx, csession, first, backlog,
                   workerVars>>

\* The first tensor of the first exchange, on the plane the solver has.
Talk(c) ==
    /\ cpc[c] = "ready" /\ first[c] = "none" /\ WorkerUp
    /\ first' = [first EXCEPT ![c] = cplane[c]]
    /\ toWorker' = [toWorker EXCEPT ![c] =
                       IF cplane[c] = "socket" THEN Append(@, Rune("tensor", offer[c])) ELSE @]
    /\ UNCHANGED <<configVars, toClient, clientOpen, region, ucx, cpc, csession, cplane,
                   backlog, workerVars>>

\* The session is destroyed in order, by an exception elsewhere in the solver
\* or at its end, and removes its region.
Leave(c) ==
    /\ cpc[c] = "ready" /\ ClientThrows(c)
    /\ UNCHANGED <<configVars, toWorker, toClient, ucx, csession, cplane, first, backlog,
                   workerVars>>

\* The solver process dies; a region it made stays behind.
Crash(c) ==
    /\ cpc[c] \notin {"start", "failed"}
    /\ ClientTo(c, "failed")
    /\ clientOpen' = [clientOpen EXCEPT ![c] = FALSE]
    /\ UNCHANGED <<configVars, toWorker, toClient, region, ucx, csession, cplane, first,
                   backlog, workerVars>>
-----------------------------------------------------------------------------
(***************************************************************************)
(* The worker's end: one connection at a time, current.                    *)
(***************************************************************************)
WorkerTo(label) == wpc' = label

Accept ==
    /\ wpc = "accept" /\ backlog # <<>>
    /\ current' = Head(backlog) /\ backlog' = Tail(backlog)
    /\ WorkerTo("hello")
    /\ UNCHANGED <<configVars, wireVars, clientVars, wsession, wplane, ranks, identity, seated>>

\* receive_prefix found a rune of this kind at the head of the socket.
WorkerReceives(here, kind) ==
    /\ wpc = here /\ toWorker[current] # <<>> /\ Head(toWorker[current]).kind = kind
    /\ toWorker' = [toWorker EXCEPT ![current] = Tail(@)]

\* Another kind of rune or the end of the stream: run() throws.
WorkerReadFails(here, kind) ==
    /\ wpc = here
    /\ IF toWorker[current] = <<>> THEN ~clientOpen[current]
       ELSE Head(toWorker[current]).kind # kind
    /\ WorkerTo("threw")
    /\ UNCHANGED <<configVars, wireVars, clientVars, backlog, current, wsession, wplane,
                   ranks, identity, seated>>

\* A write of the worker, or EPIPE.  Before a UCX offer the listener may not
\* come up either.
WorkerSends(rune) ==
    toClient' = [toClient EXCEPT ![current] = Append(@, rune)]
WorkerWriteFails(here) ==
    /\ wpc = here /\ (~clientOpen[current] \/ here = "ucx_offer")
    /\ WorkerTo("threw")
    /\ UNCHANGED <<configVars, wireVars, clientVars, backlog, current, wsession, wplane,
                   ranks, identity, seated>>

\* accept_session: the common capabilities, the smaller payload limit.
Select(hello) ==
    [hello EXCEPT !.capabilities = @ \cap support, !.payload = Min2(@, WorkerLimit)]

\* Mutant of TakeHello: the session keeps the limit the solver offered.
KeepOffer ==
    /\ WorkerReceives("hello", "hello") /\ Writable(clientOpen[current])
    /\ LET asked == Head(toWorker[current]).hello
       IN  /\ wsession' = [wsession EXCEPT ![current] = asked]
           /\ WorkerSends(Rune("hello_accept", Select(asked)))
    /\ WorkerTo("admit")
    /\ UNCHANGED <<configVars, clientOpen, region, ucx, clientVars, backlog, current, wplane,
                   ranks, identity, seated>>

TakeHello ==
    /\ WorkerReceives("hello", "hello") /\ Writable(clientOpen[current])
    /\ LET selected == Select(Head(toWorker[current]).hello)
       IN  /\ wsession' = [wsession EXCEPT ![current] = selected]
           /\ WorkerSends(Rune("hello_accept", selected))
    /\ WorkerTo("admit")
    /\ UNCHANGED <<configVars, clientOpen, region, ucx, clientVars, backlog, current, wplane,
                   ranks, identity, seated>>

\* Mutant of Seat: the accept loop runs once more.
SeatAndGoOn(plane) ==
    /\ wplane' = [wplane EXCEPT ![current] = plane]
    /\ seated' = seated \cup {current}
    /\ WorkerTo(IF Cardinality(seated) = Connections THEN "serving" ELSE "accept")

\* harbors.push_back: the next connection, or the runners.
Seat(plane) ==
    /\ wplane' = [wplane EXCEPT ![current] = plane]
    /\ seated' = seated \cup {current}
    /\ WorkerTo(IF Cardinality(seated) + 1 = Connections THEN "serving" ELSE "accept")

\* Mutant of Admissible: only the rank is looked at.
AnySession(session) == session.rank \notin ranks

\* The worker demands UCX if it has it, one connection per rank, one session.
Admissible(session) ==
    /\ "ucx" \in support => "ucx" \in session.capabilities
    /\ session.rank \notin ranks
    /\ identity \in {0, session.session}

Admit ==
    /\ wpc = "admit"
    /\ LET session == wsession[current]
       IN  \/ /\ Admissible(session)
              /\ ranks' = ranks \cup {session.rank}
              /\ identity' = session.session
              /\ IF "ucx" \in session.capabilities
                 THEN WorkerTo("ucx_offer") /\ UNCHANGED <<wplane, seated>>
                 ELSE IF "shm" \in session.capabilities
                 THEN WorkerTo("shm_offer") /\ UNCHANGED <<wplane, seated>>
                 ELSE Seat("socket")
           \/ /\ ~Admissible(session)
              /\ WorkerTo("threw")
              /\ UNCHANGED <<wplane, ranks, identity, seated>>
    /\ UNCHANGED <<configVars, wireVars, clientVars, backlog, current, wsession>>

OfferShm ==
    /\ wpc = "shm_offer" /\ Writable(clientOpen[current])
    /\ WorkerSends(Rune("shm_offer", wsession[current]))
    /\ WorkerTo("shm_ready")
    /\ UNCHANGED <<configVars, toWorker, clientOpen, region, ucx, clientVars, backlog, current,
                   wsession, wplane, ranks, identity, seated>>

TakeShmReady ==
    /\ WorkerReceives("shm_ready", "shm_ready")
    /\ WorkerTo("attach")
    /\ UNCHANGED <<configVars, toClient, clientOpen, region, ucx, clientVars, backlog, current,
                   wsession, wplane, ranks, identity, seated>>

\* Mutant of Attach: the Harbor keeps the socket.
AttachAside ==
    /\ wpc = "attach" /\ region[current]
    /\ Seat("socket")
    /\ UNCHANGED <<configVars, wireVars, clientVars, backlog, current, wsession, ranks, identity>>

\* connect_shared_memory_channel: throws when the name does not exist, or for
\* want of memory.
Attach ==
    /\ wpc = "attach"
    /\ \/ region[current] /\ Seat("shm")
       \/ WorkerTo("threw") /\ UNCHANGED <<wplane, seated>>
    /\ UNCHANGED <<configVars, wireVars, clientVars, backlog, current, wsession, ranks, identity>>

OfferUcx ==
    /\ wpc = "ucx_offer" /\ Writable(clientOpen[current])
    /\ ucx' = [ucx EXCEPT ![current] = "listening"]
    /\ WorkerSends(Rune("ucx_offer", wsession[current]))
    /\ WorkerTo("ucx_accept")
    /\ UNCHANGED <<configVars, toWorker, clientOpen, region, clientVars, backlog, current,
                   wsession, wplane, ranks, identity, seated>>

\* The UCX listener accepts and the bootstrap byte arrives, or time is over.
AcceptUcx ==
    /\ wpc = "ucx_accept"
    /\ \/ ucx[current] = "connected" /\ WorkerTo("ucx_ready")
       \/ WorkerTo("threw")
    /\ UNCHANGED <<configVars, wireVars, clientVars, backlog, current, wsession, wplane, ranks,
                   identity, seated>>

TakeUcxReady ==
    /\ WorkerReceives("ucx_ready", "ucx_ready")
    /\ Seat("ucx")
    /\ UNCHANGED <<configVars, toClient, clientOpen, region, ucx, clientVars, backlog, current,
                   wsession, ranks, identity>>

\* The worker process dies before it serves.
Die ==
    /\ wpc \notin {"serving", "threw"}
    /\ WorkerTo("threw")
    /\ UNCHANGED <<configVars, wireVars, clientVars, backlog, current, wsession, wplane, ranks,
                   identity, seated>>
-----------------------------------------------------------------------------
\* What a solver does once it has connected.
Client(c) ==
    \/ ClientSends(c, "hello", "hello", "reply")
    \/ TakeReply(c)
    \/ TakeShmOffer(c)
    \/ TakeUcxOffer(c)
    \/ ClientSends(c, "shm_announce", "shm_ready", "shm_switch")
    \/ ClientSends(c, "ucx_announce", "ucx_ready", "ucx_switch")
    \/ Switch(c, "shm_switch", "shm")
    \/ Switch(c, "ucx_switch", "ucx")
    \/ ClientReadFails(c)

Worker ==
    \/ Accept
    \/ TakeHello
    \/ Admit
    \/ OfferShm
    \/ TakeShmReady
    \/ Attach
    \/ OfferUcx
    \/ AcceptUcx
    \/ TakeUcxReady
    \/ \E kind \in {"hello", "shm_ready", "ucx_ready"} : WorkerReadFails(kind, kind)
    \/ \E here \in {"hello", "shm_offer", "ucx_offer"} : WorkerWriteFails(here)

Next ==
    \/ \E c \in Clients : Connect(c) \/ Client(c) \/ Talk(c) \/ Leave(c) \/ Crash(c)
    \/ Worker
    \/ Die

Spec == Init /\ [][Next]_vars

\* Both programs are scheduled; no solver has to connect, to talk or to die.
Fairness == WF_vars(Worker) /\ \A c \in Clients : WF_vars(Client(c))

FairSpec == Spec /\ Fairness
-----------------------------------------------------------------------------
Planes == {"none", "socket", "shm", "ucx"}
Connecting == {"hello", "reply", "shm_offer", "shm_announce", "shm_switch",
               "ucx_offer", "ucx_announce", "ucx_switch"}
ClientLabels == Connecting \cup {"start", "ready", "failed"}
WorkerLabels == {"accept", "hello", "admit", "shm_offer", "shm_ready", "attach", "ucx_offer",
                 "ucx_accept", "ucx_ready", "serving", "threw"}
SessionType == Hello \cup {NoSession}
RuneType == [kind : {"hello", "hello_accept", "shm_offer", "shm_ready", "ucx_offer",
                     "ucx_ready", "tensor"},
             hello : SessionType]

WireTypeOK ==
    /\ toWorker \in [Clients -> Seq(RuneType)] /\ toClient \in [Clients -> Seq(RuneType)]
    /\ clientOpen \in [Clients -> BOOLEAN] /\ region \in [Clients -> BOOLEAN]
    /\ ucx \in [Clients -> {"none", "listening", "connected"}]

ClientTypeOK ==
    /\ cpc \in [Clients -> ClientLabels] /\ csession \in [Clients -> SessionType]
    /\ cplane \in [Clients -> Planes] /\ first \in [Clients -> Planes]

WorkerTypeOK ==
    /\ backlog \in Seq(Clients)
    /\ wpc \in WorkerLabels /\ current \in Clients \cup {Nobody}
    /\ wsession \in [Clients -> SessionType] /\ wplane \in [Clients -> Planes]
    /\ ranks \subseteq 0 .. Peers - 1 /\ identity \in Sessions \cup {0}
    /\ seated \subseteq Clients

\* Every variable has its type, and the worker serves exactly when it has
\* taken the number of connections it was started for.
TypeOK ==
    /\ Configured /\ WireTypeOK /\ ClientTypeOK /\ WorkerTypeOK
    /\ wpc = "serving" <=> Cardinality(seated) = Connections

\* The first tensor of a solver is written to the plane the runner of its
\* connection reads, and nothing is left behind in a socket nobody reads any
\* more, although both ends switch channels at moments of their own
\* (offer_shared_memory, accept_shared_memory, offer_ucx, accept_ucx).
PlanesAgree ==
    \A c \in seated :
        /\ first[c] \in {"none", wplane[c]}
        /\ wplane[c] # "socket" => toWorker[c] = <<>>

\* The connections a worker serves are the ranks of one run, each once
\* (ModelWorker::run), so the names of their regions differ as well.
OneRun ==
    \A c, d \in seated :
        /\ wsession[c].session = wsession[d].session
        /\ c # d => wsession[c].rank # wsession[d].rank

\* What a solver takes for its session is what the worker keeps, and neither
\* goes beyond what the other can do (accept_session, connect_session).
SessionAgreed ==
    \A c \in Clients : csession[c] # NoSession =>
        /\ csession[c] = wsession[c]
        /\ csession[c].capabilities \subseteq offer[c].capabilities \cap support
        /\ csession[c].payload = Min2(SolverLimit, WorkerLimit)

\* When the worker goes to attach, the region is there, unless the solver has
\* ended since it announced it (accept_shared_memory).
AttachFinds ==
    wpc = "attach" => region[current] \/ cpc[current] = "failed"

\* A solver that has connected does not wait for ever: it ends up with a plane
\* or with an exception, whatever becomes of the worker and the other solvers.
HandshakesEnd ==
    \A c \in Clients : cpc[c] \in Connecting ~> cpc[c] \in {"ready", "failed"}
=============================================================================
