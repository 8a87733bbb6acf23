--------------------------- MODULE LongshipProofs ---------------------------
(***************************************************************************)
(* Proofs about the Longship supervisor, for any set of readiness files:   *)
(* the solver never starts on the word of a file that another run left, no *)
(* way out of sail_longship leaves a leader running or unreaped, and a     *)
(* success that it reports is one.                                         *)
(***************************************************************************)
EXTENDS Longship, TLAPS

Starting == {"remove_stale", "start_host"}
Waiting == {"scan", "early_stop", "early_exit", "start_solver"}
Polling == {"poll_host", "poll_solver", "poll_stop", "decide", "branch", "solver_left"}
Ending == {"terminate", "term", "grace", "kill"}

\* A leader has an exit status when it is gone, and the watcher published no other.
StatusesTrue ==
    /\ \A c \in Components : leader[c] = "exited" <=> code[c] # None
    /\ \A c \in Components : status[c] # None => status[c] = code[c]
    /\ \A c \in Components : leader[c] = "absent" => ~members[c]

\* What has been started where sail_longship is: the host before it is waited for,
\* the solver before it is polled, and neither without the host.
StartedInOrder ==
    /\ pc \in Starting => leader["host"] = "absent"
    /\ pc \in Starting \cup Waiting => leader["solver"] = "absent"
    /\ pc \in Waiting \cup Polling \cup Ending \cup {"join", "returned"} =>
          leader["host"] # "absent"
    /\ pc \in Polling => leader["solver"] # "absent"
    /\ leader["host"] = "absent" => leader["solver"] = "absent"

\* After remove_stale every readiness file is of this launch's host, so a scan
\* that has found a file has been told so by that host.
FilesOfThisLaunch ==
    /\ pc \notin {"remove_stale", "threw"} => markers \subseteq announced
    /\ seen \subseteq announced
    /\ leader["host"] = "absent" => announced = {}
    /\ pc = "start_solver" => announced = Markers

\* The solver is ended only together with a stop or with the blame on the host.
EndedForAReason ==
    /\ pc \notin Ending => todo = <<>>
    /\ pc \in {"term", "grace", "kill"} => todo # <<>>
    /\ pc \in Starting \cup Waiting \cup Polling => ~signalled["solver"]
    /\ signalled["solver"] \/ todo \in {<<"solver">>, <<"host", "solver">>} =>
          failed_first \/ cancelled

\* What sail_longship returned is what it found out.
ResultIsFound ==
    pc = "returned" =>
        /\ result.solver = IF leader["solver"] = "absent" THEN 130 ELSE status["solver"]
        /\ result.failed_first = failed_first /\ result.cancelled = cancelled

IInv ==
    /\ TypeOK /\ StatusesTrue /\ StartedInOrder /\ FilesOfThisLaunch /\ EndedForAReason
    /\ ResultIsFound /\ LeadersReaped /\ SolverAfterReady
-----------------------------------------------------------------------------
\* terminate takes the components of todo one by one, the solver last.
LEMMA TodoShrinks ==
    ASSUME TypeOK, todo # <<>>
    PROVE  /\ Head(todo) \in Components
           /\ Tail(todo) \in TodoLists
           /\ Head(todo) = "solver" => todo = <<"solver">>
           /\ Tail(todo) # <<>> => Tail(todo) = <<"solver">> /\ todo = <<"host", "solver">>
<1>1. CASE todo = <<"host">>
  BY <1>1 DEF Components, TodoLists
<1>2. CASE todo = <<"solver">>
  BY <1>2 DEF Components, TodoLists
<1>3. CASE todo = <<"host", "solver">>
  BY <1>3 DEF Components, TodoLists
<1> QED
  BY <1>1, <1>2, <1>3 DEF TypeOK, TodoLists

LEMMA InvariantInit == Init => IInv
<1> SUFFICES ASSUME Init PROVE IInv
  OBVIOUS
<1> USE DEF Init, Components, None
<1>1. TypeOK
  BY DEF TypeOK, Labels, Statuses, Codes, NoResult, TodoLists, Results
<1>2. StatusesTrue /\ StartedInOrder /\ FilesOfThisLaunch /\ EndedForAReason
  BY DEF StatusesTrue, StartedInOrder, FilesOfThisLaunch, EndedForAReason, Starting, Waiting,
         Polling, Ending
<1>3. ResultIsFound /\ LeadersReaped /\ SolverAfterReady
  BY DEF ResultIsFound, LeadersReaped, SolverAfterReady
<1> QED
  BY <1>1, <1>2, <1>3 DEF IInv

\* The processes act while the supervisor stays where it is: statuses stay true,
\* files stay files of this launch, and nothing that has ended comes back.
LEMMA EnvironmentStep == IInv /\ (Environment \/ DeadlinePasses) => IInv'
<1> SUFFICES ASSUME IInv, Environment \/ DeadlinePasses PROVE IInv'
  OBVIOUS
<1>0. "host" \in Components /\ "solver" \in Components
  BY DEF Components
<1> USE <1>0 DEF IInv, TypeOK, None, processVars, fileVars, localVars,
                 OutsideSupervisor
<1>1. ASSUME NEW c \in Components, NEW exit \in {0, 1, 143}, LeaderExits(c, exit) PROVE IInv'
  <2> USE <1>1 DEF LeaderExits, Dies, Statuses, Codes
  <2>1. TypeOK'
    OBVIOUS
  <2>2. StatusesTrue'
    BY DEF StatusesTrue
  <2>3. StartedInOrder' /\ FilesOfThisLaunch' /\ EndedForAReason'
    BY DEF StartedInOrder, FilesOfThisLaunch, EndedForAReason
  <2>4. ResultIsFound' /\ LeadersReaped' /\ SolverAfterReady'
    BY DEF ResultIsFound, LeadersReaped, SolverAfterReady, finished
  <2> QED
    BY <2>1, <2>2, <2>3, <2>4
<1>2. ASSUME NEW c \in Components, MemberStarts(c) \/ MemberExits(c) PROVE IInv'
  <2>1. TypeOK'
    BY <1>2 DEF MemberStarts, MemberExits
  <2>4. StatusesTrue'
    BY <1>2 DEF MemberStarts, MemberExits, StatusesTrue
  <2>2. StartedInOrder' /\ FilesOfThisLaunch' /\ EndedForAReason'
    BY <1>2 DEF MemberStarts, MemberExits, StartedInOrder, FilesOfThisLaunch, EndedForAReason
  <2>3. ResultIsFound' /\ LeadersReaped' /\ SolverAfterReady'
    BY <1>2 DEF MemberStarts, MemberExits, ResultIsFound, LeadersReaped, SolverAfterReady, finished
  <2> QED
    BY <2>1, <2>2, <2>3, <2>4
<1>3. ASSUME NEW m \in Markers, HostAnnounces(m) \/ HostWithdraws(m) PROVE IInv'
  <2>1. TypeOK' /\ StatusesTrue'
    BY <1>3 DEF HostAnnounces, HostWithdraws, StatusesTrue
  <2>2. leader["host"] # "absent"
    BY <1>3 DEF HostAnnounces, HostWithdraws, HostAlive, StatusesTrue
  <2>3. FilesOfThisLaunch' /\ SolverAfterReady'
    BY <1>3, <2>2 DEF HostAnnounces, HostWithdraws, FilesOfThisLaunch, SolverAfterReady
  <2>4. StartedInOrder' /\ EndedForAReason' /\ ResultIsFound' /\ LeadersReaped'
    BY <1>3 DEF HostAnnounces, HostWithdraws, StartedInOrder, EndedForAReason, ResultIsFound,
                LeadersReaped, finished
  <2> QED
    BY <2>1, <2>3, <2>4
<1>4. CASE RequestStop \/ DeadlinePasses
  <2>1. TypeOK' /\ StatusesTrue'
    BY <1>4 DEF RequestStop, DeadlinePasses, StatusesTrue
  <2>2. StartedInOrder' /\ FilesOfThisLaunch' /\ EndedForAReason'
    BY <1>4 DEF RequestStop, DeadlinePasses, StartedInOrder, FilesOfThisLaunch, EndedForAReason
  <2>3. ResultIsFound' /\ LeadersReaped' /\ SolverAfterReady'
    BY <1>4 DEF RequestStop, DeadlinePasses, ResultIsFound, LeadersReaped, SolverAfterReady, finished
  <2> QED
    BY <2>1, <2>2, <2>3
<1> QED
  BY <1>1, <1>2, <1>3, <1>4 DEF Environment

LEMMA WatchStep == ASSUME IInv, NEW c \in Components, Watch(c) PROVE IInv'
<1> USE DEF IInv, TypeOK, Statuses, Codes, None, Components, processVars, fileVars, localVars,
            OutsideSupervisor, Watch
<1>1. TypeOK' /\ StatusesTrue'
  BY DEF StatusesTrue
<1>2. StartedInOrder' /\ FilesOfThisLaunch' /\ EndedForAReason' /\ SolverAfterReady'
  BY DEF StartedInOrder, FilesOfThisLaunch, EndedForAReason, SolverAfterReady
<1>3. LeadersReaped'
  BY DEF LeadersReaped, finished
<1>4. ResultIsFound'
  BY DEF ResultIsFound, LeadersReaped, finished
<1> QED
  BY <1>1, <1>2, <1>3, <1>4

\* From remove_stale to the start of the solver.
LEMMA StartingStep ==
    IInv /\ (RemoveStale \/ StartHost \/ ScanReady \/ EarlyStop \/ EarlyExit \/ StartSolver) => IInv'
<1> SUFFICES ASSUME IInv,
                    RemoveStale \/ StartHost \/ ScanReady \/ EarlyStop \/ EarlyExit \/ StartSolver
             PROVE  IInv'
  OBVIOUS
<1>0. "host" \in Components /\ "solver" \in Components
  BY DEF Components
<1> USE <1>0 DEF IInv, TypeOK, Labels, processVars, fileVars, localVars, Goto,
                 Starting, Waiting, Polling, Ending
<1>1. CASE RemoveStale
  <2>1. TypeOK' /\ StatusesTrue' /\ StartedInOrder' /\ EndedForAReason'
    BY <1>1 DEF RemoveStale, StatusesTrue, StartedInOrder, EndedForAReason
  <2>2. FilesOfThisLaunch'
    BY <1>1 DEF RemoveStale, FilesOfThisLaunch
  <2>3. ResultIsFound' /\ LeadersReaped' /\ SolverAfterReady'
    BY <1>1 DEF RemoveStale, StartedInOrder, ResultIsFound, LeadersReaped, SolverAfterReady, Components
  <2> QED
    BY <2>1, <2>2, <2>3
<1>2. CASE StartHost
  <2>1. TypeOK'
    BY <1>2 DEF StartHost, Fork
  <2>4. StatusesTrue'
    <3>1. leader["host"] = "absent" /\ code["host"] = None
      BY <1>2 DEF StartHost, StartedInOrder, StatusesTrue
    <3> QED
      BY <1>2, <3>1 DEF StartHost, Fork, StatusesTrue
  <2>2. StartedInOrder' /\ FilesOfThisLaunch' /\ EndedForAReason'
    BY <1>2 DEF StartHost, Fork, StartedInOrder, FilesOfThisLaunch, EndedForAReason
  <2>3. ResultIsFound' /\ LeadersReaped' /\ SolverAfterReady'
    BY <1>2 DEF StartHost, Fork, StartedInOrder, ResultIsFound, LeadersReaped, SolverAfterReady,
                finished, Components
  <2> QED
    BY <2>1, <2>2, <2>3, <2>4
<1>3. CASE ScanReady
  <2>1. /\ pc = "scan" /\ pc' \in {"scan", "early_stop", "start_solver"} /\ seen' \in SUBSET Markers
        /\ seen' \subseteq announced /\ (pc' = "start_solver" => announced = Markers)
    <3>1. CASE seen = Markers
      BY <1>3, <3>1 DEF ScanReady, FilesOfThisLaunch
    <3>2. CASE seen # Markers
      BY <1>3, <3>2 DEF ScanReady, FilesOfThisLaunch
    <3> QED
      BY <3>1, <3>2
  <2>2. UNCHANGED <<leader, code, members, signalled, first, status, markers, announced, stop, late,
                    todo, throwing, failed_first, cancelled, result>>
    BY <1>3 DEF ScanReady
  <2> QED
    BY <2>1, <2>2 DEF StatusesTrue, StartedInOrder, FilesOfThisLaunch, EndedForAReason,
                      ResultIsFound, LeadersReaped, SolverAfterReady, finished
<1>4. CASE EarlyStop \/ EarlyExit
  <2>1. TypeOK'
    <3>1. CASE EarlyStop
      BY <3>1 DEF EarlyStop, TodoLists
    <3>2. CASE EarlyExit
      BY <3>2 DEF EarlyExit, TodoLists
    <3> QED
      BY <1>4, <3>1, <3>2
  <2>2. StatusesTrue' /\ StartedInOrder' /\ FilesOfThisLaunch'
    BY <1>4 DEF EarlyStop, EarlyExit, StatusesTrue, StartedInOrder, FilesOfThisLaunch
  <2>3. EndedForAReason'
    <3>1. CASE EarlyStop
      BY <3>1 DEF EarlyStop, EndedForAReason
    <3>2. CASE EarlyExit
      <4>1. /\ pc = "early_exit" /\ todo = <<>> /\ ~signalled["solver"]
            /\ \/ pc' = "terminate" /\ todo' = <<"host">>
               \/ pc' = "scan" /\ todo' = <<>>
            /\ UNCHANGED <<signalled, failed_first, cancelled>>
        BY <3>2 DEF EarlyExit, EndedForAReason
      <4>2. todo' # <<"solver">> /\ todo' # <<"host", "solver">>
        <5>1. <<"host">> # <<"solver">> /\ <<"host">> # <<"host", "solver">> /\ <<>> # <<"solver">>
              /\ <<>> # <<"host", "solver">>
          OBVIOUS
        <5> QED
          BY <4>1, <5>1
      <4> QED
        BY <4>1, <4>2 DEF EndedForAReason
    <3> QED
      BY <1>4, <3>1, <3>2
  <2>4. ResultIsFound' /\ LeadersReaped' /\ SolverAfterReady'
    BY <1>4 DEF EarlyStop, EarlyExit, ResultIsFound, LeadersReaped, SolverAfterReady, finished
  <2> QED
    BY <2>1, <2>2, <2>3, <2>4
<1>5. CASE StartSolver
  <2>1. TypeOK'
    BY <1>5 DEF StartSolver, Fork
  <2>2. StatusesTrue'
    <3>1. leader["solver"] = "absent" /\ code["solver"] = None
      BY <1>5 DEF StartSolver, StartedInOrder, StatusesTrue
    <3> QED
      BY <1>5, <3>1 DEF StartSolver, Fork, StatusesTrue
  <2>3. StartedInOrder' /\ FilesOfThisLaunch' /\ EndedForAReason'
    BY <1>5 DEF StartSolver, Fork, StartedInOrder, FilesOfThisLaunch, EndedForAReason
  <2>4. ResultIsFound' /\ LeadersReaped' /\ SolverAfterReady'
    BY <1>5 DEF StartSolver, Fork, FilesOfThisLaunch, ResultIsFound, LeadersReaped, SolverAfterReady
  <2> QED
    BY <2>1, <2>2, <2>3, <2>4
<1> QED
  BY <1>1, <1>2, <1>3, <1>4, <1>5

\* From the polling loop to the decision whom to end.
LEMMA PollingStep ==
    IInv /\ (PollHost \/ PollSolver \/ PollStop \/ Decide \/ Branch \/ SolverLeft) => IInv'
<1> SUFFICES ASSUME IInv, PollHost \/ PollSolver \/ PollStop \/ Decide \/ Branch \/ SolverLeft
             PROVE  IInv'
  OBVIOUS
<1> USE DEF IInv, TypeOK, Labels, processVars, fileVars, localVars, Goto, finished
<1>1. StatusesTrue' /\ ResultIsFound' /\ LeadersReaped' /\ SolverAfterReady'
  BY DEF PollHost, PollSolver, PollStop, Decide, Branch, SolverLeft, StatusesTrue,
         ResultIsFound, LeadersReaped, SolverAfterReady
<1>2. StartedInOrder' /\ FilesOfThisLaunch'
  BY DEF PollHost, PollSolver, PollStop, Decide, Branch, SolverLeft, StartedInOrder,
         FilesOfThisLaunch, Starting, Waiting, Polling, Ending
<1>3. TypeOK' /\ EndedForAReason'
  <2> USE DEF EndedForAReason, Starting, Waiting, Polling, Ending, TodoLists
  <2>1. CASE PollHost \/ PollSolver
    BY <2>1 DEF PollHost, PollSolver
  <2>5. CASE Decide
    BY <2>5 DEF Decide
  <2>2. CASE PollStop
    BY <2>2 DEF PollStop
  <2>3. CASE Branch
    BY <2>3 DEF Branch
  <2>4. CASE SolverLeft
    BY <2>4 DEF SolverLeft
  <2> QED
    BY <2>1, <2>2, <2>3, <2>4, <2>5
<1> QED
  BY <1>1, <1>2, <1>3

\* terminate for every component in todo, and the joins.
LEMMA EndingStep ==
    IInv /\ (Terminate \/ SignalTerm \/ GraceOver \/ SignalKill \/ Join) => IInv'
<1> SUFFICES ASSUME IInv, Terminate \/ SignalTerm \/ GraceOver \/ SignalKill \/ Join PROVE IInv'
  OBVIOUS
<1> USE DEF IInv, Goto, Starting, Waiting, Polling, Ending
<1>1. CASE Terminate \/ SignalTerm \/ GraceOver
  <2>1. pc \in Ending /\ pc' \in Ending \cup {"join"} /\ leader' = leader
    BY <1>1 DEF Terminate, SignalTerm, GraceOver, processVars
  <2>2. UNCHANGED <<leader, code, members, first, status, fileVars, stop, late, seen, throwing,
                    failed_first, cancelled, result>>
    BY <1>1 DEF Terminate, SignalTerm, GraceOver, processVars, localVars
  <2>3. \/ todo' = todo /\ ((pc' \in {"term", "grace", "kill"} /\ todo # <<>>) \/ (pc' = "join" /\ todo = <<>>))
        \/ todo # <<>> /\ todo' = Tail(todo) /\ pc' = "terminate"
    BY <1>1 DEF Terminate, SignalTerm, GraceOver, localVars, EndedForAReason
  <2>4. \/ signalled' = signalled
        \/ todo # <<>> /\ signalled' = [signalled EXCEPT ![Head(todo)] = TRUE]
    BY <1>1 DEF Terminate, SignalTerm, GraceOver, processVars, EndedForAReason
  <2>5. TypeOK'
    <3>1. todo' \in TodoLists
      BY <2>3, TodoShrinks DEF TypeOK
    <3>2. signalled' \in [Components -> BOOLEAN]
      <4>1. signalled \in [Components -> BOOLEAN] /\ (todo # <<>> => Head(todo) \in Components)
        BY TodoShrinks DEF TypeOK
      <4> QED
        BY <2>4, <4>1
    <3> QED
      BY <2>1, <2>2, <3>1, <3>2 DEF TypeOK, Labels, fileVars
  <2>6. StatusesTrue' /\ StartedInOrder' /\ FilesOfThisLaunch'
    BY <2>1, <2>2 DEF StatusesTrue, StartedInOrder, FilesOfThisLaunch, fileVars
  <2>7. EndedForAReason'
    <3>1. pc' \notin Ending => todo' = <<>>
      BY <2>1, <2>3 DEF TypeOK
    <3>2. pc' \in {"term", "grace", "kill"} => todo' # <<>>
      BY <2>1, <2>3 DEF EndedForAReason
    <3>3. signalled'["solver"] \/ todo' \in {<<"solver">>, <<"host", "solver">>} =>
             failed_first \/ cancelled
      <4>1. signalled'["solver"] => signalled["solver"] \/ todo = <<"solver">>
        BY <2>4, TodoShrinks DEF TypeOK, Components
      <4>2. todo' \in {<<"solver">>, <<"host", "solver">>} => todo \in {<<"solver">>, <<"host", "solver">>}
        BY <2>3, TodoShrinks
      <4> QED
        BY <4>1, <4>2 DEF EndedForAReason
    <3> QED
      BY <2>1, <2>2, <3>1, <3>2, <3>3 DEF EndedForAReason
  <2>8. ResultIsFound' /\ LeadersReaped' /\ SolverAfterReady'
    BY <2>1, <2>2 DEF ResultIsFound, LeadersReaped, SolverAfterReady, fileVars
  <2> QED
    BY <2>5, <2>6, <2>7, <2>8
<1>2. CASE SignalKill
  <2>1. todo # <<>> /\ Head(todo) \in Components
    BY <1>2, TodoShrinks DEF SignalKill, EndedForAReason
  <2> DEFINE c == Head(todo)
  <2>2. /\ pc = "kill" /\ pc' = "terminate" /\ todo' = Tail(todo)
        /\ members' = [members EXCEPT ![c] = FALSE]
        /\ \/ /\ leader[c] = "running" /\ leader' = [leader EXCEPT ![c] = "exited"]
              /\ code' = [code EXCEPT ![c] = 137] /\ first' \in {first, c}
           \/ UNCHANGED <<leader, code, first>>
        /\ UNCHANGED <<signalled, status, fileVars, stop, late, seen, throwing, failed_first,
                       cancelled, result>>
    BY <1>2 DEF SignalKill, Dies
  <2> HIDE DEF c
  <2>3. c \in Components
    BY <2>1 DEF c
  <2>4. TypeOK'
    BY <2>1, <2>2, <2>3, TodoShrinks DEF TypeOK, Labels, Statuses, Codes, fileVars
  <2>5. StatusesTrue'
    BY <2>2, <2>3 DEF StatusesTrue, TypeOK, None
  <2>6. StartedInOrder' /\ FilesOfThisLaunch'
    BY <2>2, <2>3 DEF StartedInOrder, FilesOfThisLaunch, TypeOK, fileVars, Components
  <2>7. EndedForAReason'
    BY <2>1, <2>2, TodoShrinks DEF EndedForAReason, TypeOK
  <2>8. ResultIsFound' /\ LeadersReaped' /\ SolverAfterReady'
    BY <2>2, <2>3 DEF ResultIsFound, LeadersReaped, SolverAfterReady, fileVars, TypeOK, Components
  <2> QED
    BY <2>4, <2>5, <2>6, <2>7, <2>8
<1>3. CASE Join
  <2>1. TypeOK'
    <3>1. CASE throwing
      BY <1>3, <3>1 DEF Join, TypeOK, Labels, processVars, localVars
    <3>2. CASE ~throwing
      <4>1. result' \in Results
        BY <1>3, <3>2 DEF Join, TypeOK, Results, Components
      <4> QED
        BY <1>3, <3>2, <4>1 DEF Join, TypeOK, Labels, processVars, localVars
    <3> QED
      BY <3>1, <3>2
  <2>2. StatusesTrue' /\ StartedInOrder' /\ FilesOfThisLaunch' /\ EndedForAReason'
    BY <1>3 DEF Join, StatusesTrue, StartedInOrder, FilesOfThisLaunch, EndedForAReason,
                processVars, localVars
  <2>3. LeadersReaped'
    <3>1. \A c \in Components : leader[c] # "absent" => leader[c] = "exited" /\ finished(c)
      BY <1>3 DEF Join, StatusesTrue, finished
    <3> QED
      BY <1>3, <3>1 DEF Join, LeadersReaped, processVars, finished
  <2>4. ResultIsFound' /\ SolverAfterReady'
    BY <1>3 DEF Join, ResultIsFound, SolverAfterReady, processVars, localVars
  <2> QED
    BY <2>1, <2>2, <2>3, <2>4
<1> QED
  BY <1>1, <1>2, <1>3

LEMMA StutterStep == IInv /\ UNCHANGED vars => IInv'
BY DEF IInv, vars, processVars, fileVars, localVars, TypeOK, StatusesTrue, StartedInOrder,
       FilesOfThisLaunch, EndedForAReason, ResultIsFound, LeadersReaped, SolverAfterReady, finished

LEMMA Invariant == Spec => []IInv
<1>1. IInv /\ [Next]_vars => IInv'
  BY EnvironmentStep, WatchStep, StartingStep, PollingStep, EndingStep, StutterStep
     DEF Next, Supervisor
<1> QED
  BY InvariantInit, <1>1, PTL DEF Spec
-----------------------------------------------------------------------------
\* Type correctness of the supervisor: statuses are exit statuses and todo is one of
\* the four lists the code ever terminates.
THEOREM TypeCorrect == Spec => []TypeOK
<1>1. IInv => TypeOK
  BY DEF IInv
<1> QED
  BY <1>1, Invariant, PTL

\* Whatever files an earlier run left and whenever the host dies or withdraws a file,
\* sail_longship starts the solver only after its own host announced every endpoint.
THEOREM SolverStartsAfterReady == Spec => []SolverAfterReady
<1>1. IInv => SolverAfterReady
  BY DEF IInv
<1> QED
  BY <1>1, Invariant, PTL

\* On every way out of sail_longship but std::terminate, each leader it started has
\* ended and its status was collected by the watcher it joined.
THEOREM EveryLeaderReaped == Spec => []LeadersReaped
<1>1. IInv => LeadersReaped
  BY DEF IInv
<1> QED
  BY <1>1, Invariant, PTL

\* A LongshipResult with success() true: the solver exited with status 0 and was never
\* sent a signal, because it is signalled only with a stop or the blame recorded.
THEOREM SuccessMeansSuccess == Spec => []SuccessIsReal
<1>1. IInv => SuccessIsReal
  <2> SUFFICES ASSUME IInv, pc = "returned", success
               PROVE  code["solver"] = 0 /\ ~signalled["solver"]
    BY DEF SuccessIsReal
  <2>1. leader["solver"] # "absent" /\ status["solver"] = 0
    BY DEF IInv, ResultIsFound, success
  <2>2. code["solver"] = 0
    BY <2>1 DEF IInv, StatusesTrue, Components, None
  <2>3. ~signalled["solver"]
    BY DEF IInv, ResultIsFound, EndedForAReason, success
  <2> QED
    BY <2>2, <2>3
<1> QED
  BY <1>1, Invariant, PTL
=============================================================================
