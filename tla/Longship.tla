------------------------------ MODULE Longship ------------------------------
(***************************************************************************)
(* The Longship supervisor (longship_supervisor.cpp): it starts a          *)
(* ModelHost, waits for its readiness markers, starts the solver, and      *)
(* couples the two lifetimes.  Every component is a process group: a       *)
(* leader the supervisor forked and possibly other members the leader      *)
(* started.  A watcher thread per component waits for the leader and       *)
(* publishes its exit status; the supervisor reads it in a polling loop.   *)
(*                                                                         *)
(* A wait on a condition variable without a predicate may return at any    *)
(* moment (status published, time over, spurious wake-up), so each wait is *)
(* a label the supervisor can leave whenever it is scheduled.              *)
(***************************************************************************)
EXTENDS Integers, Sequences

CONSTANT Markers   \* the readiness files of the launch

\* LongshipLaunch::validate refuses a launch without readiness files.
ASSUME MarkersAssumption == Markers # {}

Components == {"host", "solver"}

\* Exit statuses told apart: success, failure, death by SIGTERM, by SIGKILL.
Codes == {0, 1, 143, 137}
None == -1
Nobody == "nobody"

VARIABLES
    leader,    \* "absent", "running" or "exited", per component
    code,      \* normalized exit status of the leader, None while it lives
    members,   \* whether other processes of the group are alive
    signalled, \* whether the group was sent SIGTERM
    status,    \* ChildState::status_, None until the watcher stores it
    markers,   \* readiness files that exist
    announced, \* readiness files this launch's host created
    first,     \* the leader that exited first, Nobody before
    stop,      \* LongshipStop::requested_
    seen,      \* readiness files the current scan has found
    late,      \* the readiness deadline has passed
    pc,        \* where sail_longship is
    todo,      \* components still to terminate, in order
    throwing,  \* terminate and join run in the handler that rethrows
    failed_first, cancelled, \* locals that end up in the result
    result     \* what sail_longship returned

processVars == <<leader, code, members, signalled, first>>
fileVars == <<markers, announced>>
localVars == <<seen, todo, throwing, failed_first, cancelled>>
vars == <<processVars, status, fileVars, stop, late, pc, localVars, result>>

NoResult == [solver |-> None, host |-> None, failed_first |-> FALSE, cancelled |-> FALSE]

\* A launch may find readiness files an earlier run left behind.
Init ==
    /\ leader = [c \in Components |-> "absent"]
    /\ code = [c \in Components |-> None]
    /\ members = [c \in Components |-> FALSE]
    /\ signalled = [c \in Components |-> FALSE]
    /\ status = [c \in Components |-> None]
    /\ markers \in SUBSET Markers /\ announced = {}
    /\ first = Nobody
    /\ stop = FALSE /\ late = FALSE
    /\ pc = "remove_stale"
    /\ seen = {} /\ todo = <<>> /\ throwing = FALSE /\ failed_first = FALSE /\ cancelled = FALSE
    /\ result = NoResult
-----------------------------------------------------------------------------
(***************************************************************************)
(* The processes.                                                          *)
(***************************************************************************)

OutsideSupervisor == <<pc, localVars, result>>

\* Leader c is gone with this exit status.
Dies(c, exit) ==
    /\ leader' = [leader EXCEPT ![c] = "exited"]
    /\ code' = [code EXCEPT ![c] = exit]
    /\ first' = IF first = Nobody THEN c ELSE first

\* The leader ends on its own or of a SIGTERM; the rest of its group may not.
LeaderExits(c, exit) ==
    /\ leader[c] = "running"
    /\ exit \in {0, 1} \/ (exit = 143 /\ signalled[c])
    /\ Dies(c, exit)
    /\ UNCHANGED <<members, signalled, status, fileVars, stop, late, OutsideSupervisor>>

\* The leader starts another process of its group, as mpirun and srun do.
MemberStarts(c) ==
    /\ leader[c] = "running" /\ ~members[c]
    /\ members' = [members EXCEPT ![c] = TRUE]
    /\ UNCHANGED <<leader, code, signalled, first, status, fileVars, stop, late,
                   OutsideSupervisor>>

MemberExits(c) ==
    /\ members[c]
    /\ members' = [members EXCEPT ![c] = FALSE]
    /\ UNCHANGED <<leader, code, signalled, first, status, fileVars, stop, late,
                   OutsideSupervisor>>

HostAlive == leader["host"] = "running" \/ members["host"]

\* The worker publishes a readiness file once listener and model are ready ...
HostAnnounces(m) ==
    /\ HostAlive /\ m \notin announced
    /\ markers' = markers \cup {m} /\ announced' = announced \cup {m}
    /\ UNCHANGED <<processVars, status, stop, late, OutsideSupervisor>>

\* ... and removes it when it ends in order.
HostWithdraws(m) ==
    /\ HostAlive /\ m \in announced \cap markers
    /\ markers' = markers \ {m}
    /\ UNCHANGED <<processVars, status, announced, stop, late, OutsideSupervisor>>

\* The watcher thread returns from waitpid and publishes the status.
Watch(c) ==
    /\ leader[c] = "exited" /\ status[c] = None
    /\ status' = [status EXCEPT ![c] = code[c]]
    /\ UNCHANGED <<processVars, fileVars, stop, late, OutsideSupervisor>>

\* SIGINT or SIGTERM to the supervisor.
RequestStop ==
    /\ ~stop
    /\ stop' = TRUE
    /\ UNCHANGED <<processVars, status, fileVars, late, OutsideSupervisor>>

\* The readiness timeout elapses.
DeadlinePasses ==
    /\ ~late
    /\ late' = TRUE
    /\ UNCHANGED <<processVars, status, fileVars, stop, OutsideSupervisor>>
-----------------------------------------------------------------------------
(***************************************************************************)
(* sail_longship up to the point where components are ended.               *)
(***************************************************************************)

finished(c) == status[c] # None
Goto(here, next) == pc = here /\ pc' = next

\* fork and setpgid; the leader runs in a group of its own.
Fork(c) ==
    /\ leader' = [leader EXCEPT ![c] = "running"]
    /\ UNCHANGED <<code, members, signalled, first>>

\* Mutant of RemoveStale: files of an earlier run are left.
KeepStale ==
    /\ Goto("remove_stale", "start_host")
    /\ UNCHANGED <<processVars, status, fileVars, stop, late, localVars, result>>

RemoveStale ==
    /\ \/ Goto("remove_stale", "start_host") /\ markers' = {}
       \/ Goto("remove_stale", "threw") /\ markers' \in SUBSET markers \* filesystem_error
    /\ UNCHANGED <<processVars, status, announced, stop, late, localVars, result>>

\* A fork that fails here throws; ReadinessCleanup has nothing to remove.
StartHost ==
    /\ \/ Goto("start_host", "scan") /\ Fork("host")
       \/ Goto("start_host", "threw") /\ UNCHANGED processVars
    /\ UNCHANGED <<status, fileVars, stop, late, localVars, result>>

\* all_ready looks at one file after the other and gives up at the first that
\* is missing.
ScanReady ==
    /\ pc = "scan"
    /\ IF seen = Markers
       THEN pc' = "start_solver" /\ UNCHANGED seen
       ELSE \E m \in Markers \ seen :
               IF m \in markers
               THEN seen' = seen \cup {m} /\ UNCHANGED pc
               ELSE seen' = {} /\ pc' = "early_stop"
    /\ UNCHANGED <<processVars, status, fileVars, stop, late, todo, throwing,
                   failed_first, cancelled, result>>

\* wait_until_ready: a stop is looked at before the host and the deadline.
EarlyStop ==
    /\ pc = "early_stop"
    /\ IF stop
       THEN pc' = "terminate" /\ todo' = <<"host">> /\ cancelled' = TRUE
       ELSE pc' = "early_exit" /\ UNCHANGED <<todo, cancelled>>
    /\ UNCHANGED <<processVars, status, fileVars, stop, late, seen, throwing,
                   failed_first, result>>

\* Mutant of EarlyExit: the deadline is not looked at.
NoDeadline ==
    /\ pc = "early_exit"
    /\ IF finished("host")
       THEN pc' = "terminate" /\ todo' = <<"host">> /\ throwing' = TRUE
       ELSE pc' = "scan" /\ UNCHANGED <<todo, throwing>>
    /\ UNCHANGED <<processVars, status, fileVars, stop, late, seen, failed_first,
                   cancelled, result>>

\* A host that ended, or the deadline, throws; the handler ends the host.
EarlyExit ==
    /\ pc = "early_exit"
    /\ IF finished("host") \/ late
       THEN pc' = "terminate" /\ todo' = <<"host">> /\ throwing' = TRUE
       ELSE pc' = "scan" /\ UNCHANGED <<todo, throwing>>
    /\ UNCHANGED <<processVars, status, fileVars, stop, late, seen, failed_first,
                   cancelled, result>>

\* A fork that fails here unwinds past a joinable watcher: std::terminate.
StartSolver ==
    /\ \/ Goto("start_solver", "poll_host") /\ Fork("solver")
       \/ Goto("start_solver", "aborted") /\ UNCHANGED processVars
    /\ UNCHANGED <<status, fileVars, stop, late, localVars, result>>

\* The loop condition: host first, then solver.
PollHost ==
    /\ Goto("poll_host", IF finished("host") THEN "decide" ELSE "poll_solver")
    /\ UNCHANGED <<processVars, status, fileVars, stop, late, localVars, result>>

PollSolver ==
    /\ Goto("poll_solver", IF finished("solver") THEN "decide" ELSE "poll_stop")
    /\ UNCHANGED <<processVars, status, fileVars, stop, late, localVars, result>>

\* Mutant of PollStop: the solver is ended before the host.
StopSolverFirst ==
    /\ pc = "poll_stop"
    /\ IF stop
       THEN pc' = "terminate" /\ todo' = <<"solver", "host">> /\ cancelled' = TRUE
       ELSE pc' = "poll_host" /\ UNCHANGED <<todo, cancelled>>
    /\ UNCHANGED <<processVars, status, fileVars, stop, late, seen, throwing,
                   failed_first, result>>

PollStop ==
    /\ pc = "poll_stop"
    /\ IF stop
       THEN pc' = "terminate" /\ todo' = <<"host", "solver">> /\ cancelled' = TRUE
       ELSE pc' = "poll_host" /\ UNCHANGED <<todo, cancelled>>
    /\ UNCHANGED <<processVars, status, fileVars, stop, late, seen, throwing,
                   failed_first, result>>

\* The loop has ended: did the host fail first?
Decide ==
    /\ Goto("decide", "branch")
    /\ failed_first' = (finished("host") /\ finished("solver") /\ status["host"] # 0)
    /\ UNCHANGED <<processVars, status, fileVars, stop, late, seen, todo, throwing,
                   cancelled, result>>

\* Only the host has ended: after a clean exit the solver gets one grace wait.
\* Otherwise the resident host is asked to stop.
Branch ==
    /\ pc = "branch"
    /\ IF finished("host") /\ ~finished("solver")
       THEN pc' = "solver_left" /\ UNCHANGED todo
       ELSE pc' = "terminate" /\ todo' = <<"host">>
    /\ UNCHANGED <<processVars, status, fileVars, stop, late, seen, throwing,
                   failed_first, cancelled, result>>

\* Mutant of SolverLeft: the solver is ended but the host not blamed.
EndSolverQuietly ==
    /\ Goto("solver_left", "terminate")
    /\ todo' = IF finished("solver") THEN todo ELSE <<"solver">>
    /\ UNCHANGED <<processVars, status, fileVars, stop, late, seen, throwing,
                   failed_first, cancelled, result>>

SolverLeft ==
    /\ Goto("solver_left", "terminate")
    /\ IF finished("solver")
       THEN UNCHANGED <<todo, failed_first>>
       ELSE todo' = <<"solver">> /\ failed_first' = TRUE
    /\ UNCHANGED <<processVars, status, fileVars, stop, late, seen, throwing,
                   cancelled, result>>
-----------------------------------------------------------------------------
(***************************************************************************)
(* ChildState::terminate for the components in todo, then join.            *)
(***************************************************************************)

\* terminate returns at once when the leader has been reaped.
Terminate ==
    /\ pc = "terminate"
    /\ IF todo = <<>> THEN pc' = "join" /\ UNCHANGED todo
       ELSE IF finished(Head(todo)) THEN todo' = Tail(todo) /\ UNCHANGED pc
       ELSE pc' = "term" /\ UNCHANGED todo
    /\ UNCHANGED <<processVars, status, fileVars, stop, late, seen, throwing,
                   failed_first, cancelled, result>>

\* SIGTERM to the group.
SignalTerm ==
    /\ Goto("term", "grace")
    /\ signalled' = [signalled EXCEPT ![Head(todo)] = TRUE]
    /\ UNCHANGED <<leader, code, members, first, status, fileVars, stop, late, localVars,
                   result>>

\* Mutant of GraceOver: a leader that ignores SIGTERM is never killed.
NeverKill ==
    /\ Goto("grace", "terminate")
    /\ todo' = Tail(todo)
    /\ UNCHANGED <<processVars, status, fileVars, stop, late, seen, throwing,
                   failed_first, cancelled, result>>

\* The grace wait is over: SIGKILL only if the leader is still not reaped.
GraceOver ==
    /\ pc = "grace"
    /\ IF finished(Head(todo))
       THEN pc' = "terminate" /\ todo' = Tail(todo)
       ELSE pc' = "kill" /\ UNCHANGED todo
    /\ UNCHANGED <<processVars, status, fileVars, stop, late, seen, throwing,
                   failed_first, cancelled, result>>

\* SIGKILL ends every process of the group.
SignalKill ==
    LET c == Head(todo)
    IN  /\ Goto("kill", "terminate")
        /\ members' = [members EXCEPT ![c] = FALSE]
        /\ IF leader[c] = "running" THEN Dies(c, 137)
           ELSE UNCHANGED <<leader, code, first>>
        /\ todo' = Tail(todo)
        /\ UNCHANGED <<signalled, status, fileVars, stop, late, seen, throwing,
                       failed_first, cancelled, result>>

\* Mutant of Join: the watchers are not waited for.
ReturnUnjoined ==
    /\ pc = "join"
    /\ markers' = {}
    /\ IF throwing THEN pc' = "threw" /\ UNCHANGED result
       ELSE /\ pc' = "returned"
            /\ result' = [solver |-> status["solver"], host |-> status["host"],
                          failed_first |-> failed_first, cancelled |-> cancelled]
    /\ UNCHANGED <<processVars, status, announced, stop, late, localVars>>

\* Join the watchers of what was started, return, and let ReadinessCleanup
\* remove the markers.  A launch cancelled before the solver reports 130.
Join ==
    /\ pc = "join"
    /\ \A c \in Components : leader[c] # "absent" => finished(c)
    /\ markers' = {}
    /\ IF throwing THEN pc' = "threw" /\ UNCHANGED result
       ELSE /\ pc' = "returned"
            /\ result' = [solver |-> IF leader["solver"] = "absent" THEN 130
                                     ELSE status["solver"],
                          host |-> status["host"],
                          failed_first |-> failed_first, cancelled |-> cancelled]
    /\ UNCHANGED <<processVars, status, announced, stop, late, localVars>>
-----------------------------------------------------------------------------
Supervisor ==
    \/ RemoveStale
    \/ StartHost
    \/ ScanReady
    \/ EarlyStop
    \/ EarlyExit
    \/ StartSolver
    \/ PollHost
    \/ PollSolver
    \/ PollStop
    \/ Decide
    \/ Branch
    \/ SolverLeft
    \/ Terminate
    \/ SignalTerm
    \/ GraceOver
    \/ SignalKill
    \/ Join

Environment ==
    \/ \E c \in Components :
          \/ \E exit \in {0, 1, 143} : LeaderExits(c, exit)
          \/ MemberStarts(c)
          \/ MemberExits(c)
    \/ \E m \in Markers : HostAnnounces(m) \/ HostWithdraws(m)
    \/ RequestStop

Next ==
    \/ Supervisor
    \/ \E c \in Components : Watch(c)
    \/ DeadlinePasses
    \/ Environment

Spec == Init /\ [][Next]_vars

\* The supervisor and its watchers are scheduled and time passes.  Nobody has
\* to exit, to get ready or to ask for a stop.
Fairness ==
    /\ WF_vars(Supervisor)
    /\ \A c \in Components : WF_vars(Watch(c))
    /\ WF_vars(DeadlinePasses)

FairSpec == Spec /\ Fairness
-----------------------------------------------------------------------------
Labels == {"remove_stale", "start_host", "scan", "early_stop", "early_exit",
           "start_solver", "poll_host", "poll_solver", "poll_stop", "decide", "branch",
           "solver_left", "terminate", "term", "grace", "kill", "join", "returned",
           "threw", "aborted"}
Over == {"returned", "threw", "aborted"}
Statuses == Codes \cup {None}
TodoLists == {<<>>, <<"host">>, <<"solver">>, <<"host", "solver">>}
Results == [solver : Statuses \cup {130}, host : Statuses,
            failed_first : BOOLEAN, cancelled : BOOLEAN]

TypeOK ==
    /\ leader \in [Components -> {"absent", "running", "exited"}]
    /\ code \in [Components -> Statuses] /\ status \in [Components -> Statuses]
    /\ members \in [Components -> BOOLEAN] /\ signalled \in [Components -> BOOLEAN]
    /\ markers \in SUBSET Markers /\ announced \in SUBSET Markers
    /\ seen \in SUBSET Markers
    /\ first \in Components \cup {Nobody}
    /\ stop \in BOOLEAN /\ late \in BOOLEAN
    /\ pc \in Labels
    /\ todo \in TodoLists
    /\ throwing \in BOOLEAN /\ failed_first \in BOOLEAN /\ cancelled \in BOOLEAN
    /\ result \in Results

\* The solver is started only after the host of this very launch has announced
\* every endpoint: a file left by an earlier run does not count.
SolverAfterReady == leader["solver"] # "absent" => announced = Markers

\* When sail_longship is left in order, no leader it started is still running
\* and none is unreaped: no zombie, no running component.
LeadersReaped ==
    pc \in {"returned", "threw"} =>
        \A c \in Components : leader[c] # "absent" => leader[c] = "exited" /\ finished(c)

\* LongshipResult::success.
success == result.solver = 0 /\ ~result.failed_first /\ ~result.cancelled

\* Success is reported only when the solver ended by itself with status 0: the
\* supervisor did not signal it, and no stop cut the run short.
SuccessIsReal ==
    pc = "returned" /\ success => code["solver"] = 0 /\ ~signalled["solver"]

\* A component that ends, or a stop, ends the whole launch.
CoupledLifetimes ==
    (stop \/ \E c \in Components : leader[c] = "exited") ~> pc \in Over

\* Readiness is not waited for forever, even by a host that does nothing.
ReadinessDecided == <>(pc \in Over \/ leader["solver"] # "absent")

\* No process of either group is left when the supervisor returns.
NoOrphan == pc = "returned" => \A c \in Components : ~members[c]

\* The host is blamed only if it did not outlive the solver.
BlameIsRight == pc = "returned" /\ result.failed_first => first # "solver"
=============================================================================
