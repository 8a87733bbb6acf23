------------------------------ MODULE PythonRun ------------------------------
(***************************************************************************)
(* A launch from Python, from end to end.  The native runtime is built     *)
(* (NativeBuild), a declaration is checked and its case prepared           *)
(* (CasePreparation), the resident hosts are started (HostGroup, with      *)
(* CompileCache) and evaluate (Resident), the handle and its threads follow*)
(* the run (RunControl), and the iterator of the observations reads what   *)
(* the solver writes (ObservationReader).  All of them share directories   *)
(* with each other, with a clobber command and with somebody at a shell    *)
(* (Workspace).  Between them stand the native supervisor, told here only  *)
(* by what it makes the parts do (module Longship has its steps), and the  *)
(* solver.                                                                 *)
(***************************************************************************)
EXTENDS ObservationReader, HostGroup, CasePreparation, NativeBuild, Resident

VARIABLES
    sailing,  \* bound: the launch is followed beyond its preparation
    shared,   \* somebody else works on the directories, and the disk may fill
    solver,   \* "absent", "running", "ended" or "broken" (its leader killed or failed)
    touched,  \* history: somebody removed or moved the run's directory
    recorded  \* history: the lines each rank had written when the process exited

steady == <<sailing, shared, recorded>>
vars == <<workspaceVars, preparationVars, runVars, readerVars, hostGroupVars, buildVars, residentVars,
          steady, solver, touched>>

TypeOK ==
    /\ WorkspaceTypeOK /\ PreparationTypeOK /\ RunTypeOK /\ ReaderTypeOK /\ HostGroupTypeOK
    /\ BuildTypeOK /\ ResidentTypeOK
    /\ sailing \in BOOLEAN /\ shared \in BOOLEAN
    /\ solver \in {"absent", "running", "ended", "broken"} /\ touched \in BOOLEAN
    /\ recorded \in [1..MaxSources -> Nat]

\* The parts agree on what the declaration says: whether a Slurm job is behind the
\* process, whose files are read, a host for each program, its threads, and the
\* ranks it serves.
Agreed ==
    LET d == declaration
    IN  /\ scheduled = Given(d.slurm)
        /\ sources = ObservationSources(d)
        /\ Cardinality(programs) = Len(Programs(d))
        /\ threads = ThreadBudgets(d)[1]
        /\ served \in {0, d.ranks}

\* The build's directories are there or not, owned or not; the others are made.
\* The reader is no caller as well, and only a job that Slurm starts again finds
\* readiness files.
Init ==
    /\ \E b \in {Absent, Unmarked, Build}, n \in {Absent, Unmarked, Native} :
          root = [p \in Paths |-> IF p = Build THEN b ELSE IF p = Native THEN n ELSE Absent]
    /\ ClobberIdle /\ PreparationInit /\ RunInit /\ ReaderInit /\ HostGroupInit /\ BuildInit
    /\ ResidentInit
    /\ sailing \in BOOLEAN /\ shared \in BOOLEAN
    /\ solver = "absent" /\ touched = FALSE /\ recorded = [r \in 1..MaxSources |-> 0]
    /\ sailing => Agreed
    /\ Observed => Reader \notin callers
    /\ stale # {} => scheduled

unbuilt == <<preparationVars, steady, buildVars>>
unprepared == <<workspaceVars, runVars, readerVars, hostGroupVars, buildVars, residentVars, solver,
                touched>>
unrun == <<workspaceVars, runVars, residentVars>>
-----------------------------------------------------------------------------
(***************************************************************************)
(* Before the run.                                                         *)
(***************************************************************************)

\* `foamnordic build`
BuildRuns ==
    /\ BuildStep
    /\ UNCHANGED <<clobberVars, preparationVars, runVars, readerVars, hostGroupVars, residentVars,
                   steady, solver, touched>>

\* The native components are looked for where a build puts them.
Located(machine) ==
    [machine EXCEPT !.longship = <<IF runtime.longship = "absent" THEN "absent" ELSE "executable">>, !.worker = runtime.worker # "absent",
                    !.library = Integrations # {},
                    !.profile = IF runtime.profile = "absent" THEN "none" ELSE "inherited"]

Locate ==
    /\ phase = "declared" /\ build \in {"done", "failed"}
    /\ declaration' = [declaration EXCEPT !.machine = Located(@)]
    /\ declaration' # declaration
    /\ UNCHANGED <<unprepared, phase, renumbered, case, steady>>

\* Until it is started the Case may be initialized once more (bounds: not in a
\* launch that is followed further; after a build no clobber is under way).
PreparesCase ==
    /\ build \notin Building /\ process = "absent" /\ ClobberIdle
    /\ build # "idle" /\ phase = "declared" => declaration.machine = Located(declaration.machine)
    /\ \/ Prepare
       \/ /\ ~sailing
          /\ \E ranks \in 1..MaxSources, mesh \in {"blockMesh", "existing"}, validate \in BOOLEAN :
                Initialize(ranks, mesh, validate)
    /\ UNCHANGED <<clobberVars, runVars, readerVars, hostGroupVars, buildVars, residentVars, steady,
                   solver, touched>>

Launched ==
    /\ sailing /\ Advance("ready", "launched") /\ Start
    /\ UNCHANGED <<declaration, renumbered, case, workspaceVars, readerVars, hostGroupVars, buildVars,
                   residentVars, steady, solver, touched>>
-----------------------------------------------------------------------------
(***************************************************************************)
(* The native side of the run.                                             *)
(***************************************************************************)
HostsUp == IF Grouped THEN gpc \notin {"absent", "returned", "raised", "killed"}
           ELSE \E h \in programs : Alive(h)
HostsStarted == gpc # "absent" \/ \E h \in programs : host[h] # "absent"
HostsSucceeded == IF Grouped THEN groupCode = "ok" ELSE \A h \in programs : hostCode[h] = "ok"
SolverOver == solver \in {"ended", "broken"}

\* Longship is the process, or runs in the job.
LongshipRuns == IF scheduled THEN job = "running" ELSE process = "running"

\* Longship starts the hosts first ...
HostsStart ==
    /\ LongshipRuns /\ ~killed /\ GroupStarts /\ (scheduled \/ ~terminated)
    /\ UNCHANGED <<unrun, unbuilt, readerVars, solver, touched>>

\* ... and the solver when the readiness file it waits for is there.
SolverStarts ==
    /\ LongshipRuns /\ solver = "absent" /\ Expected /\ HostsUp /\ ~killed
    /\ solver' = "running"
    /\ UNCHANGED <<unrun, unbuilt, readerVars, hostGroupVars, touched>>

\* A rank of a broken solver may go on for a while, longer than Longship, which has
\* waited for the solver's leader; in a job all of them end with it.  Bound: each has
\* opened its file by the time the process exits.
RanksRun == solver \in {"running", "broken"} /\ (scheduled => job = "running")

SolverWrites ==
    /\ RanksRun /\ Observed
    /\ \E r \in Ranks : EndLine(r) \/ \E i \in Index : BeginLine(r, i)
    /\ UNCHANGED <<unrun, unbuilt, hostGroupVars, solver, touched>>

\* The solver ends when its writers have been joined and every rank has the answers
\* it asked for; it breaks anywhere.
SolverEnds ==
    /\ solver = "running" /\ \A r \in Ranks : torn[r] = 0
    /\ \A r \in Served : asked[r] = 0
    /\ solver' = "ended"
    /\ UNCHANGED <<unrun, unbuilt, readerVars, hostGroupVars, touched>>

SolverBreaks ==
    /\ solver = "running"
    /\ solver' = "broken"
    /\ UNCHANGED <<unrun, unbuilt, readerVars, hostGroupVars, touched>>

\* One of the hosts, which is the one whose evaluations are followed.
Evaluates ==
    /\ RanksRun /\ \E h \in programs : host[h] = "serving"
    /\ Evaluate
    /\ UNCHANGED <<workspaceVars, runVars, unbuilt, readerVars, hostGroupVars, solver, touched>>

HostsRun ==
    /\ \/ \E h \in programs : HostStep(h) \/ (SolverOver /\ HostEnds(h))
       \/ GroupStep
    /\ UNCHANGED <<unrun, unbuilt, readerVars, solver, touched>>

\* Longship ends the hosts when it was told to or the solver is over: SIGTERM,
\* then SIGKILL to the process group.
HostsStop ==
    /\ LongshipRuns /\ HostsUp /\ ((terminated /\ ~scheduled) \/ SolverOver)
    /\ IF Grouped THEN GroupSignalled \/ (stopping /\ GroupKilled) ELSE HostKilled
    /\ UNCHANGED <<unrun, unbuilt, readerVars, solver, touched>>

\* scancel, with SIGKILL from a handle or plain from submit.sh, which SIGTERM makes
\* cancel the job it knows, and which may be gone when Slurm does it; also of a job
\* that waits.
JobKilled ==
    /\ scheduled /\ (killed \/ (terminated /\ jobId))
    /\ \/ job = "pending" /\ UNCHANGED <<hostGroupVars, solver>>
       \/ job = "running" /\ GroupKilled /\ solver' = IF solver = "running" THEN "broken" ELSE solver
    /\ JobTo("cancelled")
    /\ UNCHANGED <<workspaceVars, residentVars, unbuilt, readerVars, touched>>

\* Longship returns 0 only when the hosts and the solver have succeeded, and never
\* before the leaders of both are gone; it may fail before it has started any.
LongshipMayEnd(success) ==
    /\ ~HostsUp /\ solver # "running"
    /\ success => HostsStarted /\ HostsSucceeded /\ solver = "ended"

\* The batch script's end is the job's.
JobEnds ==
    /\ job = "running"
    /\ \E state \in {"completed", "failed"} : LongshipMayEnd(state = "completed") /\ JobTo(state)
    /\ UNCHANGED <<workspaceVars, unbuilt, readerVars, hostGroupVars, residentVars, solver, touched>>

ProcessEnds(code) ==
    /\ ProcessExits(code) /\ (scheduled \/ LongshipMayEnd(code = 0))
    /\ recorded' = [r \in 1..MaxSources |-> Len(lines[r])]
    /\ UNCHANGED <<workspaceVars, preparationVars, sailing, shared, buildVars, readerVars, hostGroupVars,
                   residentVars, solver, touched>>
-----------------------------------------------------------------------------
(***************************************************************************)
(* The Python kernel, and the world around it.                             *)
(***************************************************************************)
unhandled == <<unbuilt, residentVars, solver, touched>>

\* The kernel goes, and with it the handle and the reader (bound: not while
\* evaluations are followed).
Leave ==
    /\ served = 0
    /\ KernelDies \/ Shutdown \/ ShutdownSignals
    /\ IF kernel' = "gone" THEN ReaderGone ELSE UNCHANGED readerVars
    /\ UNCHANGED <<workspaceVars, hostGroupVars, unhandled>>

\* Bound: a run is not detached that is observed or shared.
Calls ==
    /\ \/ JobSubmitted \/ JobPublished \/ JobLeavesQueue \/ (shared /\ DiskFills)
       \/ \E t \in callers : Call(t) \/ (~Observed /\ ~shared /\ Detach(t))
       \/ \E t \in Threads : WaitTimesOut(t) \/ Signal(t) \/ StartTimesOut(t) \/ LaunchInterrupted(t)
    /\ UNCHANGED <<workspaceVars, readerVars, hostGroupVars, unhandled>>

Finishes(t) ==
    /\ (Waits(t) /\ UNCHANGED workspaceVars) \/ Finish(t)
    /\ UNCHANGED <<readerVars, hostGroupVars, unhandled>>

\* stop(force=True) ends with the removal of the readiness file the supervisor was
\* given; the handle of a Slurm job was given none.
Cleans(t) ==
    /\ CleanedUp(t)
    /\ IF scheduled THEN UNCHANGED hostGroupVars ELSE ReadyRemoved
    /\ UNCHANGED <<workspaceVars, readerVars, unhandled>>

Reads ==
    /\ ReaderSteps /\ UNCHANGED runVars
    /\ UNCHANGED <<workspaceVars, hostGroupVars, unhandled>>

Asks == Ask /\ UNCHANGED <<workspaceVars, hostGroupVars, unhandled>>

ConsumerCloses ==
    /\ Closed
    /\ UNCHANGED <<workspaceVars, runVars, hostGroupVars, unhandled>>

\* Somebody else, while a build runs or a run is over (bounds: not in between, and
\* an observed run is moved or removed but not copied).
Shell ==
    /\ shared /\ (build \in Building \/ (process = "exited" /\ kernel = "alive"))
    /\ \/ Clobber
       \/ \E p \in {Prepared, Final} : (~Observed /\ UserCopies(p)) \/ UserMoves(p)
    /\ touched' = (touched \/ \E p \in {Prepared, Final} : Exists(p) /\ root'[p] = Absent)
    /\ BuildLoses
    /\ UNCHANGED <<preparationVars, runVars, readerVars, hostGroupVars, residentVars, steady, solver>>

Next ==
    \/ BuildRuns \/ Locate \/ PreparesCase \/ Launched
    \/ HostsStart \/ SolverStarts \/ SolverWrites \/ SolverEnds \/ SolverBreaks \/ Evaluates
    \/ HostsRun \/ HostsStop \/ JobKilled \/ JobEnds \/ (\E code \in {0, 1, 130} : ProcessEnds(code))
    \/ Leave \/ Calls \/ (\E t \in Threads : Finishes(t) \/ Cleans(t))
    \/ Reads \/ Asks \/ ConsumerCloses \/ Shell

Spec == Init /\ [][Next]_vars

\* Threads of a living kernel are scheduled: one that waits for the process or
\* finishes the run goes on, and so does the iterator; a handler of atexit runs.
Fairness ==
    /\ WF_readerVars(ReaderSteps \/ Ask)
    /\ WF_kernel(ShutdownSignals)
    /\ \A t \in Threads : WF_<<lock, pc>>(Waits(t) \/ Finish(t))

FairSpec == Spec /\ Fairness
-----------------------------------------------------------------------------
(***************************************************************************)
(* Properties.                                                             *)
(***************************************************************************)

\* A published Result is true of the disk, whichever thread finished the run, how
\* often finishing failed before and whoever asked in between: its directory
\* exists and is owned under the name the Result gives, and there is one log, the
\* whole one, under the name the Result gives; unless somebody took the directory
\* away.  A run that a forced stop found alive is reported as cancelled, unless a
\* later forced stop withdrew the request.  A success is one of the hosts and of the
\* solver, and of the job where there is one (Run._finish_locked, Run.stop).
ResultIsTrue ==
    Finished =>
        /\ touched \/ Generated(result.dir)
        /\ touched \/ \A n \in LogSuffixes : logs[n] = IF n = result.suffix THEN "whole" ELSE "absent"
        /\ stopped /\ ~overruled => result.status = "cancelled"
        /\ result.status = "succeeded" =>
              HostsSucceeded /\ solver = "ended" /\ (scheduled => job = "completed")

\* Whatever the iterator has read is either waiting for the other ranks or was
\* yielded, once; and when it ends no line is left unread that a rank had written by
\* the time the process exited, although the directory gets another name while it
\* reads, and ranks may outlive the process (ObservationStream.__iter__).
ObservationsComplete ==
    /\ ~twice
    /\ \A r \in Ranks : offset[r] <= Len(lines[r])
    /\ \A r \in Ranks :
          {lines[r][n] : n \in 1..offset[r]} =
          {i \in Index : r \in pending[i] \/ \E d \in delivered : d[1] = i /\ r \in d[2]}
    /\ at = "ended" /\ ~touched => \A r \in Ranks : offset[r] >= recorded[r]

\* Nobody waits forever for a run that is over.  The iteration comes to an end once
\* the process is gone, by itself or with the exception of a finish that failed,
\* even when no record was ever written; and the launch of a Slurm job returns or
\* raises, whatever sacct knows of the job (the bound on finishes tried again
\* aside; ObservationStream.__iter__, Run._wait_for_start).
WaitsEnd ==
    process = "exited" ~>
        \/ suffix = MaxSuffix
        \/ /\ Observed => at \in {"ended", "failed", "closed"}
           /\ \A t \in Threads : pc[t] # "starting"

\* What is prepared is what was declared: processors, memory, files and widths of
\* the plan, and the case on the disk (launch, prepare_case).
LaunchIsSound == PlanIsSound /\ CaseIsSound

\* No directory is lost that the program does not own: one only ceases to exist
\* where its marker names it, or where the running build has just made it, or by
\* turning up under a name nobody had, whatever is being checked, renamed, built
\* or copied at that moment (core/managed.py, `foamnordic clobber`).
WorkspaceIsSafe ==
    [][\A p \in Paths : Exists(p) /\ root'[p] = Absent =>
          \/ root[p] = p \/ p \in fresh
          \/ \E q \in {Copy, Final} : ~Exists(q) /\ root'[q] = root[p]]_vars
=============================================================================
