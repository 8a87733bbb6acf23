----------------------------- MODULE RunControl -----------------------------
(***************************************************************************)
(* The Run handle of a launch (execution/run.py).  Threads of the Python   *)
(* kernel call status, wait, stop and detach; the first that finds the     *)
(* process gone finishes the run under the handle's lock: it completes the *)
(* log, renames the logs, renames the prepared directory to its final name *)
(* and publishes an immutable Result.  Each step of that is a step here,   *)
(* because a clobber command, somebody at a shell and the observation      *)
(* reader look at the same directory, and because any of them can fail.    *)
(* The process itself is the environment: it exits with 0, 1 or 130.  It is*)
(* Longship, or the wrapper that submits a Slurm job and waits for it; a   *)
(* launch then returns its handle once the job has begun.                  *)
(***************************************************************************)
EXTENDS Workspace, Integers

CONSTANTS
    Threads,   \* threads of the kernel that use the handle
    MaxSuffix  \* bound on how often a finish that fails is tried again

Nobody == "nobody"

ASSUME RunAssumption == MaxSuffix \in Nat \ {0} /\ Nobody \notin Threads

NoResult == [status |-> "none"]
LogSuffixes == 0..MaxSuffix
Ended == {"returned", "raised"}   \* a thread that is in no call
FinishSteps == {"append", "rename", "move", "relocate"}
Labels == Ended \cup FinishSteps \cup {"starting", "waiting", "signal", "stopping", "cleanup", "gone"}

VARIABLES
    process,         \* "absent", "running" or "exited"
    exitCode,        \* of the process, -1 before
    scheduled,       \* a Slurm job stands behind the process
    accounting,      \* sacct answers
    job,             \* Slurm's state of the job, "none" before sbatch
    jobId,           \* job.id has been written
    starter,         \* the thread whose launch has not returned the handle yet
    terminated,      \* the process was sent SIGTERM
    killed,          \* the job was cancelled with SIGKILL
    kernel,          \* "alive", "leaving" (atexit) or "gone"
    diskFull,        \* writes fail: quota or no space left
    logs,            \* what each name of the Longship log holds, by suffixes added
    lock,            \* holder of Run._lock
    cancelRequested, \* Run._cancel_requested
    detached,        \* Run._detached
    workDir,         \* Run._work_dir
    suffix,          \* how many suffixes Run._longship_log carries
    result,          \* Run._result
    callers,         \* the threads that call methods of the handle
    pc,              \* where each thread is
    forced,          \* threads in a call of stop(force=True)
    stopped,         \* history: a stop found the process running and signalled it
    overruled        \* history: a later stop found it gone and withdrew the request

processVars == <<process, exitCode, scheduled, accounting, job, jobId, callers, starter>>
signalVars == <<terminated, killed>>
diskVars == <<diskFull, logs>>
handleVars == <<lock, cancelRequested, detached, workDir, suffix, result>>
callVars == <<pc, forced>>
runHistory == <<stopped, overruled>>
runVars == <<processVars, signalVars, kernel, diskVars, handleVars, callVars, runHistory>>

JobOver == {"completed", "failed", "cancelled"}
JobStates == {"none", "pending", "running"} \cup JobOver
jobVars == <<scheduled, accounting, job, jobId, callers, starter>>

Results == {NoResult} \cup
    [status : {"succeeded", "failed", "cancelled"}, dir : {Prepared, Final}, suffix : LogSuffixes]

RunTypeOK ==
    /\ process \in {"absent", "running", "exited"} /\ exitCode \in {-1, 0, 1, 130}
    /\ scheduled \in BOOLEAN /\ accounting \in BOOLEAN /\ job \in JobStates /\ jobId \in BOOLEAN
    /\ starter \in Threads \cup {Nobody}
    /\ terminated \in BOOLEAN /\ killed \in BOOLEAN
    /\ kernel \in {"alive", "leaving", "gone"} /\ diskFull \in BOOLEAN
    /\ logs \in [LogSuffixes -> {"absent", "tail", "whole"}]
    /\ lock \in Threads \cup {Nobody}
    /\ cancelRequested \in BOOLEAN /\ detached \in BOOLEAN
    /\ workDir \in {Prepared, Final} /\ suffix \in LogSuffixes /\ result \in Results
    /\ pc \in [Threads -> Labels] /\ callers \subseteq Threads /\ forced \subseteq Threads
    /\ stopped \in BOOLEAN /\ overruled \in BOOLEAN

\* Before the launch there is no handle: these are the values it is made with.
RunInit ==
    /\ process = "absent" /\ exitCode = -1 /\ scheduled \in BOOLEAN
    /\ accounting \in (IF scheduled THEN BOOLEAN ELSE {TRUE})
    /\ job = "none" /\ jobId = FALSE /\ starter = Nobody
    /\ terminated = FALSE /\ killed = FALSE
    /\ kernel = "alive" /\ diskFull = FALSE
    /\ logs = [n \in LogSuffixes |-> "absent"]
    /\ lock = Nobody /\ cancelRequested = FALSE /\ detached = FALSE
    /\ workDir = Prepared /\ suffix = 0 /\ result = NoResult
    /\ pc = [t \in Threads |-> "returned"] /\ forced = {}
    /\ callers \in SUBSET Threads
    /\ stopped = FALSE /\ overruled = FALSE

Finished == result # NoResult

\* Longship.launch goes on waiting for a Slurm job to begin (bound: when there is a
\* thread that will use the handle); without one it returns the handle.
Starter == IF scheduled /\ callers # {} THEN CHOOSE t \in callers : TRUE ELSE Nobody

\* _launch_process: the logs are initialised, the process is started in a
\* session of its own and bound to a handle.
Start ==
    /\ process = "absent" /\ process' = "running"
    /\ logs' = [logs EXCEPT ![0] = "whole"]
    /\ starter' = Starter
    /\ pc' = [t \in Threads |-> IF t = starter' THEN "starting" ELSE pc[t]]
    /\ UNCHANGED <<exitCode, scheduled, accounting, job, jobId, callers, signalVars, kernel, diskFull,
                   handleVars, forced, runHistory>>
-----------------------------------------------------------------------------
(***************************************************************************)
(* The outside: the process, Slurm, the file system and the kernel.        *)
(***************************************************************************)

\* Longship answers SIGTERM with 130 unless it was ending already.  submit.sh does so
\* at any time: it waits for the job it has cancelled, but gives up after 300 s or
\* when squeue fails.  Otherwise it returns what sacct says of a job that is over,
\* and 1 when sbatch or the job's file fails, when the job neither completed nor was
\* cancelled, or after sixty looks at which sacct and squeue, which may fail, said
\* nothing: the job may go on.
ExitCodes ==
    {1} \cup (IF terminated THEN {130} ELSE {})
        \cup (IF ~scheduled \/ (jobId /\ accounting /\ job = "completed") THEN {0} ELSE {})
        \cup (IF scheduled /\ jobId /\ accounting /\ job = "cancelled" THEN {130} ELSE {})

ProcessExits(code) ==
    /\ process = "running" /\ code \in ExitCodes
    /\ process' = "exited" /\ exitCode' = code
    /\ UNCHANGED <<jobVars, signalVars, kernel, diskVars, handleVars, callVars, runHistory>>

\* submit.sh has a job identity from sbatch ...
JobTo(state) ==
    /\ job' = state
    /\ UNCHANGED <<process, exitCode, scheduled, accounting, jobId, callers, starter, signalVars,
                   kernel, diskVars, handleVars, callVars, runHistory>>
JobSubmitted == process = "running" /\ scheduled /\ job = "none" /\ JobTo("pending")

\* ... and writes it down.
JobPublished ==
    /\ process = "running" /\ job # "none" /\ ~jobId
    /\ jobId' = TRUE
    /\ UNCHANGED <<process, exitCode, scheduled, accounting, job, callers, starter, signalVars,
                   kernel, diskVars, handleVars, callVars, runHistory>>

\* The job gets its nodes, or somebody cancels it first.
JobLeavesQueue == job = "pending" /\ (JobTo("running") \/ JobTo("cancelled"))

DiskFills ==
    /\ process = "exited" /\ diskFull' = ~diskFull
    /\ UNCHANGED <<processVars, signalVars, kernel, logs, handleVars, callVars, runHistory>>

\* The kernel is killed, or has run its atexit handler: its threads and all the
\* handle knew are gone; the process has a session of its own and goes on.
HandleGone ==
    /\ kernel' = "gone" /\ pc' = [t \in Threads |-> "gone"] /\ forced' = {}
    /\ lock' = Nobody /\ cancelRequested' = FALSE /\ detached' = FALSE
    /\ workDir' = Prepared /\ suffix' = 0 /\ result' = NoResult
    /\ stopped' = FALSE /\ overruled' = FALSE

KernelDies ==
    /\ kernel = "alive" /\ process # "absent"
    /\ HandleGone
    /\ UNCHANGED <<processVars, signalVars, diskVars>>
-----------------------------------------------------------------------------
(***************************************************************************)
(* The calls.  What a call does while it holds the lock, up to the first   *)
(* step of a finish, is one step.                                          *)
(***************************************************************************)

\* An exception reaches the caller of a method, who may call again; the iterator
\* of the observations looks at its own.
To(t, label) == pc' = [pc EXCEPT ![t] = label]
Return(t) == To(t, IF t = starter THEN "starting" ELSE "returned") /\ forced' = forced \ {t}
Except(t) == To(t, IF t \in callers THEN "returned" ELSE "raised") /\ forced' = forced \ {t}

Unlocked == kernel = "alive" /\ process # "absent" /\ lock = Nobody
MayCall(t) == Unlocked /\ starter = Nobody /\ pc[t] \in Ended

\* _finish_locked is entered: the lock is kept until it returns or raises.  Bound:
\* it is not tried again once the logs carry MaxSuffix suffixes.
BeginFinish(t) == suffix < MaxSuffix /\ lock' = t /\ To(t, "append") /\ UNCHANGED forced

\* What _query_slurm and _normalize_slurm_state make of the job: nothing without an
\* identity or without sacct.
QuerySlurm == IF jobId /\ accounting THEN job ELSE "submitting"

\* _wait_for_start, in the launch of a Slurm job: the handle is returned when the
\* job has begun or is over, with the status of the run when its process is gone,
\* which this poll may have to finish, or when start_timeout has passed.  An
\* exception leaves nobody with a handle.
WaitForStart(t) ==
    /\ kernel = "alive" /\ starter = t /\ pc[t] = "starting"
    /\ \/ QuerySlurm \in {"running"} \cup JobOver
       \/ process = "exited" /\ Finished /\ lock = Nobody
    /\ starter' = Nobody /\ To(t, "returned")
    /\ UNCHANGED <<process, exitCode, scheduled, accounting, job, jobId, callers, forced, signalVars, kernel,
                   diskVars, handleVars, runHistory>>

StartTimesOut(t) ==
    /\ kernel = "alive" /\ starter = t /\ pc[t] = "starting" /\ process = "running"
    /\ starter' = Nobody /\ To(t, "returned")
    /\ UNCHANGED <<process, exitCode, scheduled, accounting, job, jobId, callers, forced, signalVars, kernel,
                   diskVars, handleVars, runHistory>>

WaitForStartFinishes(t) ==
    /\ Unlocked /\ starter = t /\ pc[t] = "starting" /\ process = "exited" /\ ~Finished
    /\ BeginFinish(t)
    /\ UNCHANGED <<processVars, signalVars, kernel, diskVars, cancelRequested, detached, workDir, suffix,
                   result, runHistory>>

LaunchInterrupted(t) ==
    /\ kernel = "alive" /\ starter = t /\ pc[t] = "starting"
    /\ Except(t)
    /\ UNCHANGED <<processVars, signalVars, kernel, diskVars, handleVars, runHistory>>

\* Run.status
Status(t) ==
    /\ MayCall(t)
    /\ IF Finished \/ process = "running" THEN Return(t) /\ UNCHANGED lock ELSE BeginFinish(t)
    /\ UNCHANGED <<processVars, signalVars, kernel, diskVars, cancelRequested, detached, workDir, suffix,
                   result, runHistory>>

\* stop(force=False) and the first test of Run._wait
Wait(t) ==
    /\ MayCall(t)
    /\ IF Finished THEN Return(t) ELSE To(t, "waiting") /\ UNCHANGED forced
    /\ UNCHANGED <<processVars, signalVars, kernel, diskVars, handleVars, runHistory>>

\* Popen.wait has the exit code; _finish_locked looks for a result again.
WaitEnds(t) ==
    /\ Unlocked /\ pc[t] \in {"waiting", "stopping"} /\ process = "exited"
    /\ IF ~Finished THEN BeginFinish(t)
       ELSE /\ IF t \in forced THEN To(t, "cleanup") /\ UNCHANGED forced ELSE Return(t)
            /\ UNCHANGED lock
    /\ UNCHANGED <<processVars, signalVars, kernel, diskVars, cancelRequested, detached, workDir, suffix,
                   result, runHistory>>

\* The timeout of the wait elapses first: TimeoutError.
WaitTimesOut(t) ==
    /\ kernel = "alive" /\ pc[t] \in {"waiting", "stopping"} /\ process = "running"
    /\ Except(t)
    /\ UNCHANGED <<processVars, signalVars, kernel, diskVars, handleVars, runHistory>>

\* Mutant of Stop: the request is not recorded before the lock is released.
StopLate(t) ==
    /\ MayCall(t)
    /\ IF Finished
       THEN Return(t) /\ UNCHANGED runHistory
       ELSE /\ To(t, IF process = "running" THEN "signal" ELSE "stopping")
            /\ forced' = forced \cup {t}
            /\ stopped' = (stopped \/ process = "running") /\ UNCHANGED overruled
    /\ UNCHANGED <<processVars, signalVars, kernel, diskVars, handleVars>>

\* stop(force=True) up to the release of the lock: whether the process runs is
\* what is remembered as the request to cancel.
Stop(t) ==
    /\ MayCall(t)
    /\ IF Finished
       THEN Return(t) /\ UNCHANGED <<cancelRequested, runHistory>>
       ELSE /\ cancelRequested' = (process = "running")
            /\ To(t, IF process = "running" THEN "signal" ELSE "stopping")
            /\ forced' = forced \cup {t}
            /\ stopped' = (stopped \/ process = "running")
            /\ overruled' = (overruled \/ (cancelRequested /\ process # "running"))
    /\ UNCHANGED <<processVars, signalVars, kernel, diskVars, lock, detached, workDir, suffix, result>>

\* After the lock is released: terminate, or for a Slurm job force_cancel, which
\* raises when the job has no identity within 5 s or outlives its cancellation.
Signal(t) ==
    /\ kernel = "alive" /\ pc[t] = "signal"
    /\ IF ~scheduled
       THEN /\ terminated' = (terminated \/ process = "running") /\ UNCHANGED killed
            /\ To(t, "stopping") /\ UNCHANGED forced
       ELSE /\ killed' = (killed \/ jobId) /\ UNCHANGED terminated
            /\ (jobId /\ To(t, "stopping") /\ UNCHANGED forced) \/ Except(t)
    /\ UNCHANGED <<processVars, kernel, diskVars, handleVars, runHistory>>

\* The steps of a thread that waits for the process, in a call or in a launch.
Waits(t) == WaitEnds(t) \/ WaitForStart(t) \/ WaitForStartFinishes(t)

\* Run.detach; the handle also leaves the set the atexit handler goes through.
Detach(t) ==
    /\ MayCall(t)
    /\ detached' = TRUE
    /\ Return(t)
    /\ UNCHANGED <<processVars, signalVars, kernel, diskVars, lock, cancelRequested, workDir, suffix,
                   result, runHistory>>

\* The interpreter ends: its other threads have been joined, the atexit handler
\* leaves a run alone that is detached or over, requests the cancellation of any
\* other ...
Shutdown ==
    /\ Unlocked /\ \A t \in Threads : pc[t] \in Ended
    /\ IF detached \/ Finished \/ process # "running"
       THEN HandleGone
       ELSE /\ kernel' = "leaving" /\ cancelRequested' = TRUE
            /\ pc' = [t \in Threads |-> "gone"]
            /\ UNCHANGED <<forced, lock, detached, workDir, suffix, result, runHistory>>
    /\ UNCHANGED <<processVars, signalVars, diskVars>>

\* ... and ends it: scancel for a job it knows, then SIGTERM to the process.
ShutdownSignals ==
    /\ kernel = "leaving" /\ HandleGone
    /\ killed' = (killed \/ jobId)
    /\ terminated' = (terminated \/ process = "running")
    /\ UNCHANGED <<processVars, diskVars>>
-----------------------------------------------------------------------------
(***************************************************************************)
(* _finish_locked, by the thread that holds the lock.                      *)
(***************************************************************************)
At(t, step) == kernel = "alive" /\ lock = t /\ pc[t] = step

\* An exception leaves the finish: the lock is released, there is no result.
Raise(t) == lock' = Nobody /\ Except(t)

Outcome ==
    IF cancelRequested \/ exitCode = 130 THEN "cancelled"
    ELSE IF exitCode = 0 THEN "succeeded" ELSE "failed"

\* The result is published, with it the handle's paths, and the lock released.
Publish(t, dir, named) ==
    /\ result' = [status |-> Outcome, dir |-> dir, suffix |-> named]
    /\ workDir' = dir
    /\ lock' = Nobody
    /\ IF t \in forced THEN To(t, "cleanup") /\ UNCHANGED forced ELSE Return(t)

\* Two lines are appended to the log under its present name; opening it for
\* appending makes a new file when the whole one already has another name.
AppendCompletion(t) ==
    /\ At(t, "append")
    /\ IF ~Exists(workDir) \/ diskFull
       THEN Raise(t) /\ UNCHANGED logs
       ELSE /\ logs' = [logs EXCEPT ![suffix] = IF @ = "absent" THEN "tail" ELSE @]
            /\ To(t, "rename") /\ UNCHANGED <<lock, forced>>
    /\ UNCHANGED <<processVars, signalVars, kernel, diskFull, cancelRequested, detached, workDir, suffix,
                   result, runHistory, workspaceVars>>

\* _finalize_log_names, then the first tests of _finalize_work_directory: only
\* a directory with a valid marker is renamed, never over another one.  Each
\* time a finish is tried the names grow by a suffix.
RenameLogs(t) ==
    /\ At(t, "rename")
    /\ logs' = IF Exists(workDir) /\ logs[suffix] # "absent"
               THEN [logs EXCEPT ![suffix + 1] = logs[suffix], ![suffix] = "absent"]
               ELSE logs
    /\ suffix' = suffix + 1
    /\ IF ~Generated(workDir) \/ workDir = Final
       THEN Publish(t, workDir, suffix + 1)
       ELSE /\ IF Exists(Final) THEN Raise(t) ELSE To(t, "move") /\ UNCHANGED <<lock, forced>>
            /\ UNCHANGED <<workDir, result>>
    /\ UNCHANGED <<processVars, signalVars, kernel, diskFull, cancelRequested, detached,
                   runHistory, workspaceVars>>

\* The directory gets its final name; it may be gone by now.
MoveDirectory(t) ==
    /\ At(t, "move")
    /\ IF Exists(workDir) /\ ~Exists(Final)
       THEN root' = Renamed(workDir, Final) /\ To(t, "relocate") /\ UNCHANGED <<lock, forced>>
       ELSE Raise(t) /\ UNCHANGED root
    /\ UNCHANGED <<processVars, signalVars, kernel, diskVars, cancelRequested, detached, workDir, suffix,
                   result, runHistory, clobberVars>>

\* relocate_generated rewrites the marker, then the handle's paths are updated.
RelocateMarker(t) ==
    /\ At(t, "relocate")
    /\ IF MayRelocate(Final, workDir) /\ ~(Marked(Final) /\ diskFull)
       THEN root' = Relocated(Final) /\ Publish(t, Final, suffix)
       ELSE Raise(t) /\ UNCHANGED <<root, workDir, result>>
    /\ UNCHANGED <<processVars, signalVars, kernel, diskVars, suffix, cancelRequested, detached,
                   runHistory, clobberVars>>

Finish(t) == AppendCompletion(t) \/ RenameLogs(t) \/ MoveDirectory(t) \/ RelocateMarker(t)

\* stop(force=True) unlinks the readiness files; the composition says which.
CleanedUp(t) ==
    /\ kernel = "alive" /\ pc[t] = "cleanup" /\ Return(t)
    /\ UNCHANGED <<processVars, signalVars, kernel, diskVars, handleVars, runHistory>>

Call(t) == Status(t) \/ Wait(t) \/ Stop(t)
=============================================================================
