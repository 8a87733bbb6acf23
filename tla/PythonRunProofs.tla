---------------------------- MODULE PythonRunProofs ----------------------------
(***************************************************************************)
(* Proofs about a launch from Python as a whole, for any threads, ranks,   *)
(* hosts, bounds and declarations.                                         *)
(*                                                                         *)
(* The handle (HandleInv, CancelInv), the run's directory (DiskInv) and    *)
(* what a success says of hosts and solver (SuccessInv) are one inductive  *)
(* invariant, RunIInv: a finish is right about the disk only because the   *)
(* thread that makes it has the lock and the process is gone, and right    *)
(* about the hosts only because nothing happens to them any more.  On it   *)
(* stand the ownership of directories (SafeInv), the native build          *)
(* (UsableInv) and the iterator over observations (ObserveInv); the types  *)
(* of the whole (PreparationInv, WalkInv) rest on all of them.             *)
(***************************************************************************)
EXTENDS PythonRun, HostProofs, FiniteSetTheorems, TLAPS

(***************************************************************************)
(* The handle alone.  What it does is one of the steps of RunControl,      *)
(* whatever else happens in the same step.                                 *)
(***************************************************************************)
HandleStep(t) ==
    \/ Call(t) \/ Detach(t) \/ WaitTimesOut(t) \/ Signal(t) \/ StartTimesOut(t)
    \/ LaunchInterrupted(t) \/ Waits(t) \/ Finish(t) \/ CleanedUp(t)

RunNext ==
    \/ Start \/ (\E code \in {0, 1, 130} : ProcessExits(code))
    \/ (\E state \in JobStates : JobTo(state)) \/ JobPublished \/ DiskFills
    \/ KernelDies \/ Shutdown \/ ShutdownSignals
    \/ \E t \in Threads : HandleStep(t)

\* Every step of the launch is one of the handle's, or none of its business.
LEMMA NextRuns ==
    ASSUME RunTypeOK, [Next]_vars PROVE [RunNext]_runVars
<1> USE DEF RunNext, HandleStep
<1>1. CASE Next
  <2>1. ASSUME UNCHANGED runVars PROVE [RunNext]_runVars
    BY <2>1
  <2>2. CASE BuildRuns \/ Locate \/ PreparesCase
    BY <2>1, <2>2 DEF BuildRuns, Locate, PreparesCase, unprepared
  <2>3. CASE Launched
    BY <2>3 DEF Launched
  <2>4. CASE HostsStart \/ SolverStarts \/ SolverWrites \/ SolverEnds \/ SolverBreaks \/ Evaluates
             \/ HostsRun \/ HostsStop
    BY <2>1, <2>4 DEF HostsStart, SolverStarts, SolverWrites, SolverEnds, SolverBreaks, Evaluates,
                      HostsRun, HostsStop, unrun
  <2>5. CASE JobKilled \/ JobEnds
    BY <2>5 DEF JobKilled, JobEnds, JobStates, JobOver
  <2>6. CASE \E code \in {0, 1, 130} : ProcessEnds(code)
    BY <2>6 DEF ProcessEnds
  <2>7. CASE Leave
    BY <2>7 DEF Leave
  <2>8. CASE Calls
    BY <2>8 DEF Calls, JobSubmitted, JobLeavesQueue, JobStates, JobOver, RunTypeOK
  <2>9. CASE \E t \in Threads : Finishes(t) \/ Cleans(t)
    BY <2>9 DEF Finishes, Cleans
  <2>10. CASE Reads \/ ConsumerCloses \/ Shell
    BY <2>1, <2>10 DEF Reads, ConsumerCloses, Shell
  <2>11. CASE Asks
    BY <2>11, ReaderAssumption DEF Asks, Ask, Call
  <2> QED
    BY <1>1, <2>2, <2>3, <2>4, <2>5, <2>6, <2>7, <2>8, <2>9, <2>10, <2>11 DEF Next
<1>2. CASE UNCHANGED vars
  BY <1>2 DEF vars
<1> QED
  BY <1>1, <1>2

\* The handle's types, and what its threads rely on: there is one that finishes the
\* run, with the lock, when the process is gone and there is no result yet; a kernel
\* that is not alive has no thread in a call, and knows no result.
HandleInv ==
    /\ RunTypeOK
    /\ process = "absent" => kernel = "alive" /\ suffix = 0 /\ logs = [n \in LogSuffixes |-> "absent"]
    /\ exitCode = 0 => process = "exited"
    /\ kernel # "alive" => \A t \in Threads : pc[t] = "gone"
    /\ Finished => kernel = "alive" /\ process = "exited"
    /\ ~Finished => workDir = Prepared
    /\ \A t \in Threads : pc[t] \in FinishSteps =>
          /\ lock = t /\ process = "exited" /\ ~Finished
          /\ pc[t] \in {"append", "rename"} => suffix < MaxSuffix

\* A run that was stopped is to be reported as cancelled, and only a process that
\* returned 0 has a run that succeeded.
CancelInv ==
    /\ stopped /\ ~overruled => cancelRequested
    /\ Finished /\ stopped /\ ~overruled => result.status = "cancelled"
    /\ Finished /\ result.status = "succeeded" => exitCode = 0

\* A launch starts with a handle nobody has called.
LEMMA HandleInit == RunInit => HandleInv /\ CancelInv
<1> SUFFICES ASSUME RunInit PROVE HandleInv /\ CancelInv
  OBVIOUS
<1>1. 0 \in LogSuffixes
  BY RunAssumption DEF LogSuffixes
<1>2. NoResult \in Results
  BY DEF Results
<1>3. RunTypeOK
  <2>1. accounting \in BOOLEAN
    BY DEF RunInit
  <2> QED
    BY <1>1, <1>2, <2>1 DEF RunInit, RunTypeOK, Labels, Ended, JobStates
<1> QED
  BY <1>3 DEF RunInit, HandleInv, CancelInv, Finished, FinishSteps

LEMMA SuffixGrows ==
    ASSUME suffix \in LogSuffixes, suffix < MaxSuffix PROVE suffix + 1 \in LogSuffixes
BY RunAssumption DEF LogSuffixes

LEMMA RunTypesKept ==
    ASSUME HandleInv, [RunNext]_runVars PROVE RunTypeOK'
<1> USE DEF RunTypeOK, Labels, Ended, FinishSteps
<1>a. RunTypeOK /\ HandleInv
  BY DEF HandleInv
<1>0. CASE UNCHANGED runVars
  BY <1>0, <1>a DEF runVars, processVars, signalVars, diskVars, handleVars, callVars, runHistory
<1> USE <1>a DEF processVars, jobVars, signalVars, diskVars, handleVars, callVars, runHistory
<1>1. CASE Start
  <2>1. starter' \in Threads \cup {Nobody}
    BY <1>1 DEF Start, Starter
  <2>2. logs' \in [LogSuffixes -> {"absent", "tail", "whole"}]
    BY <1>1 DEF Start
  <2> QED
    BY <1>1, <2>1, <2>2 DEF Start
<1>2. CASE \E code \in {0, 1, 130} : ProcessExits(code)
  BY <1>2 DEF ProcessExits
<1>3. CASE (\E state \in JobStates : JobTo(state)) \/ JobPublished \/ DiskFills
  <2>1. CASE \E state \in JobStates : JobTo(state)
    BY <2>1 DEF JobTo
  <2>2. CASE JobPublished
    BY <2>2 DEF JobPublished
  <2>3. CASE DiskFills
    BY <2>3 DEF DiskFills
  <2> QED
    BY <1>3, <2>1, <2>2, <2>3
<1>4. CASE KernelDies \/ Shutdown \/ ShutdownSignals
  <2>1. 0 \in LogSuffixes /\ NoResult \in Results
    BY RunAssumption DEF LogSuffixes, Results
  <2>g. ASSUME HandleGone
        PROVE  /\ kernel' = "gone" /\ pc' \in [Threads -> Labels] /\ forced' \subseteq Threads
               /\ lock' = Nobody /\ cancelRequested' \in BOOLEAN /\ detached' \in BOOLEAN
               /\ workDir' = Prepared /\ suffix' \in LogSuffixes /\ result' \in Results
               /\ stopped' \in BOOLEAN /\ overruled' \in BOOLEAN
    BY <2>1, <2>g DEF HandleGone
  <2>2. CASE KernelDies
    BY <2>g, <2>2 DEF KernelDies
  <2>3. CASE Shutdown
    <3>1. CASE HandleGone
      BY <2>g, <2>3, <3>1 DEF Shutdown
    <3>2. CASE ~HandleGone
      <4>1. /\ kernel' = "leaving" /\ cancelRequested' = TRUE /\ pc' = [t \in Threads |-> "gone"]
            /\ UNCHANGED <<forced, lock, detached, workDir, suffix, result, stopped, overruled>>
        BY <2>3, <3>2 DEF Shutdown
      <4>2. UNCHANGED <<process, exitCode, scheduled, accounting, job, jobId, callers, starter>>
        BY <2>3 DEF Shutdown
      <4>3. UNCHANGED <<terminated, killed, diskFull, logs>>
        BY <2>3 DEF Shutdown
      <4> QED
        BY <4>1, <4>2, <4>3
    <3> QED
      BY <3>1, <3>2
  <2>4. CASE ShutdownSignals
    <3>1. terminated' \in BOOLEAN /\ killed' \in BOOLEAN
      BY <2>4 DEF ShutdownSignals
    <3> QED
      BY <2>g, <2>4, <3>1 DEF ShutdownSignals
  <2> QED
    BY <1>4, <2>2, <2>3, <2>4
<1>5. ASSUME NEW t \in Threads, Status(t) \/ Wait(t) \/ Stop(t) \/ Detach(t) PROVE RunTypeOK'
  <2>1. CASE Status(t)
    BY <2>1 DEF Status, BeginFinish, Return, To
  <2>2. CASE Wait(t)
    BY <2>2 DEF Wait, Return, To
  <2>3. CASE Stop(t)
    <3>1. cancelRequested' \in BOOLEAN /\ stopped' \in BOOLEAN /\ overruled' \in BOOLEAN
      BY <2>3 DEF Stop
    <3>2. pc' \in [Threads -> Labels] /\ forced' \subseteq Threads
      BY <2>3 DEF Stop, Return, To
    <3> QED
      BY <2>3, <3>1, <3>2 DEF Stop
  <2>4. CASE Detach(t)
    BY <2>4 DEF Detach, Return, To
  <2> QED
    BY <1>5, <2>1, <2>2, <2>3, <2>4
<1>6. ASSUME NEW t \in Threads,
             WaitTimesOut(t) \/ Signal(t) \/ StartTimesOut(t) \/ LaunchInterrupted(t) \/ CleanedUp(t)
      PROVE RunTypeOK'
  <2>1. CASE WaitTimesOut(t) \/ LaunchInterrupted(t) \/ CleanedUp(t)
    BY <2>1 DEF WaitTimesOut, LaunchInterrupted, CleanedUp, Return, Except, To
  <2>2. CASE Signal(t)
    <3>1. terminated' \in BOOLEAN /\ killed' \in BOOLEAN
      BY <2>2 DEF Signal
    <3>2. pc' \in [Threads -> Labels] /\ forced' \subseteq Threads
      BY <2>2 DEF Signal, Except, To
    <3> QED
      BY <2>2, <3>1, <3>2 DEF Signal
  <2>3. CASE StartTimesOut(t)
    BY <2>3 DEF StartTimesOut, To
  <2> QED
    BY <1>6, <2>1, <2>2, <2>3
<1>7. ASSUME NEW t \in Threads, Waits(t) PROVE RunTypeOK'
  BY <1>7 DEF Waits, WaitEnds, WaitForStart, WaitForStartFinishes, BeginFinish, Return, To
<1>8. ASSUME NEW t \in Threads, AppendCompletion(t) PROVE RunTypeOK'
  BY <1>8 DEF AppendCompletion, Raise, Except, To
<1>9. ASSUME NEW t \in Threads, RenameLogs(t) PROVE RunTypeOK'
  <2>1. suffix + 1 \in LogSuffixes
    BY <1>9, SuffixGrows DEF RenameLogs, At, HandleInv
  <2>2. logs' \in [LogSuffixes -> {"absent", "tail", "whole"}]
    BY <1>9, <2>1 DEF RenameLogs
  <2>3. result' \in Results /\ workDir' \in {Prepared, Final}
    BY <1>9, <2>1 DEF RenameLogs, Publish, Results, Outcome
  <2>4. lock' \in Threads \cup {Nobody} /\ pc' \in [Threads -> Labels] /\ forced' \subseteq Threads
    BY <1>9 DEF RenameLogs, Publish, Return, Raise, Except, To
  <2>5. suffix' = suffix + 1 /\ UNCHANGED <<processVars, signalVars, kernel, diskFull, cancelRequested, detached, runHistory>>
    BY <1>9 DEF RenameLogs
  <2> QED
    BY <2>1, <2>2, <2>3, <2>4, <2>5
<1>10. ASSUME NEW t \in Threads, MoveDirectory(t) PROVE RunTypeOK'
  BY <1>10 DEF MoveDirectory, Raise, Except, To
<1>11. ASSUME NEW t \in Threads, RelocateMarker(t) PROVE RunTypeOK'
  <2>1. result' \in Results /\ workDir' \in {Prepared, Final}
    BY <1>11 DEF RelocateMarker, Publish, Results, Outcome
  <2>2. lock' \in Threads \cup {Nobody} /\ pc' \in [Threads -> Labels] /\ forced' \subseteq Threads
    BY <1>11 DEF RelocateMarker, Publish, Return, Raise, Except, To
  <2> QED
    BY <1>11, <2>1, <2>2 DEF RelocateMarker
<1> QED
  BY <1>0, <1>1, <1>2, <1>3, <1>4, <1>5, <1>6, <1>7, <1>8, <1>9, <1>10, <1>11
  DEF RunNext, HandleStep, Call, Finish

LEMMA HandleKept ==
    ASSUME HandleInv, CancelInv, [RunNext]_runVars PROVE HandleInv' /\ CancelInv'
<1>t. RunTypeOK'
  BY RunTypesKept
<1>a. RunTypeOK /\ HandleInv /\ CancelInv
  BY DEF HandleInv
<1>p. pc \in [Threads -> Labels] /\ pc' \in [Threads -> Labels]
  BY <1>t, <1>a DEF RunTypeOK
<1>b. process \in {"absent", "running", "exited"} /\ Nobody \notin Threads
  BY <1>a, RunAssumption DEF RunTypeOK
<1> USE <1>t, <1>p DEF HandleInv, CancelInv, Finished, FinishSteps, Ended
<1>0. CASE UNCHANGED runVars
  BY <1>0, <1>a DEF runVars, processVars, signalVars, diskVars, handleVars, callVars, runHistory
<1> USE <1>a DEF processVars, jobVars, signalVars, diskVars, handleVars, callVars, runHistory
<1>1. CASE Start
  BY <1>1 DEF Start
<1>2. CASE \E code \in {0, 1, 130} : ProcessExits(code)
  BY <1>2 DEF ProcessExits
<1>3. CASE (\E state \in JobStates : JobTo(state)) \/ JobPublished \/ DiskFills
  BY <1>3 DEF JobTo, JobPublished, DiskFills
<1>4. CASE KernelDies \/ ShutdownSignals
  BY <1>4 DEF KernelDies, ShutdownSignals, HandleGone
<1>5. CASE Shutdown
  BY <1>5 DEF Shutdown, HandleGone, Unlocked
<1>6. ASSUME NEW t \in Threads, Status(t) PROVE HandleInv' /\ CancelInv'
  BY <1>6, <1>b DEF Status, BeginFinish, Return, To, MayCall, Unlocked
<1>7. ASSUME NEW t \in Threads, Wait(t) PROVE HandleInv' /\ CancelInv'
  BY <1>7 DEF Wait, Return, To, MayCall, Unlocked
<1>8. ASSUME NEW t \in Threads, Stop(t) PROVE HandleInv' /\ CancelInv'
  <2>1. HandleInv'
    BY <1>8 DEF Stop, Return, To, MayCall, Unlocked
  <2>2. CASE Finished
    BY <1>8, <2>1, <2>2 DEF Stop
  <2>3. CASE ~Finished
    <3>1. /\ cancelRequested' <=> process = "running"
          /\ stopped' <=> stopped \/ process = "running"
          /\ overruled' <=> overruled \/ (cancelRequested /\ process # "running")
          /\ UNCHANGED result
      BY <1>8, <2>3 DEF Stop
    <3> QED
      BY <2>1, <2>3, <3>1
  <2> QED
    BY <2>2, <2>3
<1>9. ASSUME NEW t \in Threads, Detach(t) PROVE HandleInv' /\ CancelInv'
  BY <1>9 DEF Detach, Return, To, MayCall, Unlocked
<1>10. ASSUME NEW t \in Threads, WaitTimesOut(t) \/ LaunchInterrupted(t) \/ CleanedUp(t)
       PROVE HandleInv' /\ CancelInv'
  BY <1>10 DEF WaitTimesOut, LaunchInterrupted, CleanedUp, Return, Except, To
<1>11. ASSUME NEW t \in Threads, Signal(t) \/ StartTimesOut(t) PROVE HandleInv' /\ CancelInv'
  BY <1>11 DEF Signal, StartTimesOut, Except, To
<1>12. ASSUME NEW t \in Threads, WaitEnds(t) PROVE HandleInv' /\ CancelInv'
  BY <1>12, <1>b DEF WaitEnds, BeginFinish, Return, To, Unlocked
<1>13. ASSUME NEW t \in Threads, WaitForStart(t) \/ WaitForStartFinishes(t) PROVE HandleInv' /\ CancelInv'
  BY <1>13, <1>b DEF WaitForStart, WaitForStartFinishes, BeginFinish, Return, To, Unlocked
<1>14. ASSUME NEW t \in Threads, AppendCompletion(t) PROVE HandleInv' /\ CancelInv'
  BY <1>14 DEF AppendCompletion, Raise, Except, To, At
<1>15. ASSUME NEW t \in Threads, RenameLogs(t) PROVE HandleInv' /\ CancelInv'
  <2> USE DEF RenameLogs, At
  <2>1. CASE UNCHANGED <<workDir, result>>
    BY <1>15, <2>1 DEF Publish, NoResult, Return, Raise, Except, To
  <2>2. CASE Publish(t, workDir, suffix + 1)
    BY <1>15, <2>2 DEF Publish, Outcome, NoResult, Return, To
  <2> QED
    BY <1>15, <2>1, <2>2
<1>16. ASSUME NEW t \in Threads, MoveDirectory(t) PROVE HandleInv' /\ CancelInv'
  <2>1. HandleInv'
    BY <1>16 DEF MoveDirectory, Raise, Except, To, At
  <2>2. UNCHANGED <<stopped, overruled, cancelRequested, result, exitCode>>
    BY <1>16 DEF MoveDirectory
  <2> QED
    BY <2>1, <2>2
<1>17. ASSUME NEW t \in Threads, RelocateMarker(t) PROVE HandleInv' /\ CancelInv'
  BY <1>17 DEF RelocateMarker, Publish, Outcome, NoResult, Return, Raise, Except, To, At
<1> QED
  BY <1>0, <1>1, <1>2, <1>3, <1>4, <1>5, <1>6, <1>7, <1>8, <1>9, <1>10, <1>11, <1>12, <1>13, <1>14,
     <1>15, <1>16, <1>17
  DEF RunNext, HandleStep, Call, Waits, Finish

-----------------------------------------------------------------------------
(***************************************************************************)
(* The directories, and who changes them.                                  *)
(***************************************************************************)
LEMMA FourAtMost ==
    ASSUME NEW a, NEW b, NEW c, NEW d PROVE Cardinality({a, b, c, d}) <= 4
<1>1. /\ IsFiniteSet({}) /\ Cardinality({}) = 0
  BY FS_EmptySet
<1>2. /\ IsFiniteSet({a}) /\ Cardinality({a}) = 1
  BY FS_Singleton
<1>3. /\ IsFiniteSet({a} \cup {b}) /\ Cardinality({a} \cup {b}) \in {1, 2}
  BY <1>2, FS_AddElement
<1>4. /\ IsFiniteSet({a} \cup {b} \cup {c}) /\ Cardinality({a} \cup {b} \cup {c}) \in {1, 2, 3}
  BY <1>3, FS_AddElement
<1>5. Cardinality({a} \cup {b} \cup {c} \cup {d}) \in {1, 2, 3, 4}
  BY <1>4, FS_AddElement
<1>6. {a, b, c, d} = {a} \cup {b} \cup {c} \cup {d}
  OBVIOUS
<1> QED
  BY <1>5, <1>6

\* The five paths are five.
LEMMA PathsDiffer ==
    /\ Prepared # Final /\ Prepared # Copy /\ Prepared # Build /\ Prepared # Native
    /\ Final # Copy /\ Final # Build /\ Final # Native
    /\ Copy # Build /\ Copy # Native /\ Build # Native
    /\ \A p \in Paths : p # Absent /\ p # Unmarked /\ p # Nothing
<1>1. ~(Cardinality(Paths) <= 4)
  BY WorkspaceAssumption
<1>2. \A a, b, c, d : Paths # {a, b, c, d}
  BY <1>1, FourAtMost
<1>3. Prepared # Final
  <2>1. Prepared = Final => Paths = {Final, Copy, Build, Native}
    BY DEF Paths
  <2> QED
    BY <1>2, <2>1
<1>4. Prepared # Copy
  <2>1. Prepared = Copy => Paths = {Final, Copy, Build, Native}
    BY DEF Paths
  <2> QED
    BY <1>2, <2>1
<1>5. Prepared # Build
  <2>1. Prepared = Build => Paths = {Final, Copy, Build, Native}
    BY DEF Paths
  <2> QED
    BY <1>2, <2>1
<1>6. Prepared # Native
  <2>1. Prepared = Native => Paths = {Final, Copy, Build, Native}
    BY DEF Paths
  <2> QED
    BY <1>2, <2>1
<1>7. Final # Copy
  <2>1. Final = Copy => Paths = {Prepared, Copy, Build, Native}
    BY DEF Paths
  <2> QED
    BY <1>2, <2>1
<1>8. Final # Build
  <2>1. Final = Build => Paths = {Prepared, Copy, Build, Native}
    BY DEF Paths
  <2> QED
    BY <1>2, <2>1
<1>9. Final # Native
  <2>1. Final = Native => Paths = {Prepared, Copy, Build, Native}
    BY DEF Paths
  <2> QED
    BY <1>2, <2>1
<1>10. Copy # Build
  <2>1. Copy = Build => Paths = {Prepared, Final, Build, Native}
    BY DEF Paths
  <2> QED
    BY <1>2, <2>1
<1>11. Copy # Native
  <2>1. Copy = Native => Paths = {Prepared, Final, Build, Native}
    BY DEF Paths
  <2> QED
    BY <1>2, <2>1
<1>12. Build # Native
  <2>1. Build = Native => Paths = {Prepared, Final, Copy, Native}
    BY DEF Paths
  <2> QED
    BY <1>2, <2>1
<1> QED
  BY <1>3, <1>4, <1>5, <1>6, <1>7, <1>8, <1>9, <1>10, <1>11, <1>12, WorkspaceAssumption

\* Neither a build nor somebody else changes what becomes of a run's directory
\* without being told of in `touched`; nobody else makes one.
RunRoots == root[Prepared] = root'[Prepared] /\ root[Final] = root'[Final]

LEMMA BuildLeavesRuns ==
    ASSUME WorkspaceTypeOK, BuildRuns PROVE RunRoots /\ WorkspaceTypeOK'
<1> USE PathsDiffer DEF WorkspaceTypeOK, BuildRuns, BuildStep, BuildTo, RunRoots
<1>0. UNCHANGED <<targets, chosen>>
  BY DEF clobberVars
<1>p. Prepared \in Paths /\ Final \in Paths /\ Build \in Paths /\ Native \in Paths
  BY DEF Paths
<1>1. CASE UNCHANGED root
  BY <1>0, <1>1
<1>2. CASE Refresh
  BY <1>0, <1>2, <1>p DEF Refresh, Removed
<1>3. ASSUME NEW S \in SUBSET {Build, Native}, root' = Made(S) PROVE RunRoots /\ WorkspaceTypeOK'
  BY <1>0, <1>3, <1>p DEF Made
<1>4. CASE MakeDirectories \/ CopySources
  BY <1>3, <1>4 DEF MakeDirectories, CopySources
<1>5. CASE RunCommand
  BY <1>3, <1>5 DEF RunCommand, Effect
<1>6. CASE MarkDirectories
  BY <1>0, <1>1, <1>6, <1>p DEF MarkDirectories, MarkGenerated
<1>7. CASE Adopt
  BY <1>0, <1>7, <1>p DEF Adopt
<1>8. CASE BuildChecks \/ Onnx \/ NameLibrary \/ Verify \/ RecordProfile \/ BuildFails
  BY <1>1, <1>8
  DEF BuildChecks, Onnx, ResolveOnnx, Download, RemoveStale, Install, NameLibrary, Verify, RecordProfile,
      BuildFails, Files
<1> QED
  BY <1>2, <1>4, <1>5, <1>6, <1>7, <1>8

LEMMA ShellTouches ==
    ASSUME WorkspaceTypeOK, Shell
    PROVE  /\ WorkspaceTypeOK'
           /\ ~touched' => ~touched /\ RunRoots
           /\ \A p \in {Prepared, Final} : root[p] = Absent => root'[p] = Absent
<1> USE PathsDiffer DEF WorkspaceTypeOK, RunRoots, Exists
<1>p. Prepared \in Paths /\ Final \in Paths /\ Copy \in Paths
  BY DEF Paths
<1>t. ~touched' => ~touched /\ \A p \in {Prepared, Final} : Exists(p) => root'[p] # Absent
  BY DEF Shell
<1>1. CASE Clobber
  <2>1. CASE ClobberTargets \/ \E p \in Paths : ClobberCheck(p)
    BY <2>1, <1>t DEF ClobberTargets, ClobberCheck
  <2>2. CASE ClobberRemove
    BY <2>2, <1>t, <1>p DEF ClobberRemove, Removed
  <2> QED
    BY <1>1, <2>1, <2>2 DEF Clobber
<1>2. ASSUME NEW p \in {Prepared, Final}, UserCopies(p) \/ UserMoves(p)
      PROVE  /\ WorkspaceTypeOK'
             /\ ~touched' => ~touched /\ RunRoots
             /\ \A q \in {Prepared, Final} : root[q] = Absent => root'[q] = Absent
  <2>1. CASE UserCopies(p)
    BY <2>1, <1>t, <1>p DEF UserCopies, clobberVars
  <2>2. CASE UserMoves(p)
    BY <2>2, <1>t, <1>p DEF UserMoves, Renamed, clobberVars
  <2> QED
    BY <1>2, <2>1, <2>2
<1> QED
  BY <1>1, <1>2 DEF Shell

\* The preparation, by what it does to the phase and to the directory.
BeforeDirectory == {"declared", "constructed", "refused"}
WithDirectory == (PreparationSteps \ {"marking"}) \cup {"ready"}

LEMMA Prepares ==
    ASSUME PreparesCase
    PROVE  /\ build \notin Building /\ process = "absent"
           /\ phase' \notin {"launched", "declared"}
           /\ \/ phase \in BeforeDirectory /\ phase' \in BeforeDirectory /\ root' = root
              \/ /\ phase \in BeforeDirectory /\ phase' = "marking"
                 /\ root' = [root EXCEPT ![Prepared] = Unmarked]
              \/ phase = "marking" /\ phase' = "copy" /\ root' = [root EXCEPT ![Prepared] = Prepared]
              \/ phase \in PreparationSteps /\ phase' = "failed" /\ root' = root
              \/ phase \in WithDirectory /\ phase' \in WithDirectory /\ root' = root
           /\ UNCHANGED <<targets, chosen, runVars, buildVars, touched, solver, sailing, shared>>
           /\ UNCHANGED <<hostGroupVars, readerVars, residentVars>>
<1> USE DEF PreparesCase, BeforeDirectory, WithDirectory, PreparationSteps, Advance, Unfailing, Owned
<1>1. UNCHANGED <<targets, chosen, runVars, buildVars, touched, solver, sailing, shared>>
  BY DEF clobberVars, steady
<1>2. CASE Construct \/ \E ranks \in 1..MaxSources, mesh \in {"blockMesh", "existing"},
             validate \in BOOLEAN : Initialize(ranks, mesh, validate)
  BY <1>1, <1>2 DEF Construct, Initialize
<1>3. CASE Launch
  <2>1. /\ phase = "constructed"
        /\ \/ phase' = "marking" /\ root' = [root EXCEPT ![Prepared] = Unmarked]
           \/ phase' = "refused" /\ root' = root
    <3> HIDE DEF PreparesCase
    <3> QED
      BY <1>3, Zenon DEF Launch
  <2> QED
    BY <1>1, <2>1
<1>4. CASE Mark
  BY <1>1, <1>4 DEF Mark, MarkGenerated
<1>5. CASE Break \/ CopyCase \/ PackageProgram \/ Packaged
  BY <1>1, <1>5 DEF Break, CopyCase, PackageProgram, Packaged
<1>6. CASE RenderClosures \/ RenderTransforms \/ MeshCommands
  BY <1>1, <1>6 DEF RenderClosures, RenderTransforms, MeshCommands
<1>7. CASE RunTools \/ CheckProcessors \/ FormCommands
  BY <1>1, <1>7 DEF RunTools, CheckProcessors, FormCommands
<1> QED
  BY <1>2, <1>3, <1>4, <1>5, <1>6, <1>7 DEF Prepare

\* The steps of the handle that neither start nor finish the run.
QuietNext ==
    \/ (\E code \in {0, 1, 130} : ProcessExits(code))
    \/ (\E state \in JobStates : JobTo(state)) \/ JobPublished \/ DiskFills
    \/ KernelDies \/ Shutdown \/ ShutdownSignals
    \/ \E t \in Threads :
          \/ Call(t) \/ Detach(t) \/ WaitTimesOut(t) \/ Signal(t) \/ StartTimesOut(t)
          \/ LaunchInterrupted(t) \/ Waits(t) \/ CleanedUp(t)

\* Every step is one of a build, of the preparation, of somebody else, the start, a
\* step of a finish, or leaves the directories alone.
LEMMA NextSplit ==
    ASSUME RunTypeOK, [Next]_vars
    PROVE  \/ BuildRuns \/ PreparesCase \/ Launched \/ Shell
           \/ \E t \in Threads : Finish(t) /\ UNCHANGED <<targets, chosen, phase, touched, build, shared>>
           \/ [QuietNext]_runVars /\ UNCHANGED <<root, targets, chosen, phase, touched, build, shared>>
<1> USE DEF QuietNext, steady, workspaceVars, clobberVars
<1>1. CASE UNCHANGED vars
  BY <1>1 DEF vars, preparationVars, buildVars
<1>2. CASE Locate
  BY <1>2 DEF Locate, unprepared, buildVars
<1>3. CASE HostsStart \/ SolverStarts \/ SolverWrites \/ SolverEnds \/ SolverBreaks
           \/ HostsRun \/ HostsStop
  BY <1>3 DEF HostsStart, SolverStarts, SolverWrites, SolverEnds, SolverBreaks,
              HostsRun, HostsStop, unrun, unbuilt, preparationVars, buildVars
<1>4. CASE Evaluates \/ ConsumerCloses
  BY <1>4 DEF Evaluates, ConsumerCloses, unhandled, unbuilt, preparationVars, buildVars
<1>5. CASE JobKilled
  BY <1>5 DEF JobKilled, JobStates, JobOver, unbuilt, preparationVars, buildVars
<1>6. CASE JobEnds
  BY <1>6 DEF JobEnds, JobStates, JobOver, unbuilt, preparationVars, buildVars
<1>7. CASE \E code \in {0, 1, 130} : ProcessEnds(code)
  BY <1>7 DEF ProcessEnds, unbuilt, preparationVars, buildVars
<1>8. CASE Leave \/ Reads
  BY <1>8 DEF Leave, Reads, unhandled, unbuilt, preparationVars, buildVars
<1>9. CASE Calls
  BY <1>9
  DEF Calls, JobSubmitted, JobLeavesQueue, JobStates, JobOver, RunTypeOK, unhandled, unbuilt, preparationVars,
      buildVars
<1>10. ASSUME NEW t \in Threads, Finishes(t) \/ Cleans(t)
       PROVE \/ Finish(t) /\ UNCHANGED <<targets, chosen, phase, touched, build, shared>>
             \/ QuietNext /\ UNCHANGED <<root, targets, chosen, phase, touched, build, shared>>
  <2>1. UNCHANGED <<phase, touched, build, shared>>
    BY <1>10 DEF Finishes, Cleans, unhandled, unbuilt, preparationVars, buildVars
  <2>2. CASE Finish(t)
    BY <2>1, <2>2 DEF Finish, AppendCompletion, RenameLogs, MoveDirectory, RelocateMarker
  <2>3. CASE ~Finish(t)
    BY <1>10, <2>1, <2>3 DEF Finishes, Cleans
  <2> QED
    BY <2>2, <2>3
<1>11. CASE Asks
  BY <1>11, ReaderAssumption DEF Asks, Ask, Call, unhandled, unbuilt, preparationVars, buildVars
<1> QED
  BY <1>1, <1>2, <1>3, <1>4, <1>5, <1>6, <1>7, <1>8, <1>9, <1>10, <1>11 DEF Next

\* What those steps leave alone, as long as the kernel lives.
LEMMA QuietKeeps ==
    ASSUME HandleInv, [QuietNext]_runVars
    PROVE  /\ process' = "absent" <=> process = "absent"
           /\ process' = "running" => process = "running"
           /\ kernel' = "alive" =>
                /\ kernel = "alive" /\ UNCHANGED <<logs, suffix, workDir, result>>
                /\ \A t \in Threads : pc'[t] \in {"rename", "move", "relocate"} => pc'[t] = pc[t]
           /\ kernel' # "alive" => ~Finished'
<1> USE DEF HandleInv, RunTypeOK, FinishSteps, Finished
<1>0. CASE UNCHANGED runVars
  BY <1>0 DEF runVars, processVars, signalVars, diskVars, handleVars, callVars, runHistory
<1> USE DEF processVars, jobVars, signalVars, diskVars, handleVars, callVars, runHistory
<1>2. CASE \E code \in {0, 1, 130} : ProcessExits(code)
  BY <1>2 DEF ProcessExits
<1>3. CASE (\E state \in JobStates : JobTo(state)) \/ JobPublished \/ DiskFills
  BY <1>3 DEF JobTo, JobPublished, DiskFills
<1>4. CASE KernelDies \/ ShutdownSignals
  BY <1>4 DEF KernelDies, ShutdownSignals, HandleGone
<1>5. CASE Shutdown
  BY <1>5 DEF Shutdown, HandleGone, Unlocked
<1>6. ASSUME NEW t \in Threads, Status(t) \/ Wait(t) \/ Detach(t)
      PROVE /\ UNCHANGED <<process, kernel, logs, suffix, workDir, result>>
            /\ \A u \in Threads : pc'[u] \in {"rename", "move", "relocate"} => pc'[u] = pc[u]
  BY <1>6 DEF Status, Wait, Detach, BeginFinish, Return, To
<1>7. ASSUME NEW t \in Threads, Stop(t)
      PROVE /\ UNCHANGED <<process, kernel, logs, suffix, workDir, result>>
            /\ \A u \in Threads : pc'[u] \in {"rename", "move", "relocate"} => pc'[u] = pc[u]
  BY <1>7 DEF Stop, Return, To
<1>8. ASSUME NEW t \in Threads, WaitTimesOut(t) \/ LaunchInterrupted(t) \/ CleanedUp(t) \/ StartTimesOut(t)
      PROVE /\ UNCHANGED <<process, kernel, logs, suffix, workDir, result>>
            /\ \A u \in Threads : pc'[u] \in {"rename", "move", "relocate"} => pc'[u] = pc[u]
  BY <1>8 DEF WaitTimesOut, LaunchInterrupted, CleanedUp, StartTimesOut, Return, Except, To
<1>9. ASSUME NEW t \in Threads, Signal(t)
      PROVE /\ UNCHANGED <<process, kernel, logs, suffix, workDir, result>>
            /\ \A u \in Threads : pc'[u] \in {"rename", "move", "relocate"} => pc'[u] = pc[u]
  BY <1>9 DEF Signal, Except, To
<1>10. ASSUME NEW t \in Threads, Waits(t)
       PROVE /\ UNCHANGED <<process, kernel, logs, suffix, workDir, result>>
             /\ \A u \in Threads : pc'[u] \in {"rename", "move", "relocate"} => pc'[u] = pc[u]
  BY <1>10 DEF Waits, WaitEnds, WaitForStart, WaitForStartFinishes, BeginFinish, Return, To
<1>11. CASE /\ UNCHANGED <<process, kernel, logs, suffix, workDir, result>>
            /\ \A u \in Threads : pc'[u] \in {"rename", "move", "relocate"} => pc'[u] = pc[u]
  BY <1>11
<1> QED
  BY <1>0, <1>2, <1>3, <1>4, <1>5, <1>6, <1>7, <1>8, <1>9, <1>10, <1>11 DEF QuietNext, Call
-----------------------------------------------------------------------------
\* The directory of a run and the names of its log, by how far the run is.  Before
\* the process runs there is only the prepared one; while a finish is under way, or
\* has failed, the directory has its marker and one of its two names, and there is
\* one log, the whole one; and then those the Result gives.
WholeLog(k) == [n \in LogSuffixes |-> IF n = k THEN "whole" ELSE "absent"]

DiskInv ==
    /\ WorkspaceTypeOK
    /\ build \in Building => phase = "declared"
    /\ process = "absent" <=> phase # "launched"
    /\ phase \in BeforeDirectory => root[Prepared] = Absent
    /\ phase \in WithDirectory => root[Prepared] = Prepared
    /\ process # "exited" => root[Final] = Absent
    /\ process = "running" => root[Prepared] = Prepared
    /\ process # "absent" /\ kernel = "alive" /\ ~Finished /\ ~touched =>
          /\ logs = WholeLog(suffix)
          /\ root[Prepared] = Prepared \/ (root[Prepared] = Absent /\ root[Final] = Prepared)
          /\ \A t \in Threads :
                /\ pc[t] \in {"rename", "move"} => root[Prepared] = Prepared
                /\ pc[t] = "relocate" => root[Final] = Prepared
    /\ Finished /\ ~touched =>
          /\ result.dir = Final /\ root[Final] = Final
          /\ logs = WholeLog(result.suffix)

LEMMA DiskInit == Init => DiskInv
<1> SUFFICES ASSUME Init PROVE DiskInv
  OBVIOUS
<1>1. root \in [Paths -> Paths \cup {Absent, Unmarked}] /\ root[Prepared] = Absent /\ root[Final] = Absent
  BY PathsDiffer DEF Init, Paths
<1>2. phase = "declared" /\ process = "absent" /\ result = NoResult
  BY DEF Init, PreparationInit, RunInit
<1>3. targets = {} /\ chosen = Nothing
  BY DEF Init, ClobberIdle
<1> QED
  BY <1>1, <1>2, <1>3
  DEF DiskInv, WorkspaceTypeOK, BeforeDirectory, WithDirectory, PreparationSteps, Finished

\* A step of a finish: the thread that makes it has the lock, the run's directory is
\* still called as prepared, and others are at no such step.
LEMMA FinishContext ==
    ASSUME HandleInv, NEW t \in Threads, Finish(t)
    PROVE  /\ kernel = "alive" /\ lock = t /\ pc[t] \in FinishSteps
           /\ process = "exited" /\ ~Finished /\ workDir = Prepared
           /\ pc[t] \in {"append", "rename"} => suffix < MaxSuffix
           /\ \A u \in Threads \ {t} : pc[u] \notin FinishSteps
BY DEF HandleInv, Finish, AppendCompletion, RenameLogs, MoveDirectory, RelocateMarker, At, FinishSteps

LEMMA AppendDisk ==
    ASSUME HandleInv, DiskInv, HandleInv', NEW t \in Threads, AppendCompletion(t),
           UNCHANGED <<targets, chosen, phase, touched, build>>
    PROVE  DiskInv'
<1>1. /\ kernel = "alive" /\ process = "exited" /\ ~Finished /\ workDir = Prepared
      /\ \A u \in Threads \ {t} : pc[u] \notin FinishSteps
  BY FinishContext DEF Finish
<1>2. UNCHANGED <<root, process, kernel, suffix, workDir, result>>
  BY DEF AppendCompletion, workspaceVars, processVars
<1>3. suffix \in LogSuffixes /\ pc \in [Threads -> Labels]
  BY DEF HandleInv, RunTypeOK
<1>4. ~touched => logs = WholeLog(suffix)
  BY <1>1 DEF DiskInv
<1>5. ~touched => logs' = WholeLog(suffix)
  BY <1>3, <1>4 DEF AppendCompletion, WholeLog
<1>6. \A u \in Threads : pc'[u] \in {"rename", "move", "relocate"} => u = t /\ pc'[u] = "rename" /\ Exists(Prepared)
  BY <1>1, <1>3 DEF AppendCompletion, Raise, Except, To, FinishSteps
<1>7. UNCHANGED Finished
  BY <1>2 DEF Finished
<1> QED
  BY <1>1, <1>2, <1>5, <1>6, <1>7, PathsDiffer DEF DiskInv, WorkspaceTypeOK, Exists, WholeLog

LEMMA RenameDisk ==
    ASSUME HandleInv, DiskInv, HandleInv', NEW t \in Threads, RenameLogs(t),
           UNCHANGED <<targets, chosen, phase, touched, build>>
    PROVE  DiskInv'
<1>1. /\ kernel = "alive" /\ process = "exited" /\ ~Finished /\ workDir = Prepared /\ suffix < MaxSuffix
      /\ pc[t] = "rename" /\ \A u \in Threads \ {t} : pc[u] \notin FinishSteps
  BY FinishContext DEF Finish, RenameLogs, At
<1>2. UNCHANGED <<root, process, kernel>> /\ suffix' = suffix + 1
  BY DEF RenameLogs, workspaceVars, processVars
<1>3. suffix \in LogSuffixes /\ suffix \in Int /\ suffix + 1 \in LogSuffixes /\ pc \in [Threads -> Labels]
  BY <1>1, SuffixGrows DEF HandleInv, RunTypeOK, LogSuffixes
<1>4. ~touched => logs = WholeLog(suffix) /\ root[Prepared] = Prepared
  BY <1>1 DEF DiskInv
<1>5. ~touched => logs' = WholeLog(suffix + 1)
  <2>1. ASSUME ~touched PROVE logs' = [logs EXCEPT ![suffix + 1] = logs[suffix], ![suffix] = "absent"]
    BY <2>1, <1>1, <1>3, <1>4, PathsDiffer DEF RenameLogs, Exists, WholeLog, Paths
  <2> QED
    BY <2>1, <1>3, <1>4 DEF WholeLog
<1>6. ~touched => ~Finished' /\ UNCHANGED result
  BY <1>1, <1>4, PathsDiffer DEF RenameLogs, Generated, Finished
<1>7. \A u \in Threads : pc'[u] \in {"rename", "move", "relocate"} => u = t /\ pc'[u] = "move"
  BY <1>1, <1>3 DEF RenameLogs, Publish, Return, Raise, Except, To, FinishSteps
<1> QED
  BY <1>1, <1>2, <1>4, <1>5, <1>6, <1>7 DEF DiskInv, WorkspaceTypeOK, WholeLog

LEMMA MoveDisk ==
    ASSUME HandleInv, DiskInv, HandleInv', NEW t \in Threads, MoveDirectory(t),
           UNCHANGED <<targets, chosen, phase, touched, build>>
    PROVE  DiskInv'
<1>1. /\ kernel = "alive" /\ process = "exited" /\ ~Finished /\ workDir = Prepared
      /\ pc[t] = "move" /\ \A u \in Threads \ {t} : pc[u] \notin FinishSteps
  BY FinishContext DEF Finish, MoveDirectory, At
<1>2. UNCHANGED <<process, kernel, logs, suffix, workDir, result>>
  BY DEF MoveDirectory, processVars, diskVars
<1>3. pc \in [Threads -> Labels] /\ Prepared \in Paths /\ Final \in Paths
  BY DEF HandleInv, RunTypeOK, Paths
<1>4. ~touched => logs = WholeLog(suffix) /\ root[Prepared] = Prepared
  BY <1>1 DEF DiskInv
<1>5. /\ root' \in [Paths -> Paths \cup {Absent, Unmarked}]
      /\ ~touched => \/ root' = root
                     \/ root'[Prepared] = Absent /\ root'[Final] = Prepared
  BY <1>1, <1>3, <1>4, PathsDiffer DEF MoveDirectory, Renamed, DiskInv, WorkspaceTypeOK
<1>6. \A u \in Threads : pc'[u] \in {"rename", "move", "relocate"} =>
         u = t /\ pc'[u] = "relocate" /\ root'[Final] = root[Prepared]
  BY <1>1, <1>3, PathsDiffer
  DEF MoveDirectory, Renamed, Raise, Except, To, FinishSteps, DiskInv, WorkspaceTypeOK
<1>7. UNCHANGED Finished /\ WholeLog(suffix)' = WholeLog(suffix)
  BY <1>2 DEF Finished, WholeLog
<1>8. phase = "launched"
  BY <1>1 DEF DiskInv
<1> QED
  BY <1>1, <1>2, <1>4, <1>5, <1>6, <1>7, <1>8
  DEF DiskInv, WorkspaceTypeOK, BeforeDirectory, WithDirectory, PreparationSteps

LEMMA RelocateDisk ==
    ASSUME HandleInv, DiskInv, HandleInv', NEW t \in Threads, RelocateMarker(t),
           UNCHANGED <<targets, chosen, phase, touched, build>>
    PROVE  DiskInv'
<1>1. /\ kernel = "alive" /\ process = "exited" /\ ~Finished /\ workDir = Prepared
      /\ pc[t] = "relocate" /\ \A u \in Threads \ {t} : pc[u] \notin FinishSteps
  BY FinishContext DEF Finish, RelocateMarker, At
<1>2. UNCHANGED <<process, kernel, logs, suffix>>
  BY DEF RelocateMarker, processVars, diskVars
<1>3. pc \in [Threads -> Labels] /\ Prepared \in Paths /\ Final \in Paths
  BY DEF HandleInv, RunTypeOK, Paths
<1>4. ~touched => logs = WholeLog(suffix) /\ root[Final] = Prepared
  BY <1>1 DEF DiskInv
<1>5. root' \in [Paths -> Paths \cup {Absent, Unmarked}] /\ root'[Prepared] = root[Prepared]
  BY <1>3, PathsDiffer DEF RelocateMarker, Relocated, MarkGenerated, DiskInv, WorkspaceTypeOK
<1>6. \A u \in Threads : pc'[u] \notin {"rename", "move", "relocate"}
  BY <1>1, <1>3 DEF RelocateMarker, Publish, Return, Raise, Except, To, FinishSteps
<1>7. ~touched => \/ UNCHANGED <<root, result>>
                  \/ root'[Final] = Final /\ result'.dir = Final /\ result'.suffix = suffix /\ Finished'
  BY <1>3, <1>4, PathsDiffer
  DEF RelocateMarker, Relocated, MarkGenerated, Marked, Publish, Finished, NoResult, DiskInv, WorkspaceTypeOK
<1>8. phase = "launched"
  BY <1>1 DEF DiskInv
<1> QED
  BY <1>1, <1>2, <1>4, <1>5, <1>6, <1>7, <1>8
  DEF DiskInv, WorkspaceTypeOK, BeforeDirectory, WithDirectory, PreparationSteps, Finished, WholeLog

LEMMA DiskKept ==
    ASSUME HandleInv, CancelInv, DiskInv, [Next]_vars PROVE DiskInv'
<1>a. RunTypeOK /\ WorkspaceTypeOK /\ process \in {"absent", "running", "exited"}
  BY DEF HandleInv, DiskInv, RunTypeOK
<1>b. HandleInv'
  BY <1>a, NextRuns, HandleKept
<1>p. Prepared \in Paths /\ Final \in Paths
  BY DEF Paths
<1>1. CASE BuildRuns
  <2>1. RunRoots /\ WorkspaceTypeOK'
    BY <1>a, <1>1, BuildLeavesRuns
  <2>2. build \in Building
    BY <1>1
    DEF BuildRuns, BuildStep, BuildChecks, Onnx, ResolveOnnx, Download, RemoveStale, Install, Refresh,
        MakeDirectories, MarkDirectories, CopySources, RunCommand, NameLibrary, Verify, Adopt, RecordProfile,
        BuildFails, BuildTo, Building, Naming
  <2>3. UNCHANGED <<phase, process, kernel, logs, suffix, result, pc, touched>>
    BY <1>1 DEF BuildRuns, preparationVars, runVars, processVars, diskVars, handleVars, callVars
  <2> QED
    BY <2>1, <2>2, <2>3 DEF DiskInv, RunRoots, Finished, WholeLog
<1>2. CASE PreparesCase
  <2>1. UNCHANGED <<process, kernel, logs, suffix, result, pc, touched, build, targets, chosen>>
        /\ build \notin Building /\ process = "absent" /\ result = NoResult
    BY <1>2, Prepares DEF runVars, buildVars, processVars, diskVars, handleVars, callVars, HandleInv, Finished
  <2>2. WorkspaceTypeOK' /\ root'[Final] = root[Final]
    BY <1>2, <1>a, <1>p, <2>1, Prepares, PathsDiffer DEF WorkspaceTypeOK
  <2>3. phase' # "launched" /\ (phase' \in BeforeDirectory => root'[Prepared] = Absent)
    BY <1>2, <1>p, Prepares DEF DiskInv, WithDirectory, BeforeDirectory, PreparationSteps
  <2>4. phase' \in WithDirectory => root'[Prepared] = Prepared
    BY <1>2, <1>p, Prepares DEF DiskInv, WithDirectory, BeforeDirectory, PreparationSteps, WorkspaceTypeOK
  <2> QED
    BY <2>1, <2>2, <2>3, <2>4 DEF DiskInv, Finished
<1>3. CASE Launched
  <2>1. /\ phase = "ready" /\ phase' = "launched" /\ process = "absent" /\ process' = "running"
        /\ logs' = [logs EXCEPT ![0] = "whole"]
        /\ UNCHANGED <<root, targets, chosen, suffix, result, touched, build, kernel>>
        /\ \A t \in Threads : pc'[t] \in {"starting", pc[t]}
    BY <1>3 DEF Launched, Advance, Start, workspaceVars, clobberVars, handleVars, buildVars
  <2>2. suffix = 0 /\ suffix \in LogSuffixes /\ logs = [n \in LogSuffixes |-> "absent"] /\ result = NoResult
    BY <2>1 DEF HandleInv, RunTypeOK, Finished
  <2>3. logs' = WholeLog(suffix)
    BY <2>1, <2>2 DEF WholeLog
  <2>4. root[Prepared] = Prepared /\ root[Final] = Absent /\ \A t \in Threads : pc[t] \notin FinishSteps
    BY <2>1 DEF DiskInv, HandleInv, WithDirectory
  <2> QED
    BY <2>1, <2>2, <2>3, <2>4
    DEF DiskInv, WorkspaceTypeOK, Finished, FinishSteps, BeforeDirectory, WithDirectory, PreparationSteps, WholeLog
<1>4. CASE Shell
  <2>1. /\ WorkspaceTypeOK'
        /\ ~touched' => ~touched /\ RunRoots
        /\ \A p \in {Prepared, Final} : root[p] = Absent => root'[p] = Absent
    BY <1>4, <1>a, ShellTouches
  <2>2. UNCHANGED <<phase, process, kernel, logs, suffix, result, pc, build>>
    BY <1>4 DEF Shell, preparationVars, runVars, processVars, diskVars, handleVars, callVars, BuildLoses
  <2>3. build \in Building \/ process = "exited"
    BY <1>4 DEF Shell
  <2>4. process = "exited" => phase = "launched"
    BY DEF DiskInv
  <2> QED
    BY <2>1, <2>2, <2>3, <2>4
    DEF DiskInv, RunRoots, Finished, WholeLog, BeforeDirectory, WithDirectory, PreparationSteps
<1>5. ASSUME NEW t \in Threads, Finish(t), UNCHANGED <<targets, chosen, phase, touched, build, shared>>
      PROVE  DiskInv'
  BY <1>5, <1>b, AppendDisk, RenameDisk, MoveDisk, RelocateDisk DEF Finish
<1>6. CASE [QuietNext]_runVars /\ UNCHANGED <<root, targets, chosen, phase, touched, build, shared>>
  <2>1. /\ process' = "absent" <=> process = "absent"
        /\ process' = "running" => process = "running"
        /\ kernel' = "alive" =>
             /\ kernel = "alive" /\ UNCHANGED <<logs, suffix, workDir, result>>
             /\ \A t \in Threads : pc'[t] \in {"rename", "move", "relocate"} => pc'[t] = pc[t]
        /\ kernel' # "alive" => ~Finished'
    BY <1>6, QuietKeeps
  <2>2. process # "exited" => process' # "exited" \/ process = "running"
    BY <1>a, <2>1
  <2>3. process' # "exited" => process # "exited"
    BY <1>a, <1>b, <2>1 DEF HandleInv, RunTypeOK
  <2> QED
    BY <1>6, <2>1, <2>2, <2>3 DEF DiskInv, Finished, WholeLog, WorkspaceTypeOK
<1> QED
  BY <1>a, <1>1, <1>2, <1>3, <1>4, <1>5, <1>6, NextSplit

-----------------------------------------------------------------------------
(***************************************************************************)
(* The parts in the whole: whatever the launch does, the hosts make a step *)
(* of HostGroup, and the evaluations one of Resident.                      *)
(***************************************************************************)
LEMMA NextGroups ==
    ASSUME programs \subseteq Hosts, [Next]_vars PROVE [HostGroupNext]_hostGroupVars
<1> USE DEF HostGroupNext
<1>0. ASSUME UNCHANGED hostGroupVars PROVE [HostGroupNext]_hostGroupVars
  BY <1>0
<1>1. CASE UNCHANGED vars
  BY <1>0, <1>1 DEF vars
<1>2. CASE BuildRuns \/ Locate \/ PreparesCase \/ Launched \/ SolverStarts \/ SolverWrites \/ SolverEnds
           \/ SolverBreaks \/ Evaluates \/ JobEnds \/ (\E code \in {0, 1, 130} : ProcessEnds(code))
  BY <1>0, <1>2
  DEF BuildRuns, Locate, unprepared, PreparesCase, Launched, SolverStarts, SolverWrites, SolverEnds, SolverBreaks,
      Evaluates, JobEnds, ProcessEnds
<1>3. CASE Leave \/ Calls \/ Reads \/ Asks \/ ConsumerCloses \/ Shell
  BY <1>0, <1>3 DEF Leave, Calls, Reads, Asks, ConsumerCloses, Shell
<1>4. CASE HostsStart \/ HostsRun
  BY <1>4 DEF HostsStart, HostsRun
<1>5. CASE HostsStop
  BY <1>5 DEF HostsStop
<1>6. CASE JobKilled
  BY <1>0, <1>6 DEF JobKilled
<1>7. CASE \E t \in Threads : Finishes(t) \/ Cleans(t)
  BY <1>0, <1>7 DEF Finishes, Cleans
<1> QED
  BY <1>1, <1>2, <1>3, <1>4, <1>5, <1>6, <1>7 DEF Next

LEMMA NextEvaluates ==
    ASSUME [Next]_vars PROVE [Evaluate]_residentVars
<1>0. ASSUME UNCHANGED residentVars PROVE [Evaluate]_residentVars
  BY <1>0
<1>1. CASE UNCHANGED vars
  BY <1>0, <1>1 DEF vars
<1>2. CASE BuildRuns \/ Locate \/ PreparesCase \/ Launched \/ JobEnds \/ (\E code \in {0, 1, 130} : ProcessEnds(code))
  BY <1>0, <1>2 DEF BuildRuns, Locate, unprepared, PreparesCase, Launched, JobEnds, ProcessEnds
<1>3. CASE HostsStart \/ SolverStarts \/ SolverWrites \/ SolverEnds \/ SolverBreaks \/ HostsRun \/ HostsStop \/ JobKilled
  BY <1>0, <1>3
  DEF HostsStart, SolverStarts, SolverWrites, SolverEnds, SolverBreaks, HostsRun, HostsStop, JobKilled, unrun
<1>4. CASE Evaluates
  BY <1>4 DEF Evaluates
<1>5. CASE Leave \/ Calls \/ Reads \/ Asks \/ ConsumerCloses \/ Shell \/ \E t \in Threads : Finishes(t) \/ Cleans(t)
  BY <1>0, <1>5 DEF Leave, Calls, Reads, Asks, ConsumerCloses, Shell, Finishes, Cleans, unhandled
<1> QED
  BY <1>1, <1>2, <1>3, <1>4, <1>5 DEF Next

\* A launch implements the host group and the evaluation: whatever `launch`, the handle,
\* the user and Slurm do, the resident hosts behave as host_group.main does alone, and
\* evaluations as resident.py alone, so that what is proved of either holds in a launch.
THEOREM LaunchImplementsParts == Spec => HostGroupSpec /\ ResidentSpec
<1>1. Init => HostGroupInit /\ ResidentInit
  BY DEF Init
<1>2. Init => programs \subseteq Hosts
  BY DEF Init, HostGroupInit
<1>3. programs \subseteq Hosts /\ [Next]_vars => (programs \subseteq Hosts)'
  <2> SUFFICES ASSUME programs \subseteq Hosts, [Next]_vars PROVE (programs \subseteq Hosts)'
    OBVIOUS
  <2>1. [HostGroupNext]_hostGroupVars
    BY NextGroups
  <2> QED
    BY <2>1
    DEF HostGroupNext, hostGroupVars, Outside, GroupStarts, GroupStep, GroupSpawns, GroupPolls, GroupPublishes,
        GroupTerminates, GroupReaps, GroupCleans, HostStep, HostCompiles, HostAnnounces, HostFails, HostEnds,
        GroupSignalled, GroupKilled, HostKilled, ReadyRemoved
<1>4. programs \subseteq Hosts /\ [Next]_vars => [HostGroupNext]_hostGroupVars
  BY NextGroups
<1>5. [Next]_vars => [Evaluate]_residentVars
  BY NextEvaluates
<1> QED
  BY <1>1, <1>2, <1>3, <1>4, <1>5, PTL DEF Spec, HostGroupSpec, ResidentSpec
-----------------------------------------------------------------------------
(***************************************************************************)
(* What a success says of the hosts and of the solver.                     *)
(***************************************************************************)

\* They have succeeded and are gone, so that nothing changes their codes again.
Succeeded == HostsSucceeded /\ solver = "ended" /\ ~HostsUp

SuccessInv ==
    /\ process = "absent" => job = "none" /\ exitCode = -1
    /\ exitCode # -1 => process = "exited"
    /\ ~scheduled => job = "none"
    /\ exitCode = 0 /\ ~scheduled => Succeeded
    /\ exitCode = 0 /\ scheduled => job = "completed"
    /\ job = "completed" => Succeeded

LEMMA SuccessInit == Init => SuccessInv
BY DEF Init, RunInit, SuccessInv

\* Where the supervisor's child has ended, no step of the hosts changes its code.
Settled == UNCHANGED <<programs, gpc, groupCode>> /\ (Grouped \/ UNCHANGED <<host, hostCode>>)

LEMMA HostsSettled ==
    ASSUME GroupIInv, ~HostsUp, HostsRun PROVE Settled
<1>1. CASE Grouped
  <2>1. ~GroupStep
    BY <1>1
    DEF HostsUp, GroupStep, GroupSpawns, GroupPolls, GroupPublishes, GroupTerminates, GroupReaps, GroupCleans,
        GroupTo
  <2>2. \E h \in programs : HostStep(h) \/ HostEnds(h)
    BY <2>1 DEF HostsRun
  <2> QED
    BY <1>1, <2>2
    DEF Settled, HostStep, HostCompiles, HostAnnounces, HostFails, HostEnds, Outside, groupVars
<1>2. CASE ~Grouped
  <2>1. \A h \in programs : host[h] \notin {"loading", "serving"}
    BY <1>2 DEF HostsUp, Alive
  <2>2. GroupStep
    BY <2>1 DEF HostsRun, HostStep, HostCompiles, HostAnnounces, HostFails, HostEnds
  <2>3. gpc = "absent"
    BY <1>2 DEF GroupIInv, MainKnows
  <2> QED
    BY <2>2, <2>3
    DEF GroupStep, GroupSpawns, GroupPolls, GroupPublishes, GroupTerminates, GroupReaps, GroupCleans, GroupTo
<1> QED
  BY <1>1, <1>2

LEMMA SettledKeeps ==
    ASSUME Succeeded, Settled, solver' = solver PROVE Succeeded'
<1>1. Grouped' = Grouped
  BY DEF Settled, Grouped
<1>2. CASE Grouped
  BY <1>1, <1>2 DEF Settled, Succeeded, HostsSucceeded, HostsUp
<1>3. CASE ~Grouped
  <2>1. UNCHANGED <<programs, host, hostCode>>
    BY <1>3 DEF Settled
  <2> QED
    BY <1>1, <1>3, <2>1 DEF Succeeded, HostsSucceeded, HostsUp, Alive
<1> QED
  BY <1>2, <1>3

LEMMA HandleLeavesProcess ==
    ASSUME NEW t \in Threads, HandleStep(t)
    PROVE  UNCHANGED <<process, exitCode, scheduled, job, jobId>>
<1> USE DEF processVars
<1>1. CASE Call(t) \/ Detach(t) \/ WaitTimesOut(t)
  BY <1>1 DEF Call, Status, Wait, Stop, Detach, WaitTimesOut
<1>2. CASE Signal(t) \/ StartTimesOut(t) \/ LaunchInterrupted(t) \/ CleanedUp(t)
  BY <1>2 DEF Signal, StartTimesOut, LaunchInterrupted, CleanedUp
<1>3. CASE Waits(t)
  BY <1>3 DEF Waits, WaitEnds, WaitForStart, WaitForStartFinishes
<1>4. CASE Finish(t)
  BY <1>4 DEF Finish, AppendCompletion, RenameLogs, MoveDirectory, RelocateMarker
<1> QED
  BY <1>1, <1>2, <1>3, <1>4 DEF HandleStep

LEMMA SuccessKept ==
    ASSUME HandleInv, GroupIInv, SuccessInv, [Next]_vars PROVE SuccessInv'
<1>a. process \in {"absent", "running", "exited"} /\ exitCode \in {-1, 0, 1, 130}
  BY DEF HandleInv, RunTypeOK
<1>0. ASSUME UNCHANGED <<process, exitCode, scheduled, job, solver>>, Settled PROVE SuccessInv'
  BY <1>0, SettledKeeps DEF SuccessInv
<1>s. UNCHANGED hostGroupVars => Settled
  BY DEF hostGroupVars, hostVars, groupVars, Settled
<1>r. UNCHANGED runVars => UNCHANGED <<process, exitCode, scheduled, job>>
  BY DEF runVars, processVars
<1>1. CASE UNCHANGED vars
  BY <1>0, <1>1, <1>r, <1>s DEF vars
<1>2. CASE BuildRuns \/ Locate \/ PreparesCase \/ Reads \/ ConsumerCloses \/ Shell
  BY <1>0, <1>2, <1>r, <1>s
  DEF BuildRuns, Locate, unprepared, PreparesCase, Reads, ConsumerCloses, Shell, unhandled
<1>3. CASE SolverWrites \/ Evaluates
  BY <1>0, <1>3, <1>r, <1>s DEF SolverWrites, Evaluates, unrun
<1>4. CASE Launched
  BY <1>4, <1>s, SettledKeeps DEF Launched, Start, SuccessInv
<1>5. CASE HostsStart \/ SolverStarts \/ HostsStop
  <2>1. UNCHANGED <<process, exitCode, scheduled, job>> /\ LongshipRuns
    BY <1>5, <1>r DEF HostsStart, SolverStarts, HostsStop, unrun
  <2> QED
    BY <2>1 DEF SuccessInv, LongshipRuns
<1>6. CASE SolverEnds \/ SolverBreaks
  <2>1. UNCHANGED <<process, exitCode, scheduled, job>> /\ solver = "running"
    BY <1>6, <1>r DEF SolverEnds, SolverBreaks, unrun
  <2> QED
    BY <2>1 DEF SuccessInv, Succeeded
<1>7. CASE HostsRun
  <2>1. UNCHANGED <<process, exitCode, scheduled, job, solver>>
    BY <1>7, <1>r DEF HostsRun, unrun
  <2>2. CASE HostsUp
    BY <2>1, <2>2 DEF SuccessInv, Succeeded
  <2>3. CASE ~HostsUp
    BY <1>0, <1>7, <2>1, <2>3, HostsSettled
  <2> QED
    BY <2>2, <2>3
<1>8. CASE JobKilled
  <2>1. UNCHANGED <<process, exitCode, scheduled>> /\ scheduled /\ job \in {"pending", "running"} /\ job' = "cancelled"
    BY <1>8 DEF JobKilled, JobTo
  <2> QED
    BY <2>1 DEF SuccessInv
<1>9. CASE JobEnds
  <2>1. PICK state \in {"completed", "failed"} :
           job = "running" /\ LongshipMayEnd(state = "completed") /\ JobTo(state)
    BY <1>9 DEF JobEnds
  <2>2. UNCHANGED <<process, exitCode, scheduled, solver>> /\ Settled /\ job' = state
    BY <1>9, <1>s, <2>1 DEF JobEnds, JobTo
  <2>3. state = "completed" => Succeeded
    BY <2>1 DEF LongshipMayEnd, Succeeded
  <2>4. state = "completed" => Succeeded'
    BY <2>2, <2>3, SettledKeeps
  <2> QED
    BY <2>1, <2>2, <2>4 DEF SuccessInv
<1>10. ASSUME NEW code \in {0, 1, 130}, ProcessEnds(code) PROVE SuccessInv'
  <2>1. /\ process = "running" /\ process' = "exited" /\ exitCode' = code
        /\ UNCHANGED <<scheduled, job, solver>> /\ Settled
    BY <1>10, <1>s DEF ProcessEnds, ProcessExits, jobVars
  <2>2. code = 0 /\ ~scheduled => Succeeded
    BY <1>10 DEF ProcessEnds, LongshipMayEnd, Succeeded
  <2>3. code = 0 /\ scheduled => job = "completed"
    BY <1>10 DEF ProcessEnds, ProcessExits, ExitCodes
  <2>4. Succeeded => Succeeded'
    BY <2>1, SettledKeeps
  <2> QED
    BY <2>1, <2>2, <2>3, <2>4 DEF SuccessInv
<1>11. CASE Leave
  BY <1>0, <1>11, <1>s
  DEF Leave, KernelDies, Shutdown, ShutdownSignals, processVars, unhandled
<1>12. CASE Calls
  <2>1. Settled /\ UNCHANGED solver
    BY <1>12, <1>s DEF Calls, unhandled
  <2>2. CASE JobSubmitted \/ JobLeavesQueue
    BY <2>1, <2>2, SettledKeeps DEF JobSubmitted, JobLeavesQueue, JobTo, SuccessInv
  <2>3. CASE JobPublished \/ DiskFills
    BY <1>0, <2>1, <2>3 DEF JobPublished, DiskFills, processVars
  <2>4. CASE \E t \in Threads : HandleStep(t)
    BY <1>0, <2>1, <2>4, HandleLeavesProcess
  <2> QED
    BY <1>12, <2>2, <2>3, <2>4 DEF Calls, HandleStep, HandleInv, RunTypeOK
<1>13. ASSUME NEW t \in Threads, Finishes(t) \/ Cleans(t) PROVE SuccessInv'
  <2>1. Settled /\ UNCHANGED solver
    BY <1>13, <1>s DEF Finishes, Cleans, unhandled, ReadyRemoved, Settled
  <2>2. HandleStep(t)
    BY <1>13 DEF Finishes, Cleans, HandleStep
  <2> QED
    BY <1>0, <2>1, <2>2, HandleLeavesProcess
<1>14. CASE Asks
  <2>1. Settled /\ UNCHANGED solver
    BY <1>14, <1>s DEF Asks, unhandled
  <2>2. HandleStep(Reader) /\ Reader \in Threads
    BY <1>14, ReaderAssumption DEF Asks, Ask, HandleStep, Call
  <2> QED
    BY <1>0, <2>1, <2>2, HandleLeavesProcess
<1> QED
  BY <1>1, <1>2, <1>3, <1>4, <1>5, <1>6, <1>7, <1>8, <1>9, <1>10, <1>11, <1>12, <1>13, <1>14 DEF Next
-----------------------------------------------------------------------------
RunIInv == HandleInv /\ CancelInv /\ DiskInv /\ SuccessInv

LEMMA RunInvariant == Spec => []RunIInv
<1>1. Init => RunIInv
  BY HandleInit, DiskInit, SuccessInit DEF Init, RunIInv
<1>2. RunIInv /\ GroupIInv /\ [Next]_vars => RunIInv'
  BY NextRuns, HandleKept, DiskKept, SuccessKept DEF RunIInv, HandleInv
<1>3. Spec => []GroupIInv
  BY LaunchImplementsParts, GroupInvariant, PTL
<1> QED
  BY <1>1, <1>2, <1>3, PTL DEF Spec

\* The result that `wait` and `status` hand out is true of the disk, of the hosts and of
\* the solver, and a run that was stopped is reported as cancelled (Run._finish).
THEOREM ResultTrue == Spec => []ResultIsTrue
<1>1. RunIInv => ResultIsTrue
  <2> SUFFICES ASSUME RunIInv, Finished PROVE ResultIsTrue
    BY DEF ResultIsTrue
  <2>1. touched \/ (Generated(result.dir) /\ logs = WholeLog(result.suffix))
    BY DEF RunIInv, DiskInv, Generated
  <2>2. stopped /\ ~overruled => result.status = "cancelled"
    BY DEF RunIInv, CancelInv
  <2>3. result.status = "succeeded" => Succeeded /\ (scheduled => job = "completed")
    BY DEF RunIInv, CancelInv, SuccessInv
  <2> QED
    BY <2>1, <2>2, <2>3 DEF ResultIsTrue, WholeLog, Succeeded
<1> QED
  BY <1>1, RunInvariant, PTL

-----------------------------------------------------------------------------
(***************************************************************************)
(* No directory is lost that the program does not own.                     *)
(***************************************************************************)

\* What is found at a path, and what a clobber command has chosen: it is not removed
\* by name alone.  Between the check and the removal a refresh may take the build
\* directory away and the build make it again, and a finish or somebody else may
\* take the run's; but the run's final name is never given twice.
SafeInv ==
    /\ root[Build] \in {Absent, Unmarked, Build} /\ root[Native] \in {Absent, Unmarked, Native}
    /\ root[Final] \in {Absent, Prepared, Final} /\ root[Copy] \in {Absent, Prepared, Final}
    /\ phase = "launched" => root[Prepared] \in {Absent, Prepared}
    /\ root[Final] = Final \/ chosen = Final => process = "exited" /\ (Finished \/ kernel # "alive")
    /\ chosen = Prepared => process = "exited"
    /\ chosen = Build => \/ root[Build] = Build \/ Build \in fresh
                         \/ root[Build] = Absent /\ build \in {"directories", "failed"}
    /\ fresh # {} => build \in {"mark", "failed"}
    /\ chosen = Native => root[Native] = Native
    /\ chosen = Final => root[Final] \in {Absent, Final}
    /\ chosen # Copy

LEMMA SafeInit == Init => SafeInv
<1> SUFFICES ASSUME Init PROVE SafeInv
  OBVIOUS
<1>1. \E b \in {Absent, Unmarked, Build}, n \in {Absent, Unmarked, Native} :
         root = [p \in Paths |-> IF p = Build THEN b ELSE IF p = Native THEN n ELSE Absent]
  BY DEF Init
<1>2. /\ root[Build] \in {Absent, Unmarked, Build} /\ root[Native] \in {Absent, Unmarked, Native}
      /\ root[Final] = Absent /\ root[Copy] = Absent
  BY <1>1, PathsDiffer DEF Paths
<1> QED
  BY <1>2, PathsDiffer DEF Init, PreparationInit, ClobberIdle, BuildInit, SafeInv, Paths

\* A build, as far as its own two directories go.
LEMMA BuildSafe ==
    ASSUME WorkspaceTypeOK, SafeInv, BuildRuns
    PROVE  /\ root'[Build] \in {Absent, Unmarked, Build} /\ root'[Native] \in {Absent, Unmarked, Native}
           /\ root'[Copy] = root[Copy]
           /\ root[Native] = Native => root'[Native] = Native
           /\ chosen = Build => \/ root'[Build] = Build \/ Build \in fresh'
                                \/ root'[Build] = Absent /\ build' \in {"directories", "failed"}
           /\ fresh' # {} => build' \in {"mark", "failed"}
           /\ \A p \in Paths : root[p] # Absent /\ root'[p] = Absent => root[p] = p
<1> USE PathsDiffer DEF WorkspaceTypeOK, SafeInv, BuildTo
<1>p. Copy \in Paths /\ Build \in Paths /\ Native \in Paths
  BY DEF Paths
<1>1. CASE Refresh
  BY <1>1, <1>p DEF Refresh, Removed, Generated
<1>2. CASE MakeDirectories
  BY <1>2, <1>p DEF MakeDirectories, Made, Exists
<1>3. CASE MarkDirectories
  BY <1>3, <1>p DEF MarkDirectories, MarkGenerated
<1>4. CASE CopySources
  BY <1>4, <1>p DEF CopySources, Made
<1>5. CASE RunCommand
  <2>1. \E S \in SUBSET {Build, Native} : root' = Made(S)
    BY <1>5 DEF RunCommand, Effect
  <2>2. UNCHANGED fresh /\ build \notin {"directories", "failed", "mark"}
    BY <1>5 DEF RunCommand, CommandNames, Commands
  <2> QED
    BY <1>p, <2>1, <2>2 DEF Made
<1>6. CASE Adopt
  BY <1>6, <1>p DEF Adopt
<1>7. CASE BuildChecks \/ Onnx \/ NameLibrary \/ Verify \/ RecordProfile
  <2>1. UNCHANGED <<root, fresh>> /\ build \notin {"directories", "failed", "mark"}
    BY <1>7
    DEF BuildChecks, Onnx, ResolveOnnx, Download, RemoveStale, Install, NameLibrary, Verify, RecordProfile, Files
  <2> QED
    BY <2>1
<1>8. CASE BuildFails
  <2>1. UNCHANGED <<root, fresh>> /\ build' = "failed"
    BY <1>8 DEF BuildFails, Files
  <2> QED
    BY <2>1
<1> QED
  BY <1>1, <1>2, <1>3, <1>4, <1>5, <1>6, <1>7, <1>8 DEF BuildRuns, BuildStep

\* The step property: a directory that ceases to exist.
SafeStep ==
    \A p \in Paths : Exists(p) /\ root'[p] = Absent =>
        \/ root[p] = p \/ p \in fresh
        \/ \E q \in {Copy, Final} : ~Exists(q) /\ root'[q] = root[p]

LEMMA ShellSafe ==
    ASSUME HandleInv, DiskInv, SafeInv, Shell PROVE SafeInv' /\ SafeStep
<1>a. /\ root \in [Paths -> Paths \cup {Absent, Unmarked}] /\ targets \subseteq Paths
      /\ phase = "launched" <=> process # "absent"
      /\ process \in {"absent", "running", "exited"}
  BY DEF HandleInv, DiskInv, WorkspaceTypeOK, RunTypeOK
<1>p. Prepared \in Paths /\ Final \in Paths /\ Copy \in Paths /\ Build \in Paths /\ Native \in Paths
  BY DEF Paths
<1>u. UNCHANGED <<phase, process, kernel, result, build, fresh>>
  BY DEF Shell, preparationVars, runVars, processVars, handleVars, BuildLoses
<1>b. process = "exited" \/ (root[Prepared] = Absent /\ root[Final] = Absent)
  BY DEF Shell, DiskInv, BeforeDirectory
<1> USE <1>a, <1>p, PathsDiffer DEF SafeInv, SafeStep, Exists
<1>1. CASE ClobberTargets
  BY <1>1, <1>u DEF ClobberTargets, ClobberIdle, Finished
<1>2. ASSUME NEW p \in Paths, ClobberCheck(p) PROVE SafeInv' /\ SafeStep
  <2>1. UNCHANGED root /\ chosen' \in {p, Nothing} /\ (chosen' = p => root[p] = p)
    BY <1>2 DEF ClobberCheck, Generated
  <2> QED
    BY <1>b, <1>u, <2>1 DEF Finished, Paths
<1>3. CASE ClobberRemove
  BY <1>3, <1>u, <1>b DEF ClobberRemove, Removed, Finished, Paths
<1>4. ASSUME NEW p \in {Prepared, Final}, UserCopies(p) \/ UserMoves(p) PROVE SafeInv' /\ SafeStep
  <2>1. /\ root[p] # Absent /\ root[Copy] = Absent /\ UNCHANGED chosen
        /\ \/ root' = [root EXCEPT ![Copy] = root[p]]
           \/ root' = [root EXCEPT ![Copy] = root[p], ![p] = Absent]
    BY <1>4 DEF UserCopies, UserMoves, Renamed, clobberVars
  <2>2. root[p] \in {Prepared, Final}
    BY <1>4, <1>b, <2>1
  <2> QED
    BY <1>4, <1>u, <2>1, <2>2 DEF Finished
<1> QED
  BY <1>1, <1>2, <1>3, <1>4 DEF Shell, Clobber

LEMMA FinishSafe ==
    ASSUME HandleInv, DiskInv, SafeInv, NEW t \in Threads, Finish(t),
           UNCHANGED <<targets, chosen, phase, touched, build, fresh>>
    PROVE  SafeInv' /\ SafeStep
<1>a. root \in [Paths -> Paths \cup {Absent, Unmarked}]
  BY DEF DiskInv, WorkspaceTypeOK
<1>p. Prepared \in Paths /\ Final \in Paths /\ Copy \in Paths /\ Build \in Paths /\ Native \in Paths
  BY DEF Paths
<1>b. kernel = "alive" /\ process = "exited" /\ ~Finished /\ workDir = Prepared /\ phase = "launched"
  BY FinishContext DEF DiskInv
<1>c. root[Final] \in {Absent, Prepared} /\ chosen # Final
  BY <1>b, PathsDiffer DEF SafeInv
<1> USE <1>a, <1>p, <1>b, <1>c, PathsDiffer DEF SafeInv, SafeStep, Exists
<1>1. CASE AppendCompletion(t) \/ RenameLogs(t)
  <2>1. UNCHANGED <<root, process, kernel>>
    BY <1>1 DEF AppendCompletion, RenameLogs, workspaceVars, processVars
  <2> QED
    BY <2>1
<1>2. CASE MoveDirectory(t)
  <2>1. UNCHANGED <<process, kernel>>
    BY <1>2 DEF MoveDirectory, processVars
  <2>2. root' = root \/ (root[Final] = Absent /\ root' = [root EXCEPT ![Final] = root[Prepared], ![Prepared] = Absent])
    BY <1>2 DEF MoveDirectory, Renamed
  <2> QED
    BY <2>1, <2>2
<1>3. CASE RelocateMarker(t)
  <2>1. UNCHANGED <<process, kernel>>
    BY <1>3 DEF RelocateMarker, processVars
  <2>2. root' = root \/ (root' = [root EXCEPT ![Final] = Final] /\ Finished' /\ root[Final] # Absent)
    BY <1>3 DEF RelocateMarker, Relocated, MarkGenerated, Marked, Publish, Finished, NoResult
  <2> QED
    BY <2>1, <2>2
<1> QED
  BY <1>1, <1>2, <1>3 DEF Finish

LEMMA SafeKept ==
    ASSUME RunIInv, SafeInv, [Next]_vars PROVE SafeInv' /\ SafeStep
<1>a. /\ HandleInv /\ DiskInv /\ RunTypeOK /\ WorkspaceTypeOK
      /\ root \in [Paths -> Paths \cup {Absent, Unmarked}]
  BY DEF RunIInv, HandleInv, DiskInv, WorkspaceTypeOK
<1>p. Prepared \in Paths /\ Final \in Paths /\ Copy \in Paths /\ Build \in Paths /\ Native \in Paths
  BY DEF Paths
<1>f. BuildRuns \/ UNCHANGED fresh
  BY DEF Next, vars, buildVars, unprepared, unbuilt, unhandled, Locate, PreparesCase, Launched, HostsStart, SolverStarts,
         SolverWrites, SolverEnds, SolverBreaks, Evaluates, HostsRun, HostsStop, JobKilled, JobEnds, ProcessEnds, Leave,
         Calls, Finishes, Cleans, Reads, Asks, ConsumerCloses, Shell, BuildLoses
<1>1. CASE BuildRuns
  <2>1. RunRoots
    BY <1>1, <1>a, BuildLeavesRuns
  <2>2. UNCHANGED <<chosen, phase, process, kernel, result>>
    BY <1>1 DEF BuildRuns, clobberVars, preparationVars, runVars, processVars, handleVars
  <2> QED
    BY <1>1, <1>a, <2>1, <2>2, BuildSafe, PathsDiffer DEF SafeInv, SafeStep, RunRoots, Finished, Exists
<1>2. CASE PreparesCase
  <2>1. UNCHANGED <<chosen, process, kernel, result, build, fresh>> /\ process = "absent"
    BY <1>2, Prepares DEF runVars, buildVars, processVars, handleVars
  <2>2. phase' # "launched"
    BY <1>2, Prepares
  <2>3. \/ root' = root \/ root' = [root EXCEPT ![Prepared] = Unmarked]
        \/ root' = [root EXCEPT ![Prepared] = Prepared]
    BY <1>2, Prepares
  <2>4. Absent # Unmarked
    BY DEF Absent, Unmarked
  <2> QED
    BY <1>a, <1>p, <2>1, <2>2, <2>3, <2>4, PathsDiffer DEF SafeInv, SafeStep, Finished, Exists
<1>3. CASE Launched
  <2>1. /\ phase = "ready" /\ phase' = "launched" /\ process = "absent"
        /\ UNCHANGED <<root, chosen, kernel, result, build, fresh>>
    BY <1>3 DEF Launched, Advance, Start, workspaceVars, clobberVars, handleVars, buildVars
  <2>2. root[Prepared] = Prepared
    BY <1>a, <2>1 DEF DiskInv, WithDirectory
  <2> QED
    BY <2>1, <2>2 DEF SafeInv, SafeStep, Exists, Finished
<1>4. CASE Shell
  BY <1>4, <1>a, ShellSafe
<1>5. ASSUME NEW t \in Threads, Finish(t), UNCHANGED <<targets, chosen, phase, touched, build, shared>>
      PROVE  SafeInv' /\ SafeStep
  BY <1>5, <1>a, <1>f, <1>1, FinishSafe DEF RunIInv
<1>6. CASE [QuietNext]_runVars /\ UNCHANGED <<root, targets, chosen, phase, touched, build, shared>> /\ UNCHANGED fresh
  <2>1. /\ process' = "absent" <=> process = "absent"
        /\ process' = "running" => process = "running"
        /\ kernel' = "alive" => kernel = "alive" /\ UNCHANGED result
    BY <1>6, <1>a, QuietKeeps
  <2>2. process' \in {"absent", "running", "exited"}
    BY <1>a, NextRuns, HandleKept DEF RunIInv, HandleInv, RunTypeOK
  <2> QED
    BY <1>6, <2>1, <2>2 DEF SafeInv, SafeStep, Exists, Finished
<1> QED
  BY <1>a, <1>f, <1>1, <1>2, <1>3, <1>4, <1>5, <1>6, NextSplit

LEMMA SafeInvariant == Spec => [](RunIInv /\ SafeInv)
<1>1. RunIInv /\ SafeInv /\ [Next]_vars => SafeInv'
  BY SafeKept
<1>2. Init => SafeInv
  BY SafeInit
<1> QED
  BY <1>1, <1>2, RunInvariant, PTL DEF Spec

\* Nothing the program does removes a directory it does not own, whatever is created,
\* renamed or copied between its look and its removal (relocate_generated,
\* generated_kind, `foamnordic clobber`).
THEOREM WorkspaceSafe == Spec => WorkspaceIsSafe
<1>1. RunIInv /\ SafeInv /\ [Next]_vars =>
         [\A p \in Paths : Exists(p) /\ root'[p] = Absent =>
             \/ root[p] = p \/ p \in fresh
             \/ \E q \in {Copy, Final} : ~Exists(q) /\ root'[q] = root[p]]_vars
  BY SafeKept DEF SafeStep
<1> QED
  BY <1>1, SafeInvariant, PTL DEF Spec, WorkspaceIsSafe

-----------------------------------------------------------------------------
(***************************************************************************)
(* The native build.                                                       *)
(***************************************************************************)

\* Where a build has passed a stage.
PastAdopt == {"record", "done"}
PastSolver == {"verify", "adopt"} \cup PastAdopt
PastLibrary == {"application"} \cup PastSolver
PastTools == {"libso"} \cup Naming \cup PastLibrary
PastConfigure == {"make", "sdk", "tools"} \cup PastTools
PastOnnx == {"refresh", "directories", "mark", "copy", "configure"} \cup PastConfigure

\* What each stage has left for the next ones, as long as nobody removes one of its
\* directories behind its back.
StagesInv ==
    /\ build \in PastOnnx /\ toolchain.onnx = "fetch" => onnxCache = "whole"
    /\ build \in PastConfigure => cache = "this"
    /\ build \in PastTools => runtime["longship"] = "new" /\ (WithOnnx => runtime["worker"] = "new")
    /\ build \in {"identify", "rename"} => libraries.generic = "new"
    /\ build = "rename" => libraries.named \subseteq {"new"}
    /\ build = "link" => libraries.named = {"new"}
    /\ build \in PastLibrary => IF toolchain.darwin THEN libraries.named = {"new"} ELSE libraries.generic = "new"
    /\ build \in PastSolver => runtime["solver"] = "new"
    /\ build \in PastAdopt => root[Build] = Build /\ root[Native] = Native
    /\ build = "done" => runtime["profile"] = "new"

\* On Linux the adapter has no name of its own; on macOS it has it once it was renamed.
NamingInv ==
    /\ build \in Naming => toolchain.darwin
    /\ build = "link" => libraries.generic = "absent"
    /\ ~toolchain.darwin => libraries.named = {}

UsableInv == BuildTypeOK /\ NamingInv /\ (~cleared /\ ~toolchain.dry => StagesInv)

LEMMA UsableInit == Init => UsableInv
<1> SUFFICES ASSUME Init PROVE UsableInv
  OBVIOUS
<1>1. BuildInit
  BY DEF Init
<1>2. build \in {"idle", "checks"}
  BY <1>1 DEF BuildInit
<1>3. runtime \in [Parts -> Generations]
  BY <1>1 DEF BuildInit, NoParts, Parts, Generations
<1>4. /\ libraries \in [named : SUBSET {"older", "new"}, generic : Generations, link : BOOLEAN]
      /\ ~toolchain.darwin => libraries.named = {}
  <2>1. \/ libraries = [named |-> {}, generic |-> "absent", link |-> FALSE]
        \/ libraries = [named |-> {}, generic |-> "older", link |-> FALSE]
        \/ toolchain.darwin /\ libraries = [named |-> {"older"}, generic |-> "older", link |-> TRUE]
        \/ toolchain.darwin /\ libraries = [named |-> {"older"}, generic |-> "absent", link |-> FALSE]
    BY <1>1 DEF BuildInit, NoLibraries, Earlier
  <2>2. {} \in SUBSET {"older", "new"} /\ {"older"} \in SUBSET {"older", "new"}
    OBVIOUS
  <2>3. \A n \in SUBSET {"older", "new"}, g \in {"absent", "older"}, k \in BOOLEAN :
           [named |-> n, generic |-> g, link |-> k] \in [named : SUBSET {"older", "new"}, generic : Generations, link : BOOLEAN]
    BY DEF Generations
  <2>4. libraries \in [named : SUBSET {"older", "new"}, generic : Generations, link : BOOLEAN]
    BY <2>1, <2>2, <2>3
  <2> QED
    BY <2>1, <2>4
<1>5. BuildTypeOK
  BY <1>1, <1>3, <1>4 DEF BuildInit, BuildTypeOK, Building
<1> QED
  BY <1>2, <1>4, <1>5
  DEF UsableInv, NamingInv, StagesInv, PastAdopt, PastSolver, PastLibrary, PastTools, PastConfigure, PastOnnx, Naming

\* Everything but a build and somebody else leaves the build's state and its two
\* directories alone.
LEMMA BuildAlone ==
    ASSUME RunIInv, [Next]_vars
    PROVE  \/ BuildRuns \/ Shell
           \/ UNCHANGED buildVars /\ root'[Build] = root[Build] /\ root'[Native] = root[Native]
<1>a. /\ HandleInv /\ RunTypeOK /\ root \in [Paths -> Paths \cup {Absent, Unmarked}]
  BY DEF RunIInv, HandleInv, DiskInv, WorkspaceTypeOK
<1>p. Build \in Paths /\ Native \in Paths /\ Prepared \in Paths /\ Final \in Paths
  BY DEF Paths
<1>1. BuildRuns \/ Shell \/ UNCHANGED buildVars
  BY DEF Next, vars, unprepared, unbuilt, unhandled, Locate, PreparesCase, Launched, HostsStart, SolverStarts,
         SolverWrites, SolverEnds, SolverBreaks, Evaluates, HostsRun, HostsStop, JobKilled, JobEnds, ProcessEnds, Leave,
         Calls, Finishes, Cleans, Reads, Asks, ConsumerCloses
<1>2. CASE PreparesCase
  <2>1. \/ root' = root \/ root' = [root EXCEPT ![Prepared] = Unmarked]
        \/ root' = [root EXCEPT ![Prepared] = Prepared]
    BY <1>2, Prepares
  <2> QED
    BY <1>1, <1>a, <1>p, <2>1, PathsDiffer
<1>3. CASE Launched
  BY <1>1, <1>3 DEF Launched, workspaceVars
<1>4. ASSUME NEW t \in Threads, Finish(t) PROVE root'[Build] = root[Build] /\ root'[Native] = root[Native]
  <2>1. workDir = Prepared
    BY <1>a, <1>4, FinishContext
  <2> QED
    BY <1>4, <1>a, <1>p, <2>1, PathsDiffer
    DEF Finish, AppendCompletion, RenameLogs, MoveDirectory, RelocateMarker, Renamed, Relocated, MarkGenerated,
        workspaceVars
<1> QED
  BY <1>a, <1>1, <1>2, <1>3, <1>4, NextSplit

LEMMA BuildTypesKept ==
    ASSUME BuildTypeOK, NamingInv, BuildRuns PROVE BuildTypeOK'
<1> USE DEF BuildTypeOK, BuildTo, Files, buildRest
<1>n. Building \cup {"idle", "done", "failed"} =
          {"idle", "done", "failed", "checks", "onnx", "download", "stale", "install", "refresh", "directories", "mark",
           "copy", "verify", "adopt", "record", "configure", "make", "sdk", "tools", "libso", "application", "identify",
           "rename", "link"}
  BY DEF Building, CommandNames, Commands, Naming
<1>1. CASE BuildFails \/ BuildChecks
  BY <1>1, <1>n DEF BuildFails, BuildChecks
<1>2. CASE Onnx
  BY <1>2, <1>n DEF Onnx, ResolveOnnx, Download, RemoveStale, Install
<1>3. CASE Refresh \/ MakeDirectories
  BY <1>3, <1>n DEF Refresh, MakeDirectories
<1>4. CASE MarkDirectories
  BY <1>4, <1>n DEF MarkDirectories
<1>5. CASE CopySources
  BY <1>5, <1>n DEF CopySources, Generations
<1>6. CASE RunCommand
  <2>1. build' \in Building
    BY <1>6, <1>n DEF RunCommand, After, CommandNames, Commands
  <2>2. runtime' \in [Parts -> Generations]
    BY <1>6 DEF RunCommand, Effect, Generations
  <2>3. libraries' \in [named : SUBSET {"older", "new"}, generic : Generations, link : BOOLEAN]
    BY <1>6 DEF RunCommand, Effect, Generations
  <2>4. cache' \in {"none", "this", "other"} /\ UNCHANGED <<copied, onnxCache, fresh, cleared>>
    BY <1>6 DEF RunCommand, Effect
  <2> QED
    BY <2>1, <2>2, <2>3, <2>4
<1>7. CASE NameLibrary
  <2>1. CASE build = "identify"
    BY <1>7, <1>n, <2>1 DEF NameLibrary
  <2>2. CASE build = "rename"
    <3>1. libraries.named \cup {libraries.generic} \in SUBSET {"older", "new"} /\ "absent" \in Generations
      BY <1>7, <2>2 DEF NameLibrary, Generations
    <3>2. libraries' = [libraries EXCEPT !.named = libraries.named \cup {libraries.generic}, !.generic = "absent"]
      BY <1>7, <2>2 DEF NameLibrary
    <3>3. /\ build' = "link"
          /\ UNCHANGED <<root, cache, copied, onnxCache, runtime, fresh, cleared>>
      BY <1>7, <2>2 DEF NameLibrary
    <3>4. libraries' \in [named : SUBSET {"older", "new"}, generic : Generations, link : BOOLEAN]
      BY <3>1, <3>2
    <3> QED
      BY <1>n, <3>3, <3>4
  <2>3. CASE build = "link"
    <3>1. libraries.named # {}
      BY <1>7, <2>3 DEF NameLibrary, NamingInv
    <3>2. (CHOOSE l \in libraries.named : TRUE) \in {"older", "new"}
      BY <3>1
    <3>3. /\ libraries' = [libraries EXCEPT !.generic = CHOOSE l \in libraries.named : TRUE, !.link = TRUE]
          /\ build' \in Building
          /\ UNCHANGED <<root, cache, copied, onnxCache, runtime, fresh, cleared>>
      BY <1>7, <1>n, <2>3 DEF NameLibrary
    <3>4. libraries' \in [named : SUBSET {"older", "new"}, generic : Generations, link : BOOLEAN]
      BY <3>2, <3>3 DEF Generations
    <3> QED
      BY <1>n, <3>3, <3>4
  <2> QED
    BY <1>7, <2>1, <2>2, <2>3 DEF NameLibrary
<1>8. CASE Verify \/ Adopt
  BY <1>8, <1>n DEF Verify, Adopt
<1>9. CASE RecordProfile
  BY <1>9, <1>n DEF RecordProfile, Parts, Generations
<1> QED
  BY <1>1, <1>2, <1>3, <1>4, <1>5, <1>6, <1>7, <1>8, <1>9 DEF BuildRuns, BuildStep

\* A step of the build leaves what its stage promises to the next one.
LEMMA StagesKept ==
    ASSUME BuildTypeOK, NamingInv, BuildRuns
    PROVE  NamingInv' /\ (StagesInv /\ ~toolchain.dry => StagesInv')
<1> USE DEF BuildTo, Files, buildRest, PastAdopt, PastSolver, PastLibrary, PastTools, PastConfigure, PastOnnx, Naming,
            WithOnnx
<1>t. UNCHANGED toolchain
  BY DEF BuildRuns, BuildStep, BuildFails, BuildChecks, Onnx, ResolveOnnx, Download, RemoveStale, Install,
         Refresh, MakeDirectories, MarkDirectories, CopySources, RunCommand, NameLibrary, Verify, Adopt, RecordProfile
<1>1. CASE BuildFails
  BY <1>1, <1>t DEF BuildFails, NamingInv, StagesInv
<1>2. CASE BuildChecks
  BY <1>2, <1>t DEF BuildChecks, NamingInv, StagesInv
<1>3. CASE Onnx
  <2>1. CASE ResolveOnnx \/ Download
    BY <2>1, <1>t DEF ResolveOnnx, Download, Inspected, NamingInv, StagesInv
  <2>2. CASE RemoveStale \/ Install
    BY <2>2, <1>t DEF RemoveStale, Install, Inspected, NamingInv, StagesInv
  <2> QED
    BY <1>3, <2>1, <2>2 DEF Onnx
<1>4. CASE Refresh \/ MakeDirectories
  BY <1>4, <1>t DEF Refresh, MakeDirectories, NamingInv, StagesInv
<1>5. CASE MarkDirectories
  BY <1>5, <1>t DEF MarkDirectories, NamingInv, StagesInv
<1>6. CASE CopySources
  <2>1. libraries'.named = libraries.named
    BY <1>6 DEF CopySources, BuildTypeOK
  <2> QED
    BY <1>6, <1>t, <2>1 DEF CopySources, NamingInv, StagesInv
<1>7. CASE RunCommand
  <2>0. /\ build \in {"configure", "make", "sdk", "tools", "libso", "application"}
        /\ build' = After(build) /\ Effect(build)
        /\ UNCHANGED <<copied, onnxCache, fresh>>
    BY <1>7 DEF RunCommand, CommandNames, Commands
  <2>1. /\ After("configure") = "make" /\ After("make") = "sdk" /\ After("sdk") = "tools" /\ After("tools") = "libso"
        /\ After("libso") = IF toolchain.darwin THEN "identify" ELSE "application"
        /\ After("application") = "verify"
    BY DEF After, Commands
  <2>2. libraries'.named = libraries.named
    BY <2>0 DEF Effect, BuildTypeOK
  <2>3. CASE build \in {"configure", "make", "sdk"}
    <3>1. build' \in {"make", "sdk", "tools"} /\ (build = "configure" => cache' = "this")
          /\ (build # "configure" => cache' = cache)
      BY <2>0, <2>1, <2>3 DEF Effect
    <3> QED
      BY <2>0, <2>2, <2>3, <3>1, <1>t DEF NamingInv, StagesInv
  <2>4. CASE build = "tools"
    <3>1. /\ build' = "libso" /\ cache' = cache
          /\ runtime' = [part \in Parts |-> IF part \in Gives("tools") THEN "new" ELSE runtime[part]]
      BY <2>0, <2>1, <2>4 DEF Effect
    <3>2. runtime'["longship"] = "new" /\ (WithOnnx => runtime'["worker"] = "new")
      BY <3>1 DEF Gives, Parts
    <3> QED
      BY <2>0, <2>2, <2>4, <3>1, <3>2, <1>t DEF NamingInv, StagesInv
  <2>5. CASE build = "libso"
    <3>1. /\ build' = IF toolchain.darwin THEN "identify" ELSE "application"
          /\ cache' = cache /\ libraries'.generic = "new"
          /\ runtime' = [part \in Parts |-> runtime[part]]
      BY <2>0, <2>1, <2>5 DEF Effect, Gives, BuildTypeOK
    <3>2. runtime' = runtime
      BY <3>1 DEF BuildTypeOK
    <3>3. CASE toolchain.darwin
      BY <2>0, <2>2, <2>5, <3>1, <3>2, <3>3, <1>t DEF NamingInv, StagesInv
    <3>4. CASE ~toolchain.darwin
      BY <2>0, <2>2, <2>5, <3>1, <3>2, <3>4, <1>t DEF NamingInv, StagesInv
    <3> QED
      BY <3>3, <3>4
  <2>6. CASE build = "application"
    <3>1. /\ build' = "verify" /\ cache' = cache /\ libraries' = libraries
          /\ runtime' = [part \in Parts |-> IF part \in {"solver"} THEN "new" ELSE runtime[part]]
      BY <2>0, <2>1, <2>6 DEF Effect, Gives
    <3>2. runtime'["solver"] = "new" /\ runtime'["longship"] = runtime["longship"]
          /\ runtime'["worker"] = runtime["worker"]
      BY <3>1 DEF Parts
    <3> QED
      BY <2>0, <2>6, <3>1, <3>2, <1>t DEF NamingInv, StagesInv
  <2> QED
    BY <2>0, <2>3, <2>4, <2>5, <2>6
<1>8. CASE NameLibrary
  <2>0. UNCHANGED <<root, cache, copied, onnxCache, runtime, fresh>>
    BY <1>8 DEF NameLibrary
  <2>1. CASE build = "identify"
    <3>1. build' = "rename" /\ libraries'.generic = libraries.generic
          /\ libraries'.named = libraries.named \cap {libraries.generic}
      BY <1>8, <2>1 DEF NameLibrary, BuildTypeOK
    <3> QED
      BY <2>0, <2>1, <3>1, <1>t DEF NamingInv, StagesInv
  <2>2. CASE build = "rename"
    <3>1. build' = "link" /\ libraries'.generic = "absent"
          /\ libraries'.named = libraries.named \cup {libraries.generic}
      BY <1>8, <2>2 DEF NameLibrary, BuildTypeOK
    <3>2. StagesInv => libraries'.named = {"new"}
      BY <2>2, <3>1, SetExtensionality DEF StagesInv
    <3> QED
      BY <2>0, <2>2, <3>1, <3>2, <1>t DEF NamingInv, StagesInv
  <2>3. CASE build = "link"
    <3>1. build' = "application" /\ libraries'.named = libraries.named
      BY <1>8, <2>3 DEF NameLibrary, BuildTypeOK
    <3> QED
      BY <2>0, <2>3, <3>1, <1>t DEF NamingInv, StagesInv
  <2> QED
    BY <1>8, <2>1, <2>2, <2>3 DEF NameLibrary
<1>9. CASE Verify
  BY <1>9, <1>t DEF Verify, NamingInv, StagesInv
<1>10. CASE Adopt
  <2>1. StagesInv => root'[Build] = Build /\ root'[Native] = Native
    BY <1>10 DEF Adopt, StagesInv, Paths
  <2> QED
    BY <1>10, <2>1, <1>t DEF Adopt, NamingInv, StagesInv
<1>11. CASE RecordProfile
  <2>1. /\ runtime'["profile"] = "new" /\ runtime'["longship"] = runtime["longship"]
        /\ runtime'["worker"] = runtime["worker"] /\ runtime'["solver"] = runtime["solver"]
    BY <1>11 DEF RecordProfile, BuildTypeOK, Parts
  <2> QED
    BY <1>11, <2>1, <1>t DEF RecordProfile, NamingInv, StagesInv
<1> QED
  BY <1>1, <1>2, <1>3, <1>4, <1>5, <1>6, <1>7, <1>8, <1>9, <1>10, <1>11 DEF BuildRuns, BuildStep

\* What the world around the run does to a build is to take a directory away with
\* what is in it, which counts while it runs and once it is done.
LEMMA StagesOutlast ==
    ASSUME BuildTypeOK, NamingInv, WorkspaceTypeOK, Shell
    PROVE  BuildTypeOK' /\ NamingInv' /\ (~cleared' => ~cleared /\ (StagesInv => StagesInv'))
<1> USE DEF Exists
<1> DEFINE gone(p) == root[p] # Absent /\ root'[p] = Absent
<1>0. /\ cache' = IF gone(Build) THEN "none" ELSE cache
      /\ copied' = (copied /\ ~gone(Build))
      /\ runtime' = IF gone(Native) THEN NoParts ELSE runtime
      /\ libraries' = IF gone(Native) THEN NoLibraries ELSE libraries
      /\ cleared' = (cleared \/ (build \in Building \cup {"done"} /\ (gone(Build) \/ gone(Native))))
      /\ UNCHANGED <<toolchain, onnxCache, fresh, build>>
  BY DEF Shell, BuildLoses
<1>1. NoParts \in [Parts -> Generations]
  BY DEF NoParts, Generations
<1>2. /\ NoLibraries \in [named : SUBSET {"older", "new"}, generic : Generations, link : BOOLEAN]
      /\ NoLibraries.named = {} /\ NoLibraries.generic = "absent"
  <2>1. {} \in SUBSET {"older", "new"}
    OBVIOUS
  <2> QED
    BY <2>1 DEF NoLibraries, Generations
<1>3. copied' \in BOOLEAN /\ cleared' \in BOOLEAN
  BY <1>0
<1> HIDE DEF gone
<1>4. BuildTypeOK'
  <2>1. runtime' \in [Parts -> Generations]
    BY <1>0, <1>1 DEF BuildTypeOK
  <2>2. libraries' \in [named : SUBSET {"older", "new"}, generic : Generations, link : BOOLEAN]
    BY <1>0, <1>2 DEF BuildTypeOK
  <2>3. cache' \in {"none", "this", "other"} /\ UNCHANGED <<onnxCache, fresh, build>>
    BY <1>0 DEF BuildTypeOK
  <2> QED
    BY <1>3, <2>1, <2>2, <2>3 DEF BuildTypeOK
<1>5. NamingInv'
  BY <1>0, <1>2 DEF NamingInv
<1>6. ASSUME ~cleared' PROVE ~cleared /\ (StagesInv => StagesInv')
  <2>1. ~cleared
    BY <1>0, <1>6 DEF BuildTypeOK
  <2>2. CASE build \in Building \cup {"done"}
    <3>1. ~gone(Build) /\ ~gone(Native)
      BY <1>0, <1>6, <2>2
    <3>2. UNCHANGED <<cache, runtime, libraries, toolchain, onnxCache, build>>
      BY <1>0, <3>1
    <3>3. \A p \in {Build, Native} : root[p] = p => root'[p] = p
      <4> SUFFICES ASSUME NEW p \in {Build, Native}, root[p] = p PROVE root'[p] = p
        OBVIOUS
      <4>1. root[p] # Absent /\ root'[p] # Absent
        BY <3>1, PathsDiffer DEF gone, Paths
      <4>2. CASE Clobber
        BY <4>1, <4>2, PathsDiffer
        DEF Clobber, ClobberTargets, ClobberCheck, ClobberRemove, Removed, Paths, WorkspaceTypeOK
      <4>3. ASSUME NEW q \in {Prepared, Final}, UserCopies(q) \/ UserMoves(q) PROVE root'[p] = p
        BY <4>3, PathsDiffer DEF UserCopies, UserMoves, Renamed, Paths, WorkspaceTypeOK
      <4> QED
        BY <4>2, <4>3 DEF Shell
    <3> QED
      BY <2>1, <3>2, <3>3 DEF StagesInv, WithOnnx
  <2>3. CASE build \notin Building \cup {"done"}
    BY <1>0, <2>1, <2>3
    DEF StagesInv, PastAdopt, PastSolver, PastLibrary, PastTools, PastConfigure, PastOnnx, Naming, Building,
        CommandNames, Commands, BuildTypeOK
  <2> QED
    BY <2>2, <2>3
<1> QED
  BY <1>4, <1>5, <1>6

LEMMA UsableKept ==
    ASSUME RunIInv, UsableInv, [Next]_vars PROVE UsableInv'
<1>1. CASE BuildRuns
  <2>1. UNCHANGED <<toolchain, cleared>>
    BY <1>1 DEF BuildRuns, BuildStep, BuildFails, BuildChecks, Onnx, ResolveOnnx, Download, RemoveStale, Install,
        Refresh, MakeDirectories, MarkDirectories, CopySources, RunCommand, NameLibrary, Verify, Adopt, RecordProfile,
        buildRest
  <2> QED
    BY <1>1, <2>1, BuildTypesKept, StagesKept DEF UsableInv
<1>2. CASE Shell
  <2>1. UNCHANGED toolchain
    BY <1>2 DEF Shell, BuildLoses
  <2>2. WorkspaceTypeOK
    BY DEF RunIInv, DiskInv
  <2> QED
    BY <1>2, <2>1, <2>2, StagesOutlast DEF UsableInv
<1>3. CASE UNCHANGED buildVars /\ root'[Build] = root[Build] /\ root'[Native] = root[Native]
  BY <1>3 DEF buildVars, UsableInv, BuildTypeOK, NamingInv, StagesInv, WithOnnx
<1> QED
  BY <1>1, <1>2, <1>3, BuildAlone

LEMMA UsableGives == UsableInv => BuildIsUsable
<1> SUFFICES ASSUME UsableInv, build = "done", ~cleared, ~toolchain.dry
             PROVE  /\ \A part \in Parts : part # "worker" \/ WithOnnx => runtime[part] = "new"
                    /\ Integrations = {"new"}
                    /\ toolchain.onnx = "fetch" => Inspected
                    /\ Healthy
                    /\ Generated(Build) /\ Generated(Native)
  BY DEF BuildIsUsable
<1> USE DEF PastAdopt, PastSolver, PastLibrary, PastTools, PastConfigure, PastOnnx, Naming
<1>1. /\ runtime["longship"] = "new" /\ (WithOnnx => runtime["worker"] = "new")
      /\ runtime["solver"] = "new" /\ runtime["profile"] = "new"
  BY DEF UsableInv, StagesInv
<1>2. IF toolchain.darwin THEN libraries.named = {"new"} ELSE libraries.generic = "new" /\ libraries.named = {}
  BY DEF UsableInv, StagesInv, NamingInv
<1>3. Integrations = {"new"}
  BY <1>2 DEF Integrations
<1>4. Healthy
  BY <1>1, <1>2 DEF Healthy, DoctorFails, Parts
<1> QED
  BY <1>1, <1>3, <1>4 DEF UsableInv, StagesInv, Parts, Inspected, Generated

LEMMA UsableInvariant == Spec => []UsableInv
<1>1. Init => UsableInv
  BY UsableInit
<1>2. UsableInv /\ RunIInv /\ [Next]_vars => UsableInv'
  BY UsableKept
<1> QED
  BY <1>1, <1>2, RunInvariant, PTL DEF Spec

\* A build that returns 0 has replaced every part of the runtime it was asked for,
\* and what a launch and doctor find is its own (_build, _doctor_checks).
THEOREM BuildUsable == Spec => []BuildIsUsable
BY UsableInvariant, UsableGives, PTL

\* The hosts of a launch: the readiness file that Longship waits for means that all of
\* them are ready, unless an earlier incarnation left readiness files; a group that
\* returned leaves no host and no readiness file; and none of the hosts loads a kernel
\* that is not whole (host_group.main, the compile cache of models/compiled.py).
THEOREM LaunchHostsTrue == Spec => [](HostsAreTrue /\ LibraryIsWhole)
BY LaunchImplementsParts, GroupHostsAreTrue, GroupLoadsWhole, PTL

\* What a host of a launch evaluates is true of what the ranks asked for (resident.py,
\* random.py).
THEOREM LaunchEvaluatesTruly == Spec => []EvaluationIsTrue
BY LaunchImplementsParts, EvaluationTrue, PTL

-----------------------------------------------------------------------------
\* FiniteSetsExt's Min is an element of its set.
LEMMA MinIsElement ==
    ASSUME NEW S \in SUBSET Nat, S # {} PROVE Min(S) \in S
BY LeastElement DEF Min
-----------------------------------------------------------------------------
(***************************************************************************)
(* The observations.  What the iterator has read is what waits or was      *)
(* yielded; it is over only after a pass that began when the run was       *)
(* known to be finished, so that all that had been written was read.       *)
(***************************************************************************)
AllRanks == 1..MaxSources

RecordTypeOK ==
    /\ sources \in 0..MaxSources
    /\ lines \in [AllRanks -> Seq(Index)] /\ torn \in [AllRanks -> 0..Exchanges]
    /\ offset \in [AllRanks -> Nat]
    /\ unread \subseteq Ranks /\ opened \in Ranks \cup {0}
    /\ pending \in [Index -> SUBSET AllRanks]
    /\ delivered \subseteq Index \X SUBSET AllRanks
    /\ twice \in BOOLEAN /\ terminalSeen \in BOOLEAN /\ emitted \in BOOLEAN

\* The exchanges a rank's file has lines of grow from line to line.
LinesGrow ==
    /\ \A r \in AllRanks : \A m, n \in 1..Len(lines[r]) : m < n => lines[r][m] < lines[r][n]
    /\ \A r \in AllRanks : torn[r] # 0 => \A n \in 1..Len(lines[r]) : lines[r][n] < torn[r]

\* A rank's record of an exchange that was yielded.
Yielded(r, i) == \E d \in delivered : d[1] = i /\ r \in d[2]
ReadOf(r, i) == \E n \in 1..Len(lines[r]) : n <= offset[r] /\ lines[r][n] = i

RecordsInv ==
    /\ RecordTypeOK /\ LinesGrow
    /\ \A r \in AllRanks : offset[r] <= Len(lines[r])
    /\ \A r \in AllRanks, i \in Index : ReadOf(r, i) <=> r \in pending[i] \/ Yielded(r, i)
    /\ \A r \in AllRanks, i \in Index : ~(r \in pending[i] /\ Yielded(r, i))
    /\ ~twice

\* What was written when the process exited stays written.
RecordedInv ==
    /\ recorded \in [AllRanks -> Nat]
    /\ \A r \in AllRanks : recorded[r] <= Len(lines[r])

\* The reader is nobody's caller: it leaves a call only with the run finished, or with
\* the exception of a finish that failed.
ReaderInv ==
    Observed =>
        /\ Reader \notin callers /\ Reader \notin forced /\ starter # Reader
        /\ pc[Reader] \in {"returned", "raised", "gone"} \cup FinishSteps
        /\ at # "answer" => pc[Reader] \notin FinishSteps
        /\ at = "answer" /\ pc[Reader] = "returned" => Finished

\* Every file of a pass has still to be opened, is open, or has been read beyond what
\* it held when the process exited.
NoneLeft == \A r \in Ranks : r \in unread \/ r = opened \/ offset[r] >= recorded[r]

PassInv ==
    /\ terminalSeen \/ at = "ended" => Finished
    /\ Finished => workDir = result.dir
    /\ terminalSeen /\ at = "read" /\ ~touched => path = workDir /\ NoneLeft
    /\ at = "ended" /\ ~touched => \A r \in Ranks : offset[r] >= recorded[r]

ObserveInv == RecordsInv /\ RecordedInv /\ ReaderInv /\ PassInv
LEMMA ReaderAlone ==
    ASSUME [Next]_vars
    PROVE  \/ UNCHANGED readerVars
           \/ UNCHANGED runVars /\ \E r \in Ranks : EndLine(r) \/ \E i \in Index : BeginLine(r, i)
           \/ kernel' = "gone" /\ ReaderGone
           \/ ReaderSteps /\ UNCHANGED runVars
           \/ Ask
           \/ Closed /\ UNCHANGED runVars
BY DEF Next, vars, BuildRuns, Locate, unprepared, PreparesCase, Launched, HostsStart, SolverStarts, SolverWrites, unrun,
       SolverEnds, SolverBreaks, Evaluates, HostsRun, HostsStop, JobKilled, JobEnds, ProcessEnds, Leave, Calls,
       Finishes, Cleans, Reads, Asks, ConsumerCloses, Shell

LEMMA RecordsInit == Init => RecordsInv
<1> SUFFICES ASSUME Init PROVE RecordsInv
  OBVIOUS
<1>1. ReaderInit
  BY DEF Init
<1>2. <<>> \in Seq(Index) /\ 0 \in 0..Exchanges /\ {} \in SUBSET AllRanks
  BY ReaderAssumption
<1>3. RecordTypeOK
  BY <1>1, <1>2 DEF ReaderInit, RecordTypeOK, AllRanks
<1> QED
  BY <1>1, <1>3 DEF ReaderInit, RecordsInv, LinesGrow, Yielded, ReadOf, AllRanks

\* The writer of a rank.
LEMMA WriterKeepsRecords ==
    ASSUME RecordsInv, NEW r \in Ranks, EndLine(r) \/ \E i \in Index : BeginLine(r, i)
    PROVE  RecordsInv'
<1> USE DEF RecordsInv, RecordTypeOK, LinesGrow
<1>r. r \in AllRanks
  BY ReaderAssumption DEF Ranks, AllRanks
<1>i. Index \subseteq 0..Exchanges /\ 0 \in 0..Exchanges /\ \A i \in Index : i # 0 /\ i \in Nat
  BY ReaderAssumption DEF Index
<1>1. ASSUME NEW i \in Index, BeginLine(r, i) PROVE RecordsInv'
  <2>1. \A n \in 1..Len(lines[r]) : lines[r][n] < i
    <3> SUFFICES ASSUME NEW n \in 1..Len(lines[r]) PROVE lines[r][n] < i
      OBVIOUS
    <3>1. lines[r] \in Seq(Index) /\ lines[r] # <<>> /\ Len(lines[r]) \in Nat
      BY <1>r
    <3>2. lines[r][n] \in Index /\ lines[r][Len(lines[r])] \in Index
      BY <3>1
    <3>3. lines[r][Len(lines[r])] < i
      BY <1>1, <3>1 DEF BeginLine, Latest
    <3>4. n = Len(lines[r]) \/ lines[r][n] < lines[r][Len(lines[r])]
      BY <1>r, <3>1
    <3> QED
      BY <3>2, <3>3, <3>4 DEF Index
  <2>2. UNCHANGED <<sources, lines, at, passVars, recordVars>> /\ torn' = [torn EXCEPT ![r] = i]
    BY <1>1 DEF BeginLine
  <2>3. torn' \in [AllRanks -> 0..Exchanges]
    BY <1>i, <2>2
  <2>4. RecordTypeOK'
    BY <2>2, <2>3 DEF passVars, recordVars, Ranks
  <2>5. LinesGrow'
    BY <1>r, <2>1, <2>2
  <2> QED
    BY <2>2, <2>4, <2>5 DEF recordVars, Yielded, ReadOf
<1>2. CASE EndLine(r)
  <2>1. /\ lines' = [lines EXCEPT ![r] = Append(lines[r], torn[r])] /\ torn' = [torn EXCEPT ![r] = 0]
        /\ torn[r] \in Index
        /\ UNCHANGED <<sources, unread, opened, emitted, terminalSeen, offset, pending, delivered, twice>>
    BY <1>2, <1>r DEF EndLine, passVars, recordVars, Index
  <2>2. lines[r] \in Seq(Index) /\ Len(lines[r]) \in Nat
    BY <1>r
  <2>3. /\ Append(lines[r], torn[r]) \in Seq(Index)
        /\ Len(Append(lines[r], torn[r])) = Len(lines[r]) + 1
        /\ \A n \in 1..Len(lines[r]) : Append(lines[r], torn[r])[n] = lines[r][n]
        /\ Append(lines[r], torn[r])[Len(lines[r]) + 1] = torn[r]
    BY <2>1, <2>2
  <2>4. RecordTypeOK'
    <3>1. lines' \in [AllRanks -> Seq(Index)]
      BY <2>1, <2>3
    <3>2. torn' \in [AllRanks -> 0..Exchanges]
      BY <1>i, <2>1
    <3> QED
      BY <2>1, <3>1, <3>2 DEF Ranks
  <2>5. /\ \A q \in AllRanks \ {r} : lines'[q] = lines[q] /\ torn'[q] = torn[q]
        /\ torn'[r] = 0 /\ Len(lines'[r]) = Len(lines[r]) + 1
        /\ \A n \in 1..Len(lines[r]) : lines'[r][n] = lines[r][n]
        /\ lines'[r][Len(lines[r]) + 1] = torn[r]
    BY <1>r, <2>1, <2>3
  <2>6. \A m, n \in 1..Len(lines'[r]) : m < n => lines'[r][m] < lines'[r][n]
    <3> SUFFICES ASSUME NEW m \in 1..Len(lines'[r]), NEW n \in 1..Len(lines'[r]), m < n
                 PROVE  lines'[r][m] < lines'[r][n]
      OBVIOUS
    <3>1. m \in 1..Len(lines[r])
      BY <2>2, <2>5
    <3>2. CASE n = Len(lines[r]) + 1
      <4>1. lines'[r][m] = lines[r][m] /\ lines'[r][n] = torn[r]
        BY <2>5, <3>1, <3>2
      <4>2. torn[r] # 0
        BY <1>i, <2>1
      <4>3. lines[r][m] < torn[r]
        BY <1>r, <3>1, <4>2
      <4> QED
        BY <4>1, <4>3
    <3>3. CASE n \in 1..Len(lines[r])
      BY <1>r, <2>5, <3>1, <3>3
    <3> QED
      BY <2>2, <2>5, <3>2, <3>3
  <2>7. LinesGrow'
    <3>1. ASSUME NEW q \in AllRanks \ {r}
          PROVE  /\ \A m, n \in 1..Len(lines'[q]) : m < n => lines'[q][m] < lines'[q][n]
                 /\ torn'[q] # 0 => \A n \in 1..Len(lines'[q]) : lines'[q][n] < torn'[q]
      BY <2>5, <3>1
    <3> QED
      BY <2>5, <2>6, <3>1
  <2>8. \A q \in AllRanks : offset[q] <= Len(lines'[q])
    <3> SUFFICES ASSUME NEW q \in AllRanks PROVE offset[q] <= Len(lines'[q])
      OBVIOUS
    <3>1. offset[q] \in Nat /\ Len(lines[q]) \in Nat /\ offset[q] <= Len(lines[q])
      OBVIOUS
    <3>2. Len(lines'[q]) = Len(lines[q]) \/ Len(lines'[q]) = Len(lines[q]) + 1
      BY <2>5
    <3> QED
      BY <3>1, <3>2
  <2>9. \A q \in AllRanks, i \in Index : ReadOf(q, i)' <=> ReadOf(q, i)
    <3> SUFFICES ASSUME NEW q \in AllRanks, NEW i \in Index PROVE ReadOf(q, i)' <=> ReadOf(q, i)
      OBVIOUS
    <3>1. CASE q = r
      BY <1>r, <2>1, <2>2, <2>5, <3>1 DEF ReadOf
    <3> QED
      BY <2>1, <2>5, <3>1 DEF ReadOf
  <2>10. \A q \in AllRanks, i \in Index : Yielded(q, i)' <=> Yielded(q, i)
    BY <2>1 DEF Yielded
  <2> QED
    BY <2>1, <2>4, <2>7, <2>8, <2>9, <2>10
<1> QED
  BY <1>1, <1>2

\* The iterator: a line it reads is of an exchange beyond those it has read.
LEMMA ReadLineKeepsRecords ==
    ASSUME RecordsInv, ReadLine, NEW r, r = opened PROVE RecordsInv'
<1> USE DEF RecordsInv, RecordTypeOK
<1> DEFINE n == offset[r] + 1
           i == lines[r][n]
           group == pending[i] \cup {r}
<1>0. /\ r \in AllRanks /\ r \in Ranks /\ sources \in Nat
      /\ lines[r] \in Seq(Index) /\ Len(lines[r]) \in Nat /\ offset[r] \in Nat /\ offset[r] < Len(lines[r])
  <2>1. sources \in Nat /\ sources <= MaxSources /\ r \in Ranks /\ offset[r] < Len(lines[r])
    BY ReaderAssumption DEF ReadLine, AllRanks
  <2>2. r \in AllRanks
    BY <2>1, ReaderAssumption DEF Ranks, AllRanks
  <2> QED
    BY <2>1, <2>2
<1>1. n \in 1..Len(lines[r]) /\ i \in Index
  BY <1>0
<1>2. /\ offset' = [offset EXCEPT ![r] = n]
      /\ UNCHANGED <<sources, lines, torn, unread, opened, terminalSeen>>
  BY DEF ReadLine, fileVars
<1>3. ~ReadOf(r, i)
  <2> SUFFICES ASSUME NEW k \in 1..Len(lines[r]), k <= offset[r], lines[r][k] = i PROVE FALSE
    BY DEF ReadOf
  <2>1. k < n
    BY <1>0
  <2>2. lines[r][k] < lines[r][n]
    BY <1>0, <1>1, <2>1 DEF LinesGrow
  <2>3. lines[r][k] \in Nat
    BY <1>1, ReaderAssumption DEF Index
  <2> QED
    BY <2>2, <2>3
<1>4. \/ /\ delivered' = delivered \cup {<<i, group>>} /\ pending' = [pending EXCEPT ![i] = {}]
         /\ twice' = (twice \/ \E d \in delivered : d[1] = i /\ d[2] \cap group # {})
         /\ emitted' = TRUE
      \/ pending' = [pending EXCEPT ![i] = group] /\ UNCHANGED <<delivered, twice, emitted>>
  BY DEF ReadLine, Deliver
<1>5. group \in SUBSET AllRanks
  BY <1>0, <1>1
<1>6. ~twice'
  <2>1. \A d \in delivered : d[1] = i => d[2] \cap group = {}
    <3> SUFFICES ASSUME NEW d \in delivered, d[1] = i, NEW q \in d[2] \cap group PROVE FALSE
      OBVIOUS
    <3>1. q \in AllRanks
      BY <1>5
    <3>2. Yielded(q, i)
      BY DEF Yielded
    <3> QED
      BY <1>0, <1>1, <1>3, <3>1, <3>2
  <2> QED
    BY <1>4, <2>1
<1> HIDE DEF n, i, group
<1>7. RecordTypeOK'
  <2>1. offset' \in [AllRanks -> Nat]
    BY <1>0, <1>1, <1>2
  <2>2. pending' \in [Index -> SUBSET AllRanks]
    BY <1>1, <1>4, <1>5
  <2>3. delivered' \subseteq Index \X SUBSET AllRanks
    BY <1>1, <1>4, <1>5
  <2>4. twice' \in BOOLEAN /\ emitted' \in BOOLEAN
    BY <1>4, <1>6
  <2> QED
    BY <1>2, <2>1, <2>2, <2>3, <2>4 DEF Ranks
<1>8. LinesGrow'
  BY <1>2 DEF LinesGrow
<1>9. \A q \in AllRanks : offset'[q] <= Len(lines'[q])
  BY <1>0, <1>1, <1>2
<1>10. \A q \in AllRanks, j \in Index : ReadOf(q, j)' <=> ReadOf(q, j) \/ (q = r /\ j = i)
  <2>1. ASSUME NEW q \in AllRanks \ {r}, NEW j \in Index PROVE ReadOf(q, j)' <=> ReadOf(q, j)
    BY <1>2, <2>1 DEF ReadOf
  <2>2. ASSUME NEW j \in Index PROVE ReadOf(r, j)' <=> ReadOf(r, j) \/ j = i
    <3>1. offset'[r] = offset[r] + 1 /\ lines' = lines
      BY <1>0, <1>2 DEF n
    <3>2. \A k \in 1..Len(lines[r]) : k <= offset[r] + 1 <=> k <= offset[r] \/ k = n
      BY <1>0 DEF n
    <3> QED
      BY <1>1, <1>2, <3>1, <3>2 DEF ReadOf, i
  <2> QED
    BY <2>1, <2>2
<1>11. CASE pending' = [pending EXCEPT ![i] = group] /\ UNCHANGED <<delivered, twice, emitted>>
  <2>1. \A q \in AllRanks, j \in Index : Yielded(q, j)' <=> Yielded(q, j)
    BY <1>11 DEF Yielded
  <2>2. \A q \in AllRanks, j \in Index : q \in pending'[j] <=> q \in pending[j] \/ (q = r /\ j = i)
    BY <1>11 DEF group
  <2>3. \A q \in AllRanks, j \in Index : ReadOf(q, j)' <=> q \in pending'[j] \/ Yielded(q, j)'
    BY <1>10, <2>1, <2>2
  <2>4. ~Yielded(r, i)
    BY <1>0, <1>1, <1>3
  <2>5. \A q \in AllRanks, j \in Index : ~(q \in pending'[j] /\ Yielded(q, j)')
    BY <2>1, <2>2, <2>4
  <2> HIDE DEF RecordTypeOK
  <2> QED
    BY <1>6, <1>7, <1>8, <1>9, <2>3, <2>5
<1>12. CASE delivered' = delivered \cup {<<i, group>>} /\ pending' = [pending EXCEPT ![i] = {}]
  <2>1. \A q \in AllRanks, j \in Index : Yielded(q, j)' <=> Yielded(q, j) \/ (j = i /\ q \in group)
    <3>1. <<i, group>>[1] = i /\ <<i, group>>[2] = group
      OBVIOUS
    <3>2. ASSUME NEW q \in AllRanks, NEW j \in Index, Yielded(q, j)'
          PROVE  Yielded(q, j) \/ (j = i /\ q \in group)
      BY <1>12, <3>1, <3>2 DEF Yielded
    <3>3. ASSUME NEW q \in AllRanks, NEW j \in Index, Yielded(q, j) \/ (j = i /\ q \in group)
          PROVE  Yielded(q, j)'
      BY <1>12, <3>1, <3>3 DEF Yielded
    <3> QED
      BY <3>2, <3>3
  <2>2. \A q \in AllRanks, j \in Index : q \in pending'[j] <=> q \in pending[j] /\ j # i
    BY <1>12
  <2>3. \A q \in AllRanks : q \in group <=> q \in pending[i] \/ q = r
    BY DEF group
  <2> QED
    BY <1>0, <1>1, <1>3, <1>6, <1>7, <1>8, <1>9, <1>10, <2>1, <2>2, <2>3
<1> QED
  BY <1>4, <1>11, <1>12

\* The last groups are yielded as they are: nothing of them was yielded before.
LEMMA LastPassKeepsRecords ==
    ASSUME RecordsInv, LastPass, UNCHANGED <<sources, lines, torn, unread, opened, emitted, offset>>
    PROVE  RecordsInv'
<1> USE DEF RecordsInv, RecordTypeOK
<1> DEFINE last == {<<i, pending[i]>> : i \in {j \in Index : pending[j] # {}}}
<1>1. /\ delivered' = delivered \cup last
      /\ twice' = (twice \/ \E d \in delivered : d[2] \cap pending[d[1]] # {})
      /\ pending' = [i \in Index |-> {}] /\ UNCHANGED terminalSeen
  BY DEF LastPass
<1>2. \A d \in delivered : d[2] \cap pending[d[1]] = {}
  <2> SUFFICES ASSUME NEW d \in delivered, NEW q \in d[2] \cap pending[d[1]] PROVE FALSE
    OBVIOUS
  <2>1. d[1] \in Index /\ d[2] \in SUBSET AllRanks
    OBVIOUS
  <2>2. Yielded(q, d[1]) /\ q \in AllRanks
    BY <2>1 DEF Yielded
  <2> QED
    BY <2>1, <2>2
<1>3. ~twice'
  BY <1>1, <1>2
<1>4. last \subseteq Index \X SUBSET AllRanks
  OBVIOUS
<1>5. RecordTypeOK'
  <2>1. pending' \in [Index -> SUBSET AllRanks]
    BY <1>1
  <2>2. delivered' \subseteq Index \X SUBSET AllRanks
    BY <1>1, <1>4
  <2> HIDE DEF last
  <2> QED
    BY <1>1, <1>3, <2>1, <2>2 DEF Ranks
<1>6. ASSUME NEW q \in AllRanks, NEW i \in Index
      PROVE  Yielded(q, i)' <=> Yielded(q, i) \/ q \in pending[i]
  <2>1. (\E d \in last : d[1] = i /\ q \in d[2]) <=> q \in pending[i]
    <3>1. ASSUME NEW d \in last, d[1] = i, q \in d[2] PROVE q \in pending[i]
      BY <3>1
    <3>2. ASSUME q \in pending[i] PROVE \E d \in last : d[1] = i /\ q \in d[2]
      <4>1. <<i, pending[i]>> \in last
        BY <3>2
      <4>2. <<i, pending[i]>>[1] = i /\ <<i, pending[i]>>[2] = pending[i]
        OBVIOUS
      <4> HIDE DEF last
      <4> QED
        BY <3>2, <4>1, <4>2
    <3> QED
      BY <3>1, <3>2
  <2> HIDE DEF last
  <2>2. Yielded(q, i)' <=> \E d \in delivered \cup last : d[1] = i /\ q \in d[2]
    BY <1>1 DEF Yielded
  <2> QED
    BY <2>1, <2>2 DEF Yielded
<1>7. \A q \in AllRanks, i \in Index : q \notin pending'[i]
  BY <1>1
<1>8. \A q \in AllRanks, i \in Index : ReadOf(q, i)' <=> ReadOf(q, i)
  BY DEF ReadOf
<1> QED
  BY <1>3, <1>5, <1>6, <1>7, <1>8 DEF LinesGrow

LEMMA GoneKeepsRecords ==
    ASSUME RecordsInv, ReaderGone PROVE RecordsInv'
<1> USE DEF RecordsInv, RecordTypeOK
<1>1. /\ offset' = [r \in AllRanks |-> 0] /\ pending' = [i \in Index |-> {}] /\ delivered' = {} /\ ~twice'
      /\ unread' = {} /\ opened' = 0 /\ ~emitted' /\ ~terminalSeen'
      /\ UNCHANGED <<sources, lines, torn>>
  BY DEF ReaderGone, fileVars
<1>2. \A r \in AllRanks : Len(lines[r]) \in Nat
  OBVIOUS
<1>3. RecordTypeOK'
  <2>1. offset' \in [AllRanks -> Nat] /\ pending' \in [Index -> SUBSET AllRanks]
    BY <1>1
  <2>2. delivered' \subseteq Index \X SUBSET AllRanks /\ twice' \in BOOLEAN
    BY <1>1 DEF ReaderGone
  <2>3. emitted' \in BOOLEAN /\ terminalSeen' \in BOOLEAN
    BY DEF ReaderGone
  <2> QED
    BY <1>1, <2>1, <2>2, <2>3
<1>4. \A q \in AllRanks, i \in Index : ~ReadOf(q, i)' /\ ~Yielded(q, i)' /\ q \notin pending'[i]
  BY <1>1 DEF ReadOf, Yielded
<1>5. LinesGrow' /\ \A q \in AllRanks : offset'[q] <= Len(lines'[q])
  BY <1>1, <1>2 DEF LinesGrow
<1> HIDE DEF RecordTypeOK
<1> QED
  BY <1>1, <1>3, <1>4, <1>5

LEMMA RecordsKept ==
    ASSUME RecordsInv, [Next]_vars PROVE RecordsInv'
<1>1. ASSUME UNCHANGED <<sources, lines, torn, offset, pending, delivered, twice>>, unread' \subseteq Ranks,
             opened' \in Ranks \cup {0}, terminalSeen' \in BOOLEAN, emitted' \in BOOLEAN
      PROVE  RecordsInv'
  <2>1. RecordTypeOK'
    BY <1>1 DEF RecordsInv, RecordTypeOK, Ranks
  <2>2. LinesGrow' /\ \A r \in AllRanks : offset'[r] <= Len(lines'[r])
    BY <1>1 DEF RecordsInv, LinesGrow
  <2>3. \A r \in AllRanks, i \in Index : (ReadOf(r, i)' <=> ReadOf(r, i)) /\ (Yielded(r, i)' <=> Yielded(r, i))
    BY <1>1 DEF ReadOf, Yielded
  <2> QED
    BY <1>1, <2>1, <2>2, <2>3 DEF RecordsInv
<1>t. RecordTypeOK
  BY DEF RecordsInv
<1>2. CASE UNCHANGED readerVars
  BY <1>1, <1>2, <1>t DEF readerVars, fileVars, passVars, recordVars, RecordTypeOK
<1>3. ASSUME NEW r \in Ranks, EndLine(r) \/ \E i \in Index : BeginLine(r, i) PROVE RecordsInv'
  BY <1>3, WriterKeepsRecords
<1>4. CASE ReaderGone
  BY <1>4, GoneKeepsRecords
<1>5. CASE Follow
  <2>1. unread' \subseteq Ranks /\ emitted' \in BOOLEAN
    BY <1>5 DEF Follow
  <2> QED
    BY <1>1, <1>5, <1>t, <2>1 DEF Follow, fileVars, recordVars, RecordTypeOK
<1>6. CASE OpenFile
  <2>0. unread \in SUBSET Nat /\ unread # {}
    BY <1>6, <1>t, ReaderAssumption DEF OpenFile, RecordTypeOK, Ranks
  <2>1. Min(unread) \in unread
    BY <2>0, MinIsElement
  <2>2. unread' \subseteq Ranks /\ opened' \in Ranks \cup {0}
    BY <1>6, <1>t, <2>1 DEF OpenFile, RecordTypeOK
  <2> QED
    BY <1>1, <1>6, <1>t, <2>2 DEF OpenFile, fileVars, recordVars, RecordTypeOK
<1>7. CASE ReadLine
  BY <1>7, ReadLineKeepsRecords
<1>8. CASE LeaveFile
  BY <1>1, <1>8, <1>t DEF LeaveFile, fileVars, recordVars, RecordTypeOK
<1>9. ASSUME AnotherPass(TRUE) \/ AnotherPass(Finished),
             UNCHANGED <<sources, fileVars, path, unread, opened, emitted, offset>>
      PROVE  RecordsInv'
  <2>1. terminalSeen' \in BOOLEAN
    BY <1>9, <1>t DEF AnotherPass, RecordTypeOK
  <2> QED
    BY <1>1, <1>9, <1>t, <2>1 DEF AnotherPass, fileVars, RecordTypeOK
<1>10. CASE Answered
  BY <1>1, <1>9, <1>10, <1>t DEF Answered, fileVars, RecordTypeOK
<1>11. CASE Ask
  BY <1>1, <1>9, <1>11, <1>t, LastPassKeepsRecords DEF Ask, Judge, fileVars, RecordTypeOK
<1>12. CASE Closed
  BY <1>1, <1>12, <1>t DEF Closed, fileVars, passVars, recordVars, RecordTypeOK
<1> QED
  BY <1>2, <1>3, <1>4, <1>5, <1>6, <1>7, <1>8, <1>10, <1>11, <1>12, ReaderAlone DEF ReaderSteps

\* Only the death and the end of the kernel change it, and they take the reader with
\* them; while it lives a result stays the result.
LEMMA KernelStays ==
    ASSUME RunTypeOK, [Next]_vars PROVE Leave \/ UNCHANGED <<kernel, callers, scheduled, touched>> \/ (UNCHANGED runVars /\ Shell)
<1> USE DEF processVars, jobVars, signalVars, diskVars, handleVars, callVars, runHistory
<1>1. CASE UNCHANGED vars
  BY <1>1 DEF vars, runVars
<1>2. CASE BuildRuns \/ Locate \/ PreparesCase \/ Reads \/ ConsumerCloses \/ Shell
  BY <1>2 DEF BuildRuns, Locate, unprepared, PreparesCase, Reads, ConsumerCloses, Shell, runVars, unhandled
<1>3. CASE SolverWrites \/ Evaluates \/ HostsStart \/ SolverStarts \/ HostsStop \/ SolverEnds \/ SolverBreaks \/ HostsRun
  BY <1>3
  DEF SolverWrites, Evaluates, HostsStart, SolverStarts, HostsStop, SolverEnds, SolverBreaks, HostsRun, unrun, runVars
<1>4. CASE Launched
  BY <1>4 DEF Launched, Start
<1>5. CASE JobKilled \/ JobEnds
  BY <1>5 DEF JobKilled, JobEnds, JobTo
<1>6. CASE \E code \in {0, 1, 130} : ProcessEnds(code)
  BY <1>6 DEF ProcessEnds, ProcessExits
<1>7. ASSUME NEW t \in Threads, HandleStep(t) PROVE UNCHANGED <<kernel, callers, scheduled>>
  <2>1. CASE Call(t) \/ Detach(t) \/ WaitTimesOut(t)
    BY <2>1 DEF Call, Status, Wait, Stop, Detach, WaitTimesOut
  <2>2. CASE Signal(t) \/ StartTimesOut(t) \/ LaunchInterrupted(t) \/ CleanedUp(t)
    BY <2>2 DEF Signal, StartTimesOut, LaunchInterrupted, CleanedUp
  <2>3. CASE Waits(t)
    BY <2>3 DEF Waits, WaitEnds, WaitForStart, WaitForStartFinishes
  <2>4. CASE Finish(t)
    BY <2>4 DEF Finish, AppendCompletion, RenameLogs, MoveDirectory, RelocateMarker
  <2> QED
    BY <1>7, <2>1, <2>2, <2>3, <2>4 DEF HandleStep
<1>8. CASE Calls
  <2>1. CASE JobSubmitted \/ JobPublished \/ JobLeavesQueue \/ DiskFills
    BY <1>8, <2>1 DEF Calls, JobSubmitted, JobPublished, JobLeavesQueue, DiskFills, JobTo, unhandled
  <2>2. CASE \E t \in Threads : HandleStep(t)
    BY <1>7, <1>8, <2>2 DEF Calls, unhandled
  <2> QED
    BY <1>8, <2>1, <2>2 DEF Calls, HandleStep, RunTypeOK
<1>9. ASSUME NEW t \in Threads, Finishes(t) \/ Cleans(t) PROVE UNCHANGED <<kernel, callers, scheduled, touched>>
  BY <1>7, <1>9 DEF Finishes, Cleans, HandleStep, unhandled
<1>10. CASE Asks
  BY <1>7, <1>10, ReaderAssumption DEF Asks, Ask, HandleStep, Call, unhandled
<1> QED
  BY <1>1, <1>2, <1>3, <1>4, <1>5, <1>6, <1>8, <1>9, <1>10 DEF Next

LEMMA LeaveTakesReader ==
    ASSUME HandleInv, Leave
    PROVE  /\ kernel' = "gone" => ReaderGone
           /\ kernel' # "gone" => UNCHANGED readerVars /\ ~Finished
           /\ UNCHANGED <<process, job, jobId, starter, callers, scheduled, solver, touched>>
           /\ pc' = [t \in Threads |-> "gone"] /\ (forced' = {} \/ forced' = forced)
BY DEF Leave, KernelDies, Shutdown, ShutdownSignals, HandleGone, HandleInv, RunTypeOK, processVars, unhandled

LEMMA FinishedStays ==
    ASSUME HandleInv, [Next]_vars, Finished PROVE ReaderGone \/ UNCHANGED <<result, workDir>>
<1>t. RunTypeOK /\ kernel = "alive" /\ process = "exited"
  BY DEF HandleInv
<1>1. CASE Leave
  BY <1>1, LeaveTakesReader
<1>2. CASE BuildRuns \/ PreparesCase \/ Shell
  BY <1>2 DEF BuildRuns, PreparesCase, Shell, runVars, handleVars
<1>3. CASE Launched
  BY <1>t, <1>3 DEF Launched, Start
<1>4. ASSUME NEW t \in Threads, Finish(t) PROVE FALSE
  BY <1>4 DEF HandleInv, Finish, AppendCompletion, RenameLogs, MoveDirectory, RelocateMarker, At, FinishSteps
<1>5. CASE ~Leave /\ [QuietNext]_runVars
  <2>1. kernel' = "alive"
    BY <1>t, <1>5, KernelStays DEF runVars
  <2> QED
    BY <1>5, <2>1, QuietKeeps
<1> QED
  BY <1>t, <1>1, <1>2, <1>3, <1>4, <1>5, NextSplit


\* A file only grows, and what it held when the process exited is noted once.
LEMMA FilesGrow ==
    ASSUME RecordsInv, [Next]_vars, NEW r \in AllRanks
    PROVE  Len(lines[r]) \in Nat /\ Len(lines'[r]) \in Nat /\ Len(lines[r]) <= Len(lines'[r])
<1>1. lines \in [AllRanks -> Seq(Index)] /\ lines' \in [AllRanks -> Seq(Index)]
  BY RecordsKept DEF RecordsInv, RecordTypeOK
<1>2. Len(lines[r]) \in Nat /\ Len(lines'[r]) \in Nat
  BY <1>1
<1>3. ASSUME NEW q \in Ranks, EndLine(q) PROVE Len(lines[r]) <= Len(lines'[r])
  <2>1. lines' = [lines EXCEPT ![q] = Append(lines[q], torn[q])]
    BY <1>3 DEF EndLine
  <2>2. lines'[r] = lines[r] \/ lines'[r] = Append(lines[r], torn[r])
    BY <1>1, <2>1
  <2>3. Len(Append(lines[r], torn[r])) = Len(lines[r]) + 1
    BY <1>1
  <2> QED
    BY <1>2, <2>2, <2>3
<1>4. (\E q \in Ranks : EndLine(q)) \/ lines' = lines
  BY ReaderAlone
  DEF readerVars, fileVars, BeginLine, ReaderGone, ReaderSteps, Follow, OpenFile, ReadLine, LeaveFile, Answered, Ask,
      Closed
<1> QED
  BY <1>2, <1>3, <1>4

LEMMA RecordedKept ==
    ASSUME RunTypeOK, RecordsInv, RecordedInv, [Next]_vars
    PROVE  RecordedInv' /\ (process = "exited" => process' = "exited" /\ recorded' = recorded)
<1>0. UNCHANGED <<process, recorded>> => RecordedInv' /\ (process = "exited" => process' = "exited" /\ recorded' = recorded)
  <2> SUFFICES ASSUME UNCHANGED <<process, recorded>> PROVE RecordedInv'
    OBVIOUS
  <2>1. \A r \in AllRanks : recorded[r] \in Nat /\ recorded[r] <= Len(lines[r])
    BY DEF RecordedInv
  <2>2. \A r \in AllRanks : recorded[r] <= Len(lines'[r])
    BY <2>1, FilesGrow
  <2> QED
    BY <2>2 DEF RecordedInv
<1>r. UNCHANGED runVars => UNCHANGED process
  BY DEF runVars, processVars
<1> USE DEF steady
<1>1. CASE UNCHANGED vars
  BY <1>0, <1>1, <1>r DEF vars
<1>2. CASE BuildRuns \/ Locate \/ PreparesCase \/ Reads \/ ConsumerCloses \/ Shell
  BY <1>0, <1>2, <1>r DEF BuildRuns, Locate, unprepared, PreparesCase, Reads, ConsumerCloses, Shell, unhandled, unbuilt
<1>3. CASE SolverWrites \/ Evaluates \/ HostsStart \/ HostsStop \/ HostsRun
  BY <1>0, <1>3, <1>r DEF SolverWrites, Evaluates, HostsStart, HostsStop, HostsRun, unrun, unbuilt
<1>4. CASE SolverStarts \/ SolverEnds \/ SolverBreaks
  BY <1>0, <1>4, <1>r DEF SolverStarts, SolverEnds, SolverBreaks, unrun, unbuilt
<1>5. CASE Launched
  <2>1. UNCHANGED <<lines, recorded>> /\ process = "absent"
    BY <1>5 DEF Launched, Start, readerVars, fileVars
  <2> QED
    BY <2>1 DEF RecordedInv
<1>6. CASE JobKilled \/ JobEnds
  BY <1>0, <1>6 DEF JobKilled, JobEnds, JobTo, unbuilt
<1>7. ASSUME NEW code \in {0, 1, 130}, ProcessEnds(code) PROVE RecordedInv' /\ process # "exited"
  <2>1. process = "running" /\ UNCHANGED lines /\ recorded' = [r \in AllRanks |-> Len(lines[r])]
    BY <1>7 DEF ProcessEnds, ProcessExits, readerVars, fileVars, AllRanks
  <2>2. \A r \in AllRanks : Len(lines[r]) \in Nat
    BY FilesGrow
  <2> QED
    BY <2>1, <2>2 DEF RecordedInv
<1>8. CASE Leave
  BY <1>0, <1>8 DEF Leave, KernelDies, Shutdown, ShutdownSignals, processVars, unhandled, unbuilt
<1>9. CASE Calls
  <2>1. UNCHANGED recorded
    BY <1>9 DEF Calls, unhandled, unbuilt
  <2>2. CASE JobSubmitted \/ JobPublished \/ JobLeavesQueue \/ DiskFills
    BY <1>0, <2>1, <2>2 DEF JobSubmitted, JobPublished, JobLeavesQueue, JobTo, DiskFills, processVars
  <2>3. CASE \E t \in Threads : HandleStep(t)
    BY <1>0, <2>1, <2>3, HandleLeavesProcess
  <2> QED
    BY <1>9, <2>2, <2>3 DEF Calls, HandleStep, RunTypeOK
<1>10. CASE Asks \/ \E t \in Threads : Finishes(t) \/ Cleans(t)
  <2>1. UNCHANGED recorded /\ \E t \in Threads : HandleStep(t)
    BY <1>10, ReaderAssumption DEF Finishes, Cleans, Asks, Ask, HandleStep, Call, unhandled, unbuilt
  <2> QED
    BY <1>0, <2>1, HandleLeavesProcess
<1> QED
  BY <1>1, <1>2, <1>3, <1>4, <1>5, <1>6, <1>7, <1>8, <1>9, <1>10 DEF Next

\* What another thread does leaves the reader where it is.
LEMMA OthersLeaveReader ==
    ASSUME HandleInv, NEW t \in Threads \ {Reader}, HandleStep(t)
    PROVE  /\ pc'[Reader] = pc[Reader]
           /\ Reader \notin forced => Reader \notin forced'
           /\ starter # Reader => starter' # Reader
<1> USE ReaderAssumption, RunAssumption DEF HandleInv, RunTypeOK, To, Return, Except, BeginFinish, Publish, Raise,
        processVars, jobVars, callVars
<1>1. CASE Status(t) \/ Wait(t) \/ Detach(t)
  BY <1>1 DEF Status, Wait, Detach
<1>2. CASE Stop(t)
  BY <1>2 DEF Stop
<1>3. CASE WaitTimesOut(t) \/ StartTimesOut(t) \/ LaunchInterrupted(t) \/ CleanedUp(t)
  BY <1>3 DEF WaitTimesOut, StartTimesOut, LaunchInterrupted, CleanedUp
<1>4. CASE Signal(t)
  BY <1>4 DEF Signal
<1>5. CASE Waits(t)
  BY <1>5 DEF Waits, WaitEnds, WaitForStart, WaitForStartFinishes
<1>6. CASE AppendCompletion(t) \/ MoveDirectory(t)
  BY <1>6 DEF AppendCompletion, MoveDirectory
<1>7. CASE RenameLogs(t) \/ RelocateMarker(t)
  BY <1>7 DEF RenameLogs, RelocateMarker
<1> QED
  BY <1>1, <1>2, <1>3, <1>4, <1>5, <1>6, <1>7 DEF HandleStep, Call, Finish

\* The reader itself finishes a run, or does nothing but ask.
LEMMA ReaderFinishes ==
    ASSUME HandleInv, ReaderInv, Observed, Finish(Reader)
    PROVE  /\ at = "answer" /\ starter' = starter /\ (forced' = forced \/ forced' = forced \ {Reader})
           /\ \/ pc'[Reader] \in FinishSteps \cup {"raised"}
              \/ pc'[Reader] = "returned" /\ Finished'
<1> USE ReaderAssumption DEF HandleInv, RunTypeOK, To, Return, Except, Publish, Raise, processVars, callVars, At,
        FinishSteps, ReaderInv
<1>1. CASE AppendCompletion(Reader) \/ MoveDirectory(Reader)
  BY <1>1 DEF AppendCompletion, MoveDirectory
<1>2. CASE RenameLogs(Reader)
  BY <1>2 DEF RenameLogs, Finished, Outcome, NoResult
<1>3. CASE RelocateMarker(Reader)
  BY <1>3 DEF RelocateMarker, Finished, Outcome, NoResult
<1> QED
  BY <1>1, <1>2, <1>3 DEF Finish

LEMMA ReaderKept ==
    ASSUME HandleInv, ReaderInv, [Next]_vars PROVE ReaderInv'
<1>t. RunTypeOK /\ pc \in [Threads -> Labels] /\ Reader \in Threads /\ Nobody # Reader
      /\ process \in {"absent", "running", "exited"}
  BY ReaderAssumption, RunAssumption DEF HandleInv, RunTypeOK
<1>s. sources' = sources
  BY ReaderAlone
  DEF readerVars, EndLine, BeginLine, ReaderGone, ReaderSteps, Follow, OpenFile, ReadLine, LeaveFile, Answered, Ask, Closed
<1>c. callers' = callers
  BY <1>t, KernelStays, LeaveTakesReader DEF runVars, processVars
<1> SUFFICES ASSUME Observed PROVE ReaderInv'
  BY <1>s DEF ReaderInv, Observed
<1>i. /\ Reader \notin callers /\ Reader \notin forced /\ starter # Reader
      /\ pc[Reader] \in {"returned", "raised", "gone"} \cup FinishSteps
      /\ at # "answer" => pc[Reader] \notin FinishSteps
      /\ at = "answer" /\ pc[Reader] = "returned" => Finished
  BY DEF ReaderInv
<1>1. CASE Leave
  <2>1. pc'[Reader] = "gone" /\ Reader \notin forced' /\ starter' = starter
    BY <1>1, <1>t, <1>i, LeaveTakesReader
  <2> QED
    BY <1>c, <1>i, <2>1 DEF ReaderInv, FinishSteps
\* Steps that leave the reader's thread alone, and the reader where it waits.
<1>2. ASSUME pc'[Reader] = pc[Reader], Reader \notin forced', starter' # Reader,
             at' = at \/ (at' # "answer" /\ pc[Reader] \notin FinishSteps), ~Leave
      PROVE ReaderInv'
  <2>1. CASE at' = "answer"
    <3>1. at = "answer" /\ ~ReaderGone
      BY <1>2, <2>1 DEF ReaderGone
    <3>2. Finished => Finished'
      BY <3>1, FinishedStays DEF Finished
    <3> QED
      BY <1>2, <1>c, <1>i, <2>1, <3>1, <3>2 DEF ReaderInv
  <2> QED
    BY <1>2, <1>c, <1>i, <2>1 DEF ReaderInv
<1>r. UNCHANGED runVars => pc' = pc /\ forced' = forced /\ starter' = starter
  BY DEF runVars, callVars, processVars
<1>a. UNCHANGED readerVars => at' = at
  BY DEF readerVars
<1>3. CASE UNCHANGED vars
  BY <1>1, <1>2, <1>3, <1>i, <1>r, <1>a DEF vars
<1>4. CASE BuildRuns \/ Locate \/ PreparesCase \/ Shell
  BY <1>1, <1>2, <1>4, <1>i, <1>r, <1>a DEF BuildRuns, Locate, unprepared, PreparesCase, Shell
<1>5. CASE SolverStarts \/ SolverWrites \/ Evaluates \/ HostsStart \/ HostsStop \/ HostsRun \/ SolverEnds \/ SolverBreaks
  <2>1. UNCHANGED runVars /\ at' = at
    BY <1>5, <1>a DEF SolverStarts, SolverWrites, BeginLine, EndLine, Evaluates, HostsStart, HostsStop, HostsRun,
       SolverEnds, SolverBreaks, unrun
  <2> QED
    BY <1>1, <1>2, <1>i, <1>r, <2>1
<1>6. CASE Launched
  <2>1. starter' = Nobody \/ starter' \in callers
    BY <1>6 DEF Launched, Start, Starter
  <2>2. pc'[Reader] = pc[Reader]
    BY <1>6, <1>i, <1>t, <2>1 DEF Launched, Start
  <2>3. forced' = forced /\ at' = at
    BY <1>6, <1>a DEF Launched, Start
  <2> QED
    BY <1>1, <1>2, <1>i, <1>t, <2>1, <2>2, <2>3
<1>7. CASE JobKilled \/ JobEnds \/ \E code \in {0, 1, 130} : ProcessEnds(code)
  <2>1. pc' = pc /\ forced' = forced /\ starter' = starter
    BY <1>7 DEF JobKilled, JobEnds, JobTo, ProcessEnds, ProcessExits, callVars, jobVars
  <2>2. at' = at
    BY <1>7, <1>a DEF JobKilled, JobEnds, ProcessEnds
  <2> QED
    BY <1>1, <1>2, <1>i, <2>1, <2>2
<1>8. CASE Calls
  <2>1. at' = at
    BY <1>8, <1>a DEF Calls
  <2>2. CASE JobSubmitted \/ JobPublished \/ JobLeavesQueue \/ DiskFills
    <3>1. pc' = pc /\ forced' = forced /\ starter' = starter
      BY <2>2 DEF JobSubmitted, JobPublished, JobLeavesQueue, DiskFills, JobTo, callVars, jobVars, processVars
    <3> QED
      BY <1>1, <1>2, <1>i, <2>1, <3>1
  <2>3. ASSUME NEW t \in Threads, HandleStep(t), t # Reader PROVE ReaderInv'
    BY <1>1, <1>2, <1>i, <2>1, <2>3, OthersLeaveReader
  <2>4. ~(WaitTimesOut(Reader) \/ Signal(Reader) \/ StartTimesOut(Reader) \/ LaunchInterrupted(Reader))
    BY <1>i, <1>t DEF WaitTimesOut, Signal, StartTimesOut, LaunchInterrupted, FinishSteps
  <2> QED
    BY <1>8, <1>i, <1>t, <2>2, <2>3, <2>4 DEF Calls, HandleStep, RunTypeOK
<1>9. ASSUME NEW t \in Threads, Finishes(t) \/ Cleans(t) PROVE ReaderInv'
  <2>1. at' = at
    BY <1>9, <1>a DEF Finishes, Cleans
  <2>2. HandleStep(t)
    BY <1>9 DEF Finishes, Cleans, HandleStep
  <2>3. CASE t # Reader
    BY <1>1, <1>2, <1>i, <2>1, <2>2, <2>3, OthersLeaveReader
  <2>4. CASE t = Reader
    <3>1. ~Waits(Reader) /\ ~CleanedUp(Reader)
      BY <1>i, <1>t DEF Waits, WaitEnds, WaitForStart, WaitForStartFinishes, CleanedUp, FinishSteps
    <3>2. Finish(Reader)
      BY <1>9, <2>4, <3>1 DEF Finishes, Cleans
    <3> QED
      BY <1>c, <1>i, <2>1, <3>2, ReaderFinishes DEF ReaderInv, FinishSteps
  <2> QED
    BY <2>3, <2>4
<1>10. CASE Reads
  <2>1. at' = at \/ (at' # "answer" /\ pc[Reader] \notin FinishSteps)
    <3>1. CASE Follow \/ OpenFile \/ ReadLine \/ LeaveFile
      BY <1>i, <3>1 DEF Follow, OpenFile, ReadLine, LeaveFile, ReaderAt
    <3>2. CASE Answered
      BY <3>2 DEF Answered, AnotherPass, Ended, FinishSteps
    <3> QED
      BY <1>10, <3>1, <3>2 DEF Reads, ReaderSteps
  <2> QED
    BY <1>1, <1>2, <1>10, <1>i, <1>r, <2>1 DEF Reads
<1>11. CASE ConsumerCloses
  BY <1>1, <1>2, <1>11, <1>i, <1>r DEF ConsumerCloses, Closed, ReaderAt
<1>12. CASE Asks
  <2>1. Ask /\ Status(Reader) /\ process # "absent"
    BY <1>12 DEF Asks, Ask, ReaderAt, Iterating
  <2>2. CASE process = "exited" /\ ~Finished
    <3>1. at' = "answer" /\ pc'[Reader] = "append" /\ forced' = forced /\ starter' = starter
      BY <1>t, <2>1, <2>2 DEF Ask, Status, BeginFinish, To, processVars
    <3> QED
      BY <1>c, <1>i, <3>1 DEF ReaderInv, FinishSteps
  <2>3. CASE ~(process = "exited" /\ ~Finished)
    <3>1. at' # "answer"
      BY <2>1, <2>3 DEF Ask, Judge, LastPass, AnotherPass
    <3>2. pc'[Reader] = "returned" /\ forced' = forced \ {Reader} /\ starter' = starter
      BY <1>i, <1>t, <2>1, <2>3 DEF Status, Return, To, processVars
    <3> QED
      BY <1>c, <1>i, <3>1, <3>2 DEF ReaderInv, FinishSteps
  <2> QED
    BY <2>2, <2>3
<1> QED
  BY <1>1, <1>3, <1>4, <1>5, <1>6, <1>7, <1>8, <1>9, <1>10, <1>11, <1>12 DEF Next

\* Once the run is known to be finished and nobody took its directory away, it is where
\* the handle says.
LEMMA DirectoryStays ==
    ASSUME HandleInv, DiskInv, PassInv, Finished, ~touched PROVE Exists(workDir)
<1>1. workDir = Final /\ root[Final] = Final /\ Final # Absent
  BY PathsDiffer DEF PassInv, DiskInv, Paths
<1> QED
  BY <1>1 DEF Exists

LEMMA ResultNamesDirectory ==
    ASSUME HandleInv, PassInv, [Next]_vars PROVE (Finished => workDir = result.dir)'
<1> SUFFICES ASSUME Finished' PROVE workDir' = result'.dir
  OBVIOUS
<1>t. RunTypeOK
  BY DEF HandleInv
<1>1. CASE UNCHANGED <<result, workDir>>
  BY <1>1 DEF PassInv, Finished
<1>2. CASE BuildRuns \/ PreparesCase \/ Shell
  BY <1>1, <1>2 DEF BuildRuns, PreparesCase, Shell, runVars, handleVars
<1>3. CASE Launched
  BY <1>1, <1>3 DEF Launched, Start, handleVars
<1>4. ASSUME NEW t \in Threads, Finish(t) PROVE workDir' = result'.dir
  <2>1. CASE AppendCompletion(t) \/ MoveDirectory(t)
    BY <1>1, <2>1 DEF AppendCompletion, MoveDirectory
  <2>2. CASE RenameLogs(t)
    BY <1>1, <2>2 DEF RenameLogs, Publish
  <2>3. CASE RelocateMarker(t)
    BY <1>1, <2>3 DEF RelocateMarker, Publish
  <2> QED
    BY <1>4, <2>1, <2>2, <2>3 DEF Finish
<1>5. CASE [QuietNext]_runVars
  <2>1. kernel' = "alive"
    BY <1>5, QuietKeeps
  <2> QED
    BY <1>1, <1>5, <2>1, QuietKeeps
<1> QED
  BY <1>t, <1>2, <1>3, <1>4, <1>5, NextSplit

LEMMA PassKept ==
    ASSUME HandleInv, DiskInv, RecordsInv, RecordedInv, ReaderInv, PassInv, [Next]_vars PROVE PassInv'
<1> DEFINE AllRead == \A r \in Ranks : offset[r] >= recorded[r]
<1>t. RunTypeOK /\ RecordTypeOK /\ (Finished => process = "exited")
  BY DEF HandleInv, RecordsInv
<1>n. (Finished => workDir = result.dir)'
  BY ResultNamesDirectory
<1>f. Finished => ReaderGone \/ (Finished' /\ UNCHANGED <<result, workDir>>)
  BY FinishedStays DEF Finished
<1>k. /\ ~touched' => ~touched
      /\ Finished => recorded' = recorded
  <2>1. ~touched' => ~touched
    BY <1>t, KernelStays, LeaveTakesReader DEF Shell
  <2>2. Finished => recorded' = recorded
    BY <1>t, RecordedKept
  <2> QED
    BY <2>1, <2>2
<1>w. Finished /\ ~touched => Exists(workDir)
  BY DirectoryStays
<1>l. \A r \in Ranks : /\ offset[r] \in Nat /\ Len(lines[r]) \in Nat /\ offset[r] <= Len(lines[r])
                       /\ r # 0 /\ recorded[r] \in Nat /\ recorded[r] <= Len(lines[r])
  BY ReaderAssumption DEF RecordsInv, RecordedInv, RecordTypeOK, Ranks, AllRanks
<1>p. /\ terminalSeen \/ at = "ended" => Finished
      /\ terminalSeen /\ at = "read" /\ ~touched => path = workDir /\ NoneLeft
      /\ at = "ended" /\ ~touched => AllRead
  BY DEF PassInv
\* What is to be shown of a step that is not the end of the reader.
<1>g. ASSUME ~ReaderGone, terminalSeen' \/ at' = "ended" => Finished,
             terminalSeen' /\ at' = "read" /\ ~touched /\ Finished => path' = workDir /\ NoneLeft',
             at' = "ended" /\ ~touched /\ Finished => AllRead'
      PROVE  PassInv'
  BY <1>f, <1>g, <1>k, <1>n DEF PassInv
<1>r. UNCHANGED <<sources, recorded, offset>> => (AllRead' <=> AllRead)
  BY DEF Ranks
<1>e. ASSUME ReaderGone PROVE PassInv'
  <2>1. terminalSeen' = FALSE /\ at' = "closed"
    BY <1>e DEF ReaderGone
  <2> QED
    BY <1>n, <2>1 DEF PassInv
<1>1. CASE UNCHANGED readerVars
  <2>1. UNCHANGED <<sources, lines, offset, at, path, unread, opened, terminalSeen>>
    BY <1>1 DEF readerVars, fileVars, passVars, recordVars
  <2>2. Finished => (NoneLeft' <=> NoneLeft)
    BY <1>k, <2>1 DEF NoneLeft, Ranks
  <2> QED
    BY <1>e, <1>g, <1>k, <1>p, <1>r, <2>1, <2>2
<1>2. ASSUME NEW r \in Ranks, EndLine(r) \/ \E i \in Index : BeginLine(r, i) PROVE PassInv'
  <2>1. UNCHANGED <<sources, offset, at, path, unread, opened, terminalSeen>> /\ ~ReaderGone
    <3>1. UNCHANGED <<sources, offset, at, path, unread, opened, terminalSeen>>
      BY <1>2 DEF EndLine, BeginLine, passVars, recordVars
    <3>2. lines' # lines \/ torn' # torn
      <4>1. r \in AllRanks /\ torn \in [AllRanks -> 0..Exchanges]
        BY <1>t, ReaderAssumption DEF RecordTypeOK, Ranks, AllRanks
      <4>2. torn'[r] # torn[r]
        BY <1>2, <4>1 DEF EndLine, BeginLine, Index
      <4> QED
        BY <4>2
    <3> QED
      BY <3>1, <3>2 DEF ReaderGone, fileVars
  <2>2. Finished => (NoneLeft' <=> NoneLeft)
    BY <1>k, <2>1 DEF NoneLeft, Ranks
  <2> QED
    BY <1>g, <1>k, <1>p, <1>r, <2>1, <2>2
<1>3. CASE Follow
  <2>1. /\ at = "follow" /\ at' = "read" /\ path' = workDir /\ UNCHANGED <<sources, lines, torn, opened, terminalSeen, offset>>
        /\ Exists(workDir) => unread' = {r \in Ranks : lines[r] # <<>> \/ torn[r] # 0}
    BY <1>3 DEF Follow, ReaderAt, fileVars, recordVars
  <2>2. Finished /\ Exists(workDir) => NoneLeft'
    <3> SUFFICES ASSUME Finished, Exists(workDir), NEW r \in Ranks, r \notin unread' PROVE offset[r] >= recorded[r]
      BY <1>k, <2>1 DEF NoneLeft, Ranks
    <3>1. lines[r] = <<>>
      BY <2>1
    <3>2. Len(lines[r]) = 0
      BY <3>1
    <3> QED
      BY <1>l, <3>2
  <2> QED
    BY <1>e, <1>g, <1>p, <1>w, <2>1, <2>2
<1>4. CASE OpenFile
  <2>1. /\ at = "read" /\ at' = "read" /\ opened = 0 /\ UNCHANGED <<sources, lines, path, terminalSeen, offset>>
        /\ unread' = unread \ {Min(unread)} /\ (Exists(path) => opened' = Min(unread))
    BY <1>4 DEF OpenFile, ReaderAt, fileVars, recordVars
  <2>2. Finished /\ NoneLeft /\ Exists(path) => NoneLeft'
    BY <1>k, <1>l, <2>1 DEF NoneLeft, Ranks
  <2> QED
    BY <1>e, <1>g, <1>p, <1>w, <2>1, <2>2
<1>5. CASE ReadLine
  <2>1. /\ at = "read" /\ at' = "read" /\ UNCHANGED <<sources, lines, path, unread, opened, terminalSeen>>
        /\ offset' = [offset EXCEPT ![opened] = offset[opened] + 1]
    BY <1>5 DEF ReadLine, ReaderAt, fileVars
  <2>2. Finished /\ NoneLeft => NoneLeft'
    <3> SUFFICES ASSUME NoneLeft, NEW r \in Ranks, r \notin unread, r # opened PROVE offset'[r] >= recorded[r]
      BY <1>k, <2>1 DEF NoneLeft, Ranks
    <3> QED
      BY <1>t, <2>1 DEF NoneLeft, RecordTypeOK
  <2> QED
    BY <1>e, <1>g, <1>p, <2>1, <2>2
<1>6. CASE LeaveFile
  <2>1. /\ at = "read" /\ at' = "read" /\ UNCHANGED <<sources, lines, path, unread, offset, terminalSeen>>
        /\ opened' = 0 /\ opened # 0 /\ offset[opened] >= Len(lines[opened])
    BY <1>6 DEF LeaveFile, ReaderAt, fileVars, recordVars
  <2>2. opened \in Ranks /\ offset[opened] >= recorded[opened]
    BY <1>l, <1>t, <2>1 DEF RecordTypeOK
  <2>3. Finished /\ NoneLeft => NoneLeft'
    BY <1>k, <2>1, <2>2 DEF NoneLeft, Ranks
  <2> QED
    BY <1>e, <1>g, <1>p, <2>1, <2>3
<1>7. CASE Answered
  <2>1. \/ at' = "failed" /\ UNCHANGED terminalSeen
        \/ at' = "follow" /\ pc[Reader] = "returned" /\ at = "answer" /\ Observed
    BY <1>7 DEF Answered, AnotherPass, ReaderAt, Iterating, Ended
  <2> QED
    BY <1>e, <1>g, <1>p, <2>1 DEF ReaderInv
<1>8. CASE Ask
  <2>1. /\ at = "read" /\ opened = 0 /\ unread = {} /\ UNCHANGED <<sources, lines, path, offset>>
        /\ \/ at' = "answer" /\ UNCHANGED terminalSeen
           \/ Finished /\ terminalSeen /\ LastPass
           \/ AnotherPass(Finished)
    BY <1>8 DEF Ask, ReaderAt, fileVars, Judge
  <2>2. NoneLeft => AllRead
    BY <1>l, <2>1 DEF NoneLeft
  <2> QED
    BY <1>e, <1>g, <1>k, <1>p, <1>r, <2>1, <2>2 DEF LastPass, AnotherPass
<1>9. CASE Closed
  BY <1>9, <1>e, <1>g, <1>p DEF Closed, passVars
<1> QED
  BY <1>1, <1>2, <1>3, <1>4, <1>5, <1>6, <1>7, <1>8, <1>9, <1>e, ReaderAlone DEF ReaderSteps

LEMMA ObserveInit == Init => ObserveInv
<1> SUFFICES ASSUME Init PROVE ObserveInv
  OBVIOUS
<1>1. RecordedInv
  BY DEF Init, ReaderInit, RecordedInv, AllRanks
<1>2. ReaderInv
  BY ReaderAssumption, RunAssumption DEF Init, RunInit, ReaderInit, ReaderInv, FinishSteps
<1>3. PassInv
  BY DEF Init, RunInit, ReaderInit, PassInv, Finished
<1> QED
  BY <1>1, <1>2, <1>3, RecordsInit DEF ObserveInv

LEMMA ObserveInvariant == Spec => []ObserveInv
<1>1. RunIInv /\ ObserveInv /\ [Next]_vars => ObserveInv'
  BY RecordsKept, RecordedKept, ReaderKept, PassKept DEF RunIInv, ObserveInv, HandleInv
<1> QED
  BY <1>1, ObserveInit, RunInvariant, PTL DEF Spec

LEMMA ObserveGives == ObserveInv => ObservationsComplete
<1> SUFFICES ASSUME ObserveInv PROVE ObservationsComplete
  OBVIOUS
<1>1. RecordsInv /\ PassInv
  BY DEF ObserveInv
<1>r. \A r \in Ranks : /\ r \in AllRanks /\ offset[r] \in Nat /\ offset[r] <= Len(lines[r])
                       /\ Len(lines[r]) \in Nat /\ lines[r] \in Seq(Index)
  BY <1>1, ReaderAssumption DEF RecordsInv, RecordTypeOK, Ranks, AllRanks
<1>2. ASSUME NEW r \in Ranks
      PROVE  {lines[r][n] : n \in 1..offset[r]} =
             {i \in Index : r \in pending[i] \/ \E d \in delivered : d[1] = i /\ r \in d[2]}
  <2>1. \A n \in 1..offset[r] : n \in 1..Len(lines[r]) /\ lines[r][n] \in Index
    BY <1>r
  <2>2. \A n \in 1..Len(lines[r]) : n <= offset[r] <=> n \in 1..offset[r]
    BY <1>r
  <2>3. \A i : i \in {lines[r][n] : n \in 1..offset[r]} <=> i \in Index /\ ReadOf(r, i)
    BY <2>1, <2>2 DEF ReadOf
  <2>4. \A i \in Index : ReadOf(r, i) <=> r \in pending[i] \/ Yielded(r, i)
    BY <1>1, <1>r DEF RecordsInv
  <2> QED
    BY <2>3, <2>4 DEF Yielded
<1> QED
  BY <1>1, <1>2, <1>r DEF ObservationsComplete, RecordsInv, PassInv

\* Whatever the iterator has read waits or was yielded once, and when it ends no line is
\* unread that a rank had written when the process exited, although the run is finished
\* and its directory renamed under it, and ranks may still write (ObservationStream.__iter__).
THEOREM ObservationsAllRead == Spec => []ObservationsComplete
BY ObserveInvariant, ObserveGives, PTL

-----------------------------------------------------------------------------
(***************************************************************************)
(* The types of the launch as a whole: those of its parts, of what a       *)
(* preparation writes, and of the iterator over observations.              *)
(***************************************************************************)
IsList(q) == \E S : q \in Seq(S)

\* What a launch may still rely on when the Case was changed behind its Longship.
DeclarationHolds(d) ==
    /\ {"closures", "transforms", "ranks"} \subseteq DOMAIN d
    /\ IsList(d.closures) /\ IsList(d.transforms) /\ d.ranks \in Int

PreparationInv ==
    /\ PreparationTypeOK /\ DeclarationHolds(declaration)
    /\ IsList(case.artifacts)
    /\ phase \in BeforeDirectory => case = EmptyCase

LEMMA ListsJoin ==
    ASSUME NEW p, NEW q, IsList(p), IsList(q) PROVE IsList(p \o q) /\ Len(p \o q) \in Nat
<1>1. PICK S : p \in Seq(S)
  BY DEF IsList
<1>2. PICK T : q \in Seq(T)
  BY DEF IsList
<1>3. p \in Seq(S \cup T) /\ q \in Seq(S \cup T)
  BY <1>1, <1>2
<1>4. p \o q \in Seq(S \cup T) /\ Len(p \o q) \in Nat
  BY <1>3
<1> QED
  BY <1>4 DEF IsList

LEMMA ListGrows ==
    ASSUME NEW q, NEW e, IsList(q)
    PROVE  IsList(Append(q, e)) /\ Len(q) \in Nat /\ Len(Append(q, e)) = Len(q) + 1
<1>1. PICK S : q \in Seq(S)
  BY DEF IsList
<1>2. q \in Seq(S \cup {e})
  BY <1>1
<1>3. Append(q, e) \in Seq(S \cup {e}) /\ Len(q) \in Nat /\ Len(Append(q, e)) = Len(q) + 1
  BY <1>2
<1> QED
  BY <1>3 DEF IsList

\* The programs of a declaration can be counted.
LEMMA ProgramsAreCounted ==
    ASSUME NEW d, DeclarationHolds(d) PROVE Len(Programs(d)) \in Nat
<1> DEFINE a == The(d.combustion).reaction
           b == ManifoldProgram(d)
<1>1. IsList(<<a, b>>)
  <2> HIDE DEF a, b
  <2>1. <<a, b>> \in Seq({a, b})
    OBVIOUS
  <2> QED
    BY <2>1 DEF IsList
<1>2. IsList(d.closures) /\ IsList(d.transforms)
  BY DEF DeclarationHolds
<1>3. IsList(ClosurePrograms(d))
  BY <1>1, <1>2, Zenon DEF ClosurePrograms
<1> QED
  BY <1>2, <1>3, ListsJoin DEF Programs

\* Neither the machine nor the ranks and the mesh of a declaration make it another kind.
LEMMA DeclarationStays ==
    ASSUME NEW d, DeclarationHolds(d)
    PROVE  /\ \A m : DeclarationHolds([d EXCEPT !.machine = m])
           /\ \A n \in Int : \A m : \A v : DeclarationHolds([d EXCEPT !.ranks = n, !.mesh = m, !.validate = v])
BY DEF DeclarationHolds

LEMMA PreparationInvInit == Init => PreparationInv
<1> SUFFICES ASSUME Init PROVE PreparationInv
  OBVIOUS
<1>1. declaration \in Declarations /\ phase = "declared" /\ renumbered = FALSE /\ case = EmptyCase
  BY DEF Init, PreparationInit
<1>2. DeclarationHolds(declaration)
  BY <1>1, DeclarationsAssumption DEF DeclarationHolds, IsList
<1>3. EmptyCase.artifacts = <<>> /\ Len(<<>>) = 0 /\ <<>> \in Seq({})
  BY DEF EmptyCase
<1>4. IsList(case.artifacts)
  BY <1>1, <1>3 DEF IsList
<1>5. Len(Programs(declaration)) \in Nat
  BY <1>2, ProgramsAreCounted
<1>6. /\ EmptyCase.initial = "none" /\ EmptyCase.processors = 0 /\ EmptyCase.subdomains = 0
      /\ EmptyCase.sockets = {}
  BY DEF EmptyCase
<1>7. PreparationTypeOK
  <2>1. Len(case.artifacts) = 0
    BY <1>1, <1>3
  <2>2. case.processors \in Nat /\ case.subdomains \in Nat /\ case.sockets \subseteq Nat
    BY <1>1, <1>6
  <2>3. DOMAIN case = DOMAIN EmptyCase /\ case.initial = "none"
    BY <1>1, <1>6
  <2>4. Len(case.artifacts) <= Len(Programs(declaration))
    BY <1>5, <2>1
  <2> QED
    BY <1>1, <2>2, <2>3, <2>4 DEF PreparationTypeOK, Phases
<1> QED
  BY <1>1, <1>2, <1>4, <1>7 DEF PreparationInv

\* A step of the preparation that leaves the declaration alone, by what it does to the
\* parts of the case that have a type.
LEMMA CaseChanges ==
    ASSUME PreparationInv, UNCHANGED <<declaration, renumbered>>, phase' \in Phases,
           phase' \in BeforeDirectory => phase \in BeforeDirectory /\ case' = case,
           DOMAIN case' = DOMAIN case, case'.initial \in {"none", "0", "0.orig"},
           case'.processors \in Nat, case'.subdomains \in Nat, case'.sockets \in SUBSET Nat,
           IsList(case'.artifacts), Len(case'.artifacts) <= Len(Programs(declaration))
    PROVE  PreparationInv'
<1>1. PreparationTypeOK'
  BY DEF PreparationInv, PreparationTypeOK
<1>2. DeclarationHolds(declaration)' /\ IsList(case.artifacts)'
  BY DEF PreparationInv, DeclarationHolds, IsList
<1> QED
  BY <1>1, <1>2 DEF PreparationInv

LEMMA PreparationKept ==
    ASSUME PreparationInv, [Next]_vars PROVE PreparationInv'
<1>t. /\ phase \in Phases /\ renumbered \in BOOLEAN /\ DOMAIN case = DOMAIN EmptyCase
      /\ case.initial \in {"none", "0", "0.orig"} /\ case.processors \in Nat /\ case.subdomains \in Nat
      /\ case.sockets \in SUBSET Nat /\ Len(case.artifacts) <= Len(Programs(declaration))
      /\ DeclarationHolds(declaration) /\ IsList(case.artifacts)
  BY DEF PreparationInv, PreparationTypeOK
<1>d. {"initial", "artifacts", "sockets", "dictionary", "transport", "exchanges", "tools", "subdomains", "coefficients", "processors"} = DOMAIN case
  BY <1>t DEF EmptyCase
<1>b. phase \in BeforeDirectory => case = EmptyCase
  BY DEF PreparationInv
\* A step that writes nothing into the case.
<1>1. ASSUME UNCHANGED <<declaration, renumbered, case>>, phase' \in Phases,
             phase' \in BeforeDirectory => phase \in BeforeDirectory
      PROVE  PreparationInv'
  BY <1>1, <1>t, CaseChanges
<1>2. CASE UNCHANGED preparationVars
  BY <1>1, <1>2, <1>t DEF preparationVars
\* A step before there is a directory, whatever it makes of the declaration.
<1>3. ASSUME UNCHANGED <<case, phase>>, renumbered' \in BOOLEAN, phase \in {"declared", "constructed"},
             DeclarationHolds(declaration')
      PROVE  PreparationInv'
  <2>1. Len(Programs(declaration')) \in Nat
    BY <1>3, ProgramsAreCounted
  <2>2. case = EmptyCase /\ EmptyCase.artifacts = <<>> /\ Len(<<>>) = 0
    BY <1>b, <1>3 DEF BeforeDirectory, EmptyCase
  <2>3. Len(case.artifacts) <= Len(Programs(declaration'))
    BY <2>1, <2>2
  <2>4. PreparationTypeOK'
    BY <1>3, <1>t, <2>3 DEF PreparationTypeOK
  <2>5. DeclarationHolds(declaration)' /\ IsList(case.artifacts)'
    BY <1>3, <1>t DEF DeclarationHolds, IsList
  <2> QED
    BY <1>3, <2>2, <2>4, <2>5 DEF PreparationInv
<1>4. CASE Locate
  <2>1. declaration' = [declaration EXCEPT !.machine = Located(declaration.machine)]
    BY <1>4 DEF Locate
  <2>2. DeclarationHolds(declaration')
    BY <1>t, <2>1, DeclarationStays
  <2> QED
    BY <1>3, <1>4, <1>t, <2>2 DEF Locate
<1>5. ASSUME NEW ranks \in 1..MaxSources, NEW mesh \in {"blockMesh", "existing"},
              NEW validate \in BOOLEAN, Initialize(ranks, mesh, validate)
      PROVE  PreparationInv'
  <2>1. declaration' = [declaration EXCEPT !.ranks = ranks, !.mesh = mesh, !.validate = validate] /\ ranks \in Int
    BY <1>5, ReaderAssumption DEF Initialize
  <2>2. DeclarationHolds(declaration')
    BY <1>t, <2>1, DeclarationStays
  <2>3. renumbered' \in BOOLEAN
    BY <1>5, <1>t DEF Initialize
  <2> QED
    BY <1>3, <1>5, <2>2, <2>3 DEF Initialize
<1> USE DEF Advance, Unfailing, Owned, Phases, PreparationSteps, BeforeDirectory
<1>6. CASE Construct \/ Launch \/ Mark \/ Break
  BY <1>1, <1>6, <1>t DEF Construct, Launch, Mark, Break
<1>7. CASE Packaged \/ MeshCommands \/ CheckProcessors \/ FormCommands
  BY <1>1, <1>7, <1>t DEF Packaged, MeshCommands, CheckProcessors, FormCommands
<1>8. CASE Launched
  BY <1>1, <1>8, <1>t DEF Launched
<1>9. CASE CopyCase
  <2>1. /\ case' = [case EXCEPT !.initial = InitialDirectory(declaration.source)]
        /\ UNCHANGED <<declaration, renumbered>> /\ phase' \in {"package", "failed"}
    BY <1>9 DEF CopyCase
  <2>2. InitialDirectory(declaration.source) \in {"none", "0", "0.orig"}
    BY DEF InitialDirectory
  <2> QED
    BY <1>d, <1>t, <2>1, <2>2, CaseChanges
<1>10. CASE RenderClosures \/ RenderTransforms
  <2>1. /\ DOMAIN case' = DOMAIN case /\ case'.initial = case.initial /\ case'.processors = case.processors
        /\ case'.subdomains = case.subdomains /\ case'.sockets = case.sockets /\ case'.artifacts = case.artifacts
    BY <1>10, <1>d DEF RenderClosures, RenderTransforms
  <2>2. UNCHANGED <<declaration, renumbered>> /\ phase' \in {"transforms", "mesh", "failed"}
    BY <1>10 DEF RenderClosures, RenderTransforms
  <2> QED
    BY <1>t, <2>1, <2>2, CaseChanges
<1>11. CASE PackageProgram
  <2>1. UNCHANGED <<declaration, renumbered>> /\ phase = "package" /\ phase' \in {"package", "failed"}
    BY <1>11 DEF PackageProgram
  <2>2. CASE UNCHANGED case
    BY <1>1, <2>1, <2>2
  <2>3. Len(case.artifacts) \in Nat /\ Len(case.artifacts) + 1 - 1 = Len(case.artifacts)
    BY <1>t, ListGrows
  <2>4. CASE ~UNCHANGED case
    <3>1. PICK artifact :
             /\ case' = [case EXCEPT !.artifacts = Append(case.artifacts, artifact),
                                     !.sockets = case.sockets \cup {Len(case.artifacts)}]
             /\ Len(case.artifacts) + 1 <= Len(Programs(declaration))
      <4> DEFINE n == Len(case.artifacts) + 1
                 program == Programs(declaration)[n]
                 artifact == IF program.operator = "function" THEN Manifest(declaration, program) ELSE <<>>
      <4>1. /\ n <= Len(Programs(declaration))
            /\ case' = [case EXCEPT !.artifacts = Append(case.artifacts, artifact),
                                    !.sockets = case.sockets \cup {n - 1}]
        BY <1>11, <2>4, Zenon DEF PackageProgram
      <4>2. n - 1 = Len(case.artifacts)
        BY <2>3
      <4> HIDE DEF artifact
      <4> QED
        BY <4>1, <4>2
    <3>2. /\ IsList(Append(case.artifacts, artifact))
          /\ Len(Append(case.artifacts, artifact)) = Len(case.artifacts) + 1
      BY <1>t, ListGrows
    <3>3. /\ DOMAIN case' = DOMAIN case /\ case'.initial = case.initial /\ case'.processors = case.processors
          /\ case'.subdomains = case.subdomains /\ case'.sockets = case.sockets \cup {Len(case.artifacts)}
          /\ case'.artifacts = Append(case.artifacts, artifact)
      BY <1>d, <3>1
    <3>4. case'.sockets \in SUBSET Nat
      BY <1>t, <2>3, <3>3
    <3> QED
      BY <1>t, <2>1, <3>1, <3>2, <3>3, <3>4, CaseChanges
  <2> QED
    BY <2>2, <2>4
<1>12. CASE RunTools
  <2>1. UNCHANGED <<declaration, renumbered>> /\ phase = "tools" /\ phase' \in {"processors", "commands", "failed"}
    BY <1>12 DEF RunTools
  <2> DEFINE d == declaration
             parallel == d.ranks > 1
             prepared == [case EXCEPT !.coefficients = IF parallel THEN Coefficients(d) ELSE 0,
                                      !.subdomains = IF parallel THEN d.ranks ELSE @]
  <2>a. /\ DOMAIN prepared = DOMAIN case /\ prepared.initial = case.initial
        /\ prepared.sockets = case.sockets /\ prepared.artifacts = case.artifacts
        /\ prepared.subdomains = IF parallel THEN d.ranks ELSE case.subdomains
    BY <1>d
  <2>b. \/ \E done : \E parts \in IF parallel THEN {d.ranks, 0} ELSE {0} :
              case' = [prepared EXCEPT !.tools = done, !.processors = parts]
        \/ UNCHANGED case
    BY <1>12, Zenon DEF RunTools
  <2> HIDE DEF prepared
  <2>2. /\ DOMAIN case' = DOMAIN case /\ case'.initial = case.initial
        /\ case'.sockets = case.sockets /\ case'.artifacts = case.artifacts
    BY <1>d, <2>a, <2>b
  <2>3. /\ case'.processors \in {case.processors, 0} \cup {n \in {d.ranks} : n > 1}
        /\ case'.subdomains \in {case.subdomains, 0} \cup {n \in {d.ranks} : n > 1}
    BY <1>d, <2>a, <2>b
  <2>4. declaration.ranks \in Int
    BY <1>t DEF DeclarationHolds
  <2>5. case'.processors \in Nat /\ case'.subdomains \in Nat
    BY <1>t, <2>3, <2>4
  <2> QED
    BY <1>t, <2>1, <2>2, <2>5, CaseChanges
<1> QED
  <2>1. \/ UNCHANGED preparationVars \/ Locate \/ PreparesCase \/ Launched
    BY DEF Next, vars, BuildRuns, HostsStart, SolverStarts, SolverWrites, unbuilt, unhandled, SolverEnds, SolverBreaks,
           Evaluates, HostsRun, HostsStop, JobKilled, JobEnds, ProcessEnds, Leave, Calls, Finishes, Cleans, Reads, Asks,
           ConsumerCloses, Shell
  <2>2. CASE PreparesCase
    BY <1>5, <1>6, <1>7, <1>9, <1>10, <1>11, <1>12, <2>2 DEF PreparesCase, Prepare
  <2> QED
    BY <1>2, <1>4, <1>8, <2>1, <2>2

\* A list of exchanges that grow from line to line has no more lines than there are
\* exchanges.
LEMMA GrowingIsShort ==
    ASSUME NEW q \in Seq(Index), \A m, n \in 1..Len(q) : m < n => q[m] < q[n]
    PROVE  Len(q) <= Exchanges
<1> DEFINE T == {n \in Nat : n \in 1..Len(q) => n <= q[n]}
<1>0. Len(q) \in Nat /\ Exchanges \in Nat /\ \A n \in 1..Len(q) : q[n] \in 1..Exchanges
  BY ReaderAssumption DEF Index
<1>1. 0 \in T
  BY <1>0
<1>2. ASSUME NEW n \in Nat, n \in T PROVE n + 1 \in T
  <2> SUFFICES ASSUME n + 1 \in 1..Len(q) PROVE n + 1 <= q[n + 1]
    OBVIOUS
  <2>1. CASE n = 0
    BY <1>0, <2>1
  <2>2. CASE n # 0
    <3>1. n \in 1..Len(q) /\ n < n + 1
      BY <1>0, <2>2
    <3>2. n <= q[n] /\ q[n] < q[n + 1]
      BY <1>2, <3>1
    <3> QED
      BY <1>0, <3>1, <3>2
  <2> QED
    BY <2>1, <2>2
<1> HIDE DEF T
<1>3. Nat \subseteq T
  BY <1>1, <1>2, AllNumbers
<1>4. CASE Len(q) = 0
  BY <1>0, <1>4
<1>5. CASE Len(q) # 0
  <2>1. Len(q) \in 1..Len(q) /\ Len(q) \in T
    BY <1>0, <1>3, <1>5
  <2>2. Len(q) <= q[Len(q)]
    BY <2>1 DEF T
  <2> QED
    BY <1>0, <2>1, <2>2
<1> QED
  BY <1>4, <1>5

\* Where the iterator is, and the directory it reads.
WalkInv ==
    at \in {"follow", "read", "answer", "ended", "failed", "closed"} /\ path \in {Prepared, Final}

LEMMA WalkKept ==
    ASSUME WalkInv, RunTypeOK, [Next]_vars PROVE WalkInv'
<1> USE DEF WalkInv, fileVars, passVars, recordVars
<1>1. CASE UNCHANGED readerVars
  BY <1>1 DEF readerVars
<1>2. CASE \E r \in Ranks : EndLine(r) \/ \E i \in Index : BeginLine(r, i)
  BY <1>2 DEF EndLine, BeginLine
<1>3. CASE ReaderGone
  BY <1>3 DEF ReaderGone
<1>4. CASE Follow
  BY <1>4 DEF Follow, RunTypeOK
<1>5. CASE OpenFile \/ ReadLine \/ LeaveFile
  BY <1>5 DEF OpenFile, ReadLine, LeaveFile
<1>6. CASE Answered \/ Ask
  BY <1>6 DEF Answered, Ask, Judge, AnotherPass, LastPass
<1>7. CASE Closed
  BY <1>7 DEF Closed
<1> QED
  BY <1>1, <1>2, <1>3, <1>4, <1>5, <1>6, <1>7, ReaderAlone DEF ReaderSteps

LEMMA ReaderHasTypes ==
    ASSUME RecordsInv, WalkInv PROVE ReaderTypeOK
<1> USE DEF RecordsInv, RecordTypeOK, AllRanks
<1>1. \A r \in AllRanks : Len(lines[r]) <= Exchanges
  BY GrowingIsShort DEF LinesGrow
<1>2. offset \in [AllRanks -> 0..Exchanges]
  <2>1. \A r \in AllRanks : offset[r] \in 0..Exchanges
    <3> SUFFICES ASSUME NEW r \in AllRanks PROVE offset[r] \in 0..Exchanges
      OBVIOUS
    <3>1. offset[r] \in Nat /\ Len(lines[r]) \in Nat /\ offset[r] <= Len(lines[r]) /\ Len(lines[r]) <= Exchanges
      BY <1>1
    <3> QED
      BY <3>1, ReaderAssumption
  <2> QED
    BY <2>1
<1>3. unread \subseteq AllRanks /\ opened \in 0..MaxSources
  BY ReaderAssumption DEF Ranks
<1> QED
  BY <1>2, <1>3 DEF ReaderTypeOK, WalkInv

\* The bounds of an instance and what became of the solver and of the directory.
SteadyInv ==
    /\ sailing \in BOOLEAN /\ shared \in BOOLEAN
    /\ solver \in {"absent", "running", "ended", "broken"} /\ touched \in BOOLEAN

LEMMA SteadyKept ==
    ASSUME SteadyInv, [Next]_vars PROVE SteadyInv'
<1>1. UNCHANGED <<sailing, shared>>
  BY DEF Next, vars, steady, unbuilt, unprepared, unhandled, BuildRuns, Locate, PreparesCase, Launched, HostsStart,
         SolverStarts, SolverWrites, SolverEnds, SolverBreaks, Evaluates, HostsRun, HostsStop, JobKilled, JobEnds,
         ProcessEnds, Leave, Calls, Finishes, Cleans, Reads, Asks, ConsumerCloses, Shell
<1>2. solver' \in {solver, "running", "ended", "broken"}
  BY DEF Next, vars, steady, unprepared, unhandled, BuildRuns, Locate, PreparesCase, Launched, HostsStart,
         SolverStarts, SolverWrites, SolverEnds, SolverBreaks, Evaluates, HostsRun, HostsStop, JobKilled, JobEnds,
         ProcessEnds, Leave, Calls, Finishes, Cleans, Reads, Asks, ConsumerCloses, Shell
<1>3. touched' = touched \/ touched' \in BOOLEAN
  BY DEF Next, vars, steady, unprepared, unhandled, BuildRuns, Locate, PreparesCase, Launched, HostsStart,
         SolverStarts, SolverWrites, SolverEnds, SolverBreaks, Evaluates, HostsRun, HostsStop, JobKilled, JobEnds,
         ProcessEnds, Leave, Calls, Finishes, Cleans, Reads, Asks, ConsumerCloses, Shell
<1> QED
  BY <1>1, <1>2, <1>3 DEF SteadyInv

\* Type correctness of a launch: of the handle, the workspace, the build, the hosts and
\* their evaluations, of the case a preparation leaves behind however it ends, and of the
\* iterator, whose offsets never pass the exchanges a rank can have written.
THEOREM TypeCorrect == Spec => []TypeOK
<1>1. Init => PreparationInv /\ WalkInv /\ SteadyInv
  BY PreparationInvInit DEF Init, ReaderInit, WalkInv, SteadyInv
<1>2. PreparationInv /\ WalkInv /\ SteadyInv /\ RunIInv /\ [Next]_vars => (PreparationInv /\ WalkInv /\ SteadyInv)'
  BY PreparationKept, WalkKept, SteadyKept DEF RunIInv, HandleInv
<1>3. PreparationInv /\ WalkInv /\ SteadyInv /\ RunIInv /\ ObserveInv /\ UsableInv /\ GroupIInv /\ ResidentIInv => TypeOK
  BY ReaderHasTypes
  DEF PreparationInv, SteadyInv, RunIInv, HandleInv, DiskInv, ObserveInv, RecordedInv, AllRanks, UsableInv, GroupIInv,
      ResidentIInv, TypeOK
<1> QED
  BY <1>1, <1>2, <1>3, RunInvariant, ObserveInvariant, UsableInvariant, LaunchImplementsParts, GroupInvariant,
     ResidentInvariant, PTL DEF Spec
=============================================================================
