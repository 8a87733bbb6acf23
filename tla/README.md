# FoamNordic in TLA+

FoamNordic couples a running OpenFOAM solver to a resident model. Every MPI
rank of the solver keeps a connection (a *Fjord*) to a model worker; at fixed
points of a time step it sends fields, waits, and copies the answer back into
its own fields. A supervisor (*Longship*) starts the two programs, keeps the
solver back until the model is ready, and makes sure neither outlives the
other. On one node the connection is a region of shared memory with a
lock-free ring in each direction. Above all that stands a Python package: it
builds the native runtime, turns a declaration into a prepared case and a plan
of processors, sockets and files, starts the run, and hands the notebook a
handle that follows it.

This directory specifies those parts, checks them with TLC on small instances
and proves the central ones with TLAPS for every value of the constants.

| module | what it is | source |
|---|---|---|
| `BoundedFifo` | what one direction of a connection promises | - |
| `SlotRing`, `SlotRingProofs` | the slot ring, one memory access per step; it implements `BoundedFifo` | `backend/communication/src/shm_ring.cpp` |
| `ShmChannel`, `ShmChannelProofs` | waiting, waking and closing of the shared-memory channel | `backend/communication/src/shm_channel.cpp` |
| `ExchangeService` | what an exchange promises the solver that calls it | - |
| `FieldExchange`, `FieldExchangeProofs` | exchanges of several ranks with one worker; they implement `ExchangeService` | `backend/adapter/exchange.cpp`, `backend/inference/{runner,exchange,worker}.cpp`, part of `harbor.cpp` |
| `HarborSession`, `HarborSessionProofs` | how solver ranks and the worker come to share a data plane | `harbor.cpp`, accept phase of `inference/worker.cpp`, `openfoam/fieldProgramSession.C` |
| `Longship`, `LongshipProofs` | the supervisor and the processes it runs | `runtime/longship_supervisor.cpp` |
| `ObservationRelay`, `ObservationRelayProofs` | observations from the solver's ranks to a file or to a merged stream | `backend/adapter/observation.cpp`, `observation_stream.cpp`, `openfoam/fieldProgramObservation.C` |
| `Workspace` | who owns a generated directory, and the command that removes them | `core/managed.py`, clobber in `_cli.py` |
| `RunControl` | the handle of a run: status, wait, stop, detach, and finishing once | `execution/run.py` |
| `ObservationReader` | the iterator over the observation files of a run | `execution/observe.py` |
| `CompileCache` | the cache of compiled models and its lock file | `build/compiler.py` |
| `HostGroup`, `HostProofs` | resident hosts, alone or as a group, a client of `CompileCache`; the proofs are about both, and about `Resident` | `execution/host_group.py`, `node_host.py`, `tools/resident/main.cpp` |
| `FieldLayouts` | field expressions and the widths inferred for them | `core/expressions.py`, `core/layout.py` |
| `LaunchPlan` | from a declaration to the budgets, files and commands of a launch | `core/spec.py`, `core/native_plan.py`, `combustion/`, `execution/{case,launch,resources,slurm,mpi}.py` |
| `CasePreparation` | the steps of `prepare_case`, each of which can fail | `execution/case.py`, `execution/launch.py` |
| `NativeBuild` | `foamnordic build` and `doctor` | `_cli.py`, `build/onnxruntime.py` |
| `Resident` | evaluation of the ranks' rows in one host | `execution/resident.py`, `random.py` |
| `PythonRun`, `PythonRunProofs` | all Python-side modules together, with the solver | the calls between them |
| `MC*` | instances for TLC | - |

`PROJECT.json` maps every definition to the lines it models, and every property
to a one-operator mutation of the code model that breaks it.

## Inventory

### How the parts interact

```
 Python Run ──spawns──> Longship supervisor ──fork/kill/waitpid──> ModelHost, solver
                              │ readiness files ^                     │        │
                              └─────────────────┴─────────────────────┘        │
 solver rank: BlockingFieldExchange > AtomicFieldExchange > Harbor > Fjord channel
                                                                    │ up, down
 ModelHost:   ModelWorker > InferenceRunner (thread per rank) > Harbor > Fjord channel
                              └ one model behind a mutex (SynchronizedKernel)
 solver rank: ObservationBuffer > JSONL writer ──file──> ObservationStream (Python)
              ObservationBuffer > publisher ──socket──> receivers > merged stream

 Python: build ─> runtime dir;  declaration ─> LaunchPlan ─> prepare_case ─> run dir
         Run handle (status, wait, stop, finish) ─> renames the run dir
         clobber command, a shell, other threads ─> the same directories
         resident hosts ─> compile cache (lock file), readiness files
```

### Components, their state, operations and correctness

* **Shared slot ring** (`shm_ring.cpp`). State: per slot a sequence number, a
  size and payload bytes; a write and a read position. Operations: `initialize`,
  `try_push`, `try_pop`, `readable`, `writable`. Two processes, no lock. Correct
  when no message is torn, lost, duplicated or reordered, when "full" and
  "empty" are true, and when the plain bytes are never accessed by both sides.
* **POSIX shared-memory channel** (`shm_channel.cpp`). State: two rings, a data
  and a space waiter word per ring, a closed flag, all shared; the bytes of a
  half-consumed slot. Operations: `write_all`, `read_all`, `wait_readable`,
  `interrupt`, `close`. Correct when nobody sleeps on a ready ring, and an
  interrupt releases whoever is blocked.
* **In-process channel, socket channels, listeners, UCX** (`channel.cpp`,
  `endpoint.cpp`, `ucx_channel.cpp`). The same interface over
  `std::atomic::wait`, sockets and UCP requests.
* **Harbor** (`harbor.cpp`) and **Rune codec** (`rune.cpp`). State: the
  negotiated session and the current channel. Operations: the hello exchange,
  the upgrade to shared memory or UCX, `publish`, `receive_message`,
  `fail_exchange`, `shutdown`, `interrupt`. Correct when both sides agree on
  session, transport and payload limit, and nothing is written to a channel the
  peer has left.
* **Field exchange.** Solver side: `AtomicFieldExchange` (outputs received,
  previous index) and `BlockingFieldExchange` (per-call sequence). Worker side:
  `CellInferenceExchange` (a state machine: waiting, collecting inputs, ready,
  evaluating, outputs ready, completed, failed), `InferenceRunner` (one batch per
  `run_one`), `ModelWorker` (accept phase, then a thread per rank, first failure
  interrupts all). Correct when a call replaces all output fields or none, from
  the answer to this very call, and always ends.
* **Longship supervisor.** State: the two children, their published exit status,
  a watcher thread each, readiness files, the stop flag. Correct when the solver
  never meets a host that is not ready, when the end of one component ends the
  other, when nothing is left unreaped, and when the result tells the truth.
* **Observation buffer, writers and stream** (`observation.cpp`,
  `observation_stream.cpp`). A bounded buffer under a mutex with `drop_oldest` or
  `drop_newest`, a writer thread, a publisher and a receiver. Correct when every
  accepted record is delivered, evicted and counted, or still buffered.
* **Run control** (`execution/run.py`). State: the process, the cancel request,
  whether it was detached, the published `Result`, a lock; on the disk the logs and
  the prepared directory. Operations: `status`, `stop` (plain and forced), `wait`,
  `detach`, `observe`, the wait for the start of a Slurm job, the atexit handler.
  Threads of the kernel call them at once; the first that finds the process gone
  finishes the run, in steps each of which can fail. Correct when a run is
  finished once, its result is true of the disk, and everybody's wait ends.
* **Observation reader** (`execution/observe.py`). State: an offset per file,
  records waiting for the other ranks, what was yielded. Correct when a record is
  yielded once and none is left, although the directory is renamed meanwhile.
* **Ownership of directories** (`core/managed.py`) and **clobber** (`_cli.py`).
  State: a marker in each generated directory that names its own path. Correct
  when nothing is removed that the program does not own.
* **Case preparation and launch** (`execution/case.py`, `launch.py`,
  `resources.py`, `slurm.py`, `mpi.py`, `core/spec.py`, `core/native_plan.py`,
  `core/layout.py`, `combustion/`). A function from a declaration, the source case
  and the machine to a directory, dictionaries and commands, with a failure at
  each step. Correct when what is prepared is what was declared and what is
  budgeted fits the allocation.
* **Resident hosts** (`host_group.py`, `node_host.py`, the resident program),
  **compile cache** (`compiler.py`) and **evaluators** (`resident.py`). State:
  processes with exit codes, readiness files, the cache entry and its lock file, a
  pool of threads and per-rank counters. Correct when "ready" and the exit code
  are true, no host loads half a library, and every row of an answer was computed
  from this exchange of this rank.
* **Native build** (`_cli.py`, `onnxruntime.py`). State: two directories with
  markers, the ONNX Runtime cache. Correct when a build that reports success left
  a runtime that can be used.
* **Exchange sequence, plans, placement** (`sequence.cpp`, `plan.cpp`,
  `placement.cpp`, `longship.cpp`): sequential arithmetic and validation.
* **Model artifacts and kernels, OpenFOAM adapters, Python field programs,
  export, post-processing, templates, tools**: data, files and numerics with no
  state shared over time.

### What is hard here

Lock-free hand-over between processes; sleeping on one condition while three
parties change it; memory order; an exception in the middle of a batch followed
by another call; one rank's failure while the others wait for the model, for
input or for space; processes that ignore signals, leave children behind, exit
within one polling interval of each other; readiness files of a run that
crashed; interrupts that arrive between a test and a wait; a directory that one
thread renames while another reads in it, a command removes it and a user copies
it; a finish that fails half-way and is tried again by somebody else; a lock file
that outlives its holder; a solver that must not wait for whoever looks at it.
`PROJECT.json` lists these hazards at their lines with the properties that guard
each.

## The modules

### SlotRing

`sequence[i]` is `Slot::sequence`, whose value says whose turn it is: `p` when
position `p` may be written, `p + 1` when it may be read. `try_push` is
`PushOversize`, `PushFull`, or `PushClaim; WriteSize; WriteBody; Publish`;
`try_pop` is `PopEmpty`, or `PopClaim; ReadSize; ReadBody; Release`. A step is
one access to memory both sides see. The payload is one value of `Bodies`, which
is enough to see a torn or stale message: its bytes are copied by one `memcpy`
between two hand-overs, and `NoOverlap` shows that no access of the other side
falls between. Release and acquire order is what makes the interleaving of whole
accesses adequate; `pushed` and `popped` are histories.

`ImplementsFifo` is refinement of `BoundedFifo` with `queue` read off the slots
themselves (`InFlight`). In `BoundedFifo` every call is one atomic step, and
"full" may be answered only when the queue holds exactly `Slots` messages.

### ShmChannel

One direction of `NamedShmChannel`. `try_push` and `try_pop` are atomic here:
that is what the refinement above allows. Per end, `pc` walks through
`write_all` (or `read_all`): try, `require_open`, raise the waiter word
(`Arm`), look again (`Recheck`), `FUTEX_WAIT`; after a transfer exchange the
peer's word for 0 (`Notify`) and, when it was up, `FUTEX_WAKE`. `ipc` is a thread
in `interrupt()`, with one step per store and per wake. `Eintr` is a signal,
`Timeout` the timed wait of `wait_readable`, whose caller polls again.

With `StoreBuffer = TRUE` an end's stores to its own waiter word wait in a FIFO
buffer and drain at any time, at latest at its next atomic exchange or futex
call. That is what x86 does to a release store followed by an acquire load of
another location, and the C++ memory model allows it everywhere. The chunks are
numbers 1 to `Total`.

### FieldExchange

Per rank a connection of two FIFOs of whole runes, `up` and `down`, each with
`Slots` places, and a `closed` flag. A tensor rune carries its field's name and
the index of the call it belongs to; that is all the two sides compare it by.
`Call`, `Send`, `ReceiveOutput`, `Copy` are the solver's
`BlockingFieldExchange::execute`; `ReceiveInput` (with `TakeInput`,
`TakeComplete`, `TakeShutdown`), `Lock`, `Evaluate`, `Publish`, `Report`,
`Interrupt` are `InferenceRunner::run` and the handler around it in
`ModelWorker::run`. Every error path of both sides is there: fields out of step,
a tensor over the payload limit after others have been sent, unexpected,
duplicate or missing tensors, a commit record that does not match, a model or
bypass policy that throws, a write or read on an interrupted connection, a
shutdown in the middle of a batch. The caller may catch the exception and call
again, which the adapters allow. Seven states of `CellInferenceExchange` appear
as five: `inputs_ready` and `outputs_ready` are left again before anybody can
look.

`closed` is ideal: it releases a blocked end at once. The real channel falls
short of it (see the findings), which is the reason `ShmChannel` exists as a
module of its own; over Unix sockets and TCP the ideal is met by `shutdown(2)`.
Sequence numbers are counters here: `2^64` calls are not reached.

`ImplementsService` is refinement of `ExchangeService`, where a call of a rank is
one step: it returns with every field from its own answer, or throws and changes
nothing, and the model answers a call once at most, also one that was given up. The
copy of the outputs is hidden from the caller (`Settled`), who is inside the call
(`Seen`); only a rank that dies in the copy leaves part of it.

### HarborSession

Per connection two FIFOs of control runes over the socket, whether the solver's
end is open, whether the named region exists, and how far UCX has got. The worker
is one sequential process: `Accept`, `TakeHello`, `Admit` (capability, duplicate
rank, identity), then an upgrade or none, then `Seat`. A solver is
`connectSession`: `Connect`, hello, `TakeReply`, and the offer it has to expect
from what was selected. Both ends switch channels in steps of their own, and a
rank that is ready may write its first tensor (`Talk`) while the worker is still
at the previous step of that connection or busy with the next rank. Solvers leave
or die at any moment, the worker throws or dies; a solver that leaves removes its
region, one that dies leaves it behind. A write to a peer that has gone fails over
a Unix socket and may succeed once more over TCP. Session id and number of peers
are one identity. An attempt to create, map or listen may always fail. Both
programs use the blocking handshake, so nothing here has a timer but the UCX
accept. The model ends where the runners of `FieldExchange` begin.

### Longship

The supervisor is one sequential process whose `pc` names the points between two
observable accesses: one readiness file (`ScanReady`), the stop flag, a child's
published status, a signal, a join. The watcher threads are `Watch`. A process
group has a leader, which the supervisor forked, and possibly `members`, which
the leader started (as `mpirun` and `srun` do); SIGTERM is a request a leader
may ignore, SIGKILL ends a whole group. Readiness files may exist at the start,
left by an earlier run, and hosts may create and withdraw them at any moment.
The condition-variable waits in the code have no predicate, so a wait may end
early for no reason: a wait is a label the supervisor may leave whenever it is
scheduled. `late` is the readiness deadline. Exit statuses are told apart as
success, failure, death by SIGTERM and by SIGKILL.

### ObservationRelay

A rank's solver thread is `Publish`, then `Check` (it gives up an observation that
is no longer healthy), `Shutdown`, and the stop path `StopCloses`,
`StopInterrupts`, `StopJoins`. Its worker is `Open`, `Pop`, then `WriteLine` for a
file or `WriteFrame`, a length and a frame as two pieces that each wait for room
in the channel, and `WorkerFails`. At the far end there is a thread for each source:
`AwaitFrame` (with its 100 ms), `ReadFrame` (without any), `Retain`,
`ReaderThrew`; `Receive` and `OwnerStops` are the caller's. `try_lock` may fail
whenever the worker is about to take the mutex. A record is its exchange index and
a size; the two retention loops are one pair of operators, `Refused` and
`Evicted`. A piece arrives whole. The far end is a socket, where a hang-up is
reported before the data still in it.

### Workspace, RunControl and ObservationReader

`root[p]` is what stands at a path: nothing, something unmarked, or a directory
with a marker naming a path; it is owned when that is its own path. `ClobberCheck`
and `ClobberRemove` are two steps of a process of its own, and `UserCopies` and
`UserMoves` are somebody at a shell.

`RunControl` has a program counter per calling thread. `status` polls the process
and finishes the run when it is gone. `Finish` walks, under the lock, through
`AppendCompletion`, `RenameLogs` (the names grow by a suffix each time),
`MoveDirectory` and `RelocateMarker`, and publishes the result; each step raises
when the disk is full or the directory is not where it was, with the lock released
and the rest undone (`Raise`), so that the next call starts again on what is there. `Stop` reads the status, sets the cancel request and signals. The
process exits by itself with 0, 1 or 130. `Start` returns for a Slurm job once
the job has begun, or raises.

`ObservationReader` is the generator of `ObservationStream.__iter__`: one label
per file access, a pass over the files, the status asked after every pass, and a
last pass when the run was over. A line can be seen torn (`BeginLine`,
`EndLine`). The process whose end the handle sees is not the last to write: ranks
outlive a supervisor that has only waited for their leader, and a Slurm job outlives
`submit.sh` when that gives up (after 300 s of a cancelled job that stays active, or
sixty looks without an answer of `sacct` and `squeue`; `ExitCodes`).
`ObservationsComplete` therefore speaks of the lines that were `recorded` when the
process exited, with or without a job.

### CompileCache and HostGroup

`CompileCache` is `compile_source` per host: look for the library, create the lock
file exclusively, compile aside, rename, unlock; or wait for either. A host may be
killed at any label and its lock file stays. `HostGroup` adds the group's main
process (start, wait for the readiness files, publish the aggregate, poll the
children, terminate all, return a code), the hosts' own files and exit codes, and
a SIGTERM or SIGKILL from outside; files of an earlier start may be there already.
Its `CacheSpec` refinement states that the group only ever uses the cache through
`compile_source`.

### FieldLayouts, LaunchPlan and CasePreparation

These are functions: `FieldLayouts` infers class and width of an expression over a
field set, by functions over expressions nested at most five deep; `LaunchPlan` computes what a launch does with a declaration (rejections
included), with the lines of each check in the order of the code.
`CasePreparation` runs them: `Longship(...)` is constructed, `launch` validates,
`prepare_case` makes and marks the directory, copies, writes dictionaries and runs
tools; each step may raise and leaves the directory. A notebook may initialize the
case in between. Texts are left out; which dictionary calls what is kept.

The tools run as one shell line joined with `&&`, but a transform's command and the
library's hold semicolons (`case.py:1031-1036`, `1048-1055`), and the shell has no
`set -e`. So the line is several and-lists (`AndLists`): a failed command stops its
own list only, and the status `check=True` looks at is that of the last one. Without
programs there is one list and any failure is heard. With programs a failed
`blockMesh`, `checkMesh`, `application` or functions entry is lost, a serial launch
gets ready without a mesh, an application or schemes, and in a parallel one only
`decomposePar`, which needs a mesh, keeps the preparation from going on without it.
A command that adds a scheme never fails, whatever `foamDictionary` does inside of
its `if`. `LaunchIsSound` says what is left to rely on: which commands may be missing
from a launch that is ready, and that all schemes are there when none is. Left out:
when the list before the library's stops, the libraries listed already are not read,
and one may be lost.

### NativeBuild, Resident and PythonRun

`NativeBuild` takes `foamnordic build` command by command, from refreshing an old
directory to naming the adapter library, with the toolchain and what earlier
builds left. `Resident` has one thread per rank, the kernel's mutex, the pool of
threads with the tasks that wait for it, and the keys of an invocation. A value is
the pair of rank and exchange it was computed from, which is enough to see a row
missed, computed twice or taken from another call. `future.result()` raises the
first exception without waiting for the tasks behind it, so the tasks of an
evaluation that raised stay in the pool while the next rank has the mutex
(`Own` tells them apart): their result is a different array, and only their
threads are shared. A forest of many rows is divided by trees, not rows
(`ForestBatch`). `ResidentSpec` is the host alone; `PythonRun` changes its
variables through `Evaluate` only.

`PythonRun` composes all of them: the build makes the runtime a launch looks for,
the prepared directory becomes the run's, the hosts' exit codes and the solver's
decide the process's, the solver writes the lines the iterator reads and calls the
evaluators. The supervisor appears by what it makes the parts do; its own steps
are in `Longship`. It returns when both leaders are gone, or without having started
any (`LongshipMayEnd`); the ranks of a `broken` solver go on writing and asking for
evaluations meanwhile and afterwards (`RanksRun`), and only the end of a job ends
them all.

## What TLC checks

Deadlock is checked in `MCSlotRing`; in the other runs the system may really
stop (both ends done, the supervisor returned), and the liveness properties say
where it has to get to.

| run | instance | shows |
|---|---|---|
| `slot_ring` | 2 slots, 2 sizes, 2 bodies, 5 messages; 143,616 states | `NoOverlap`, `DeliveredInOrder`, the inductive `RingInv`, refinement of `BoundedFifo` |
| `shm_channel` | 2 slots, 5 chunks, untimed, interruptible, stores visible at once | `NoLostWakeup` and its inductive form `WakeInv`; `AllDelivered` unless closed |
| `shm_timed` | 2 slots, 4 chunks, timed reader, delayed stores, interruptible | timeouts mend what delayed stores and late interrupts break: `PushedIsRead`, `TimedCloseReleases` |
| `shm_lost_close` | 2 slots, 3 chunks, untimed | violation of `CloseReleases` |
| `shm_store_buffer` | 2 slots, 3 chunks, delayed stores | violation of `AllDelivered` |
| `field_exchange` | 2 ranks, 2 inputs, 2 outputs, 1 place, a rank up to 4 calls alone, 2 beside the other's one; 383,085 states | `AllOrNothing`, `OneBatch`, refinement of `ExchangeService`; one failure ends every runner (`FailTogether`) and no call hangs (`CallsEnd`) |
| `harbor_session` | 2 solver ranks, 2 connections, 2 identities, 2 ranks, every address and plane; 284,264 states | `PlanesAgree`, `OneRun`, `SessionAgreed`, `AttachFinds`, `HandshakesEnd` |
| `longship` | 2 readiness files; 58,334 states | `SolverAfterReady`, `LeadersReaped`, `SuccessIsReal`, `CoupledLifetimes`, `ReadinessDecided` |
| `observation_relay` | a file or a publisher alone, 5 records and stops; 2 publishers, 3 in all; 250,308 states | `OrderKept`, `RecordsAccounted`, `RetentionBounded`, `StopsEnd` |
| `python_run` | the shapes below; 512,749 states | `ResultIsTrue`, `ObservationsComplete`, `WaitsEnd`, `HostsAreTrue`, `LibraryIsWhole`, `LaunchIsSound`, `BuildIsUsable`, `EvaluationIsTrue`, `WorkspaceIsSafe` |
| `longship_orphan` | as `longship` | violation of `NoOrphan` |
| `longship_blame` | as `longship` | violation of `BlameIsRight` |

Bounds. Two slots are the fewest `memory_size` accepts, so every push meets the
wrap-around; five messages lap the ring twice and put both "unread of this lap"
and "free of the next" into each slot. More chunks than slots make both ends of
the channel block, also each after the other. Two inputs are the fewest of which
a batch can break off half sent. The bounds on calls are those of `MCFieldExchange`,
in its next-state relation and not in `Spec`. A rank makes up to `MaxCalls` while the
others have made none: four allow an abandoned call, a call that fails because of its
remains, one that meets the closed connection and one more. Beside another rank that
calls (`MaxOther`, once) it makes `MaxBeside`, two. Ranks that are each past their
first call are left to the proofs, where calls are not bounded.
A connection of one place makes an error rune meet a full ring. Two ranks are the
fewest that compete for the model, share a rank by mistake, belong to different
runs, or fail after the other has been upgraded. Two readiness files can be announced in part,
left over in part and withdrawn during a scan. `Longship` needs no other bound.

`observation_relay`: two records fit, by number and by bytes; the sizes 1, 1, 2, 3
make one record push out two, fill the bytes alone, and be too large by itself.
One piece in the channel makes every frame stop half-way. A single rank has both
policies; two ranks, which interact only in the merged stream and its stop, have
`drop_oldest`. Records and stops share a budget (`Decisions`): three records
overflow the merged stream, or two and somebody stops.

`python_run` is a union of shapes, each with the actors that interact in it and
the others held still: every declaration up to its commands (sizes, expressions,
schedules, what the machine or source lacks, combustion; `Declares`); a build with a
clobber command and a launch that uses it (`Builds`; odd toolchains one at a time,
and alone); observations of one rank with a second thread, or with a shell and a
disk that fills, of two ranks, and of a Slurm job of one rank (`Observes`); two threads on a local or a Slurm
run (`Controls`); one with clobber and shell (`Shares`); two hosts with one cache
entry, also after a requeue (`Hosted`); two ranks in one host (`Serves`). Two
exchanges and two lines let a rank run ahead and leave a torn last line; two
suffixes let a finish be retried once on its own leftovers (`MaxSuffix`); three
rows over two threads do not divide evenly. A shell acts only while something is
built or once the process has ended, an observed run is neither copied nor
detached, and the kernel is not left while evaluations are followed. Two more bounds
are in `MCNext` only: a launch that is followed beyond its preparation has tools that
all succeed or all fail (the declarations of `Declares` have every outcome), and only
the declarations in `Sized` are initialized a second time. A rank that survives its
supervisor has opened its file by then: one that opens it only after the rename
would make the prepared directory anew, which is not followed; and it writes no more
than `Lines` lines. `WorkspaceIsSafe` sees the window between clobber's look and its
removal while a build runs or a run is over, not in between. A result after two
forced stops, of which the second withdrew the first, is exempt (`overruled`), and so
are the processes of a Case initialized again behind its Longship (`renumbered`):
both are reached, and no document says what should hold.

Bounds in guards: `MaxMessages`, `Decisions` and the length of `Size`, `MaxSuffix`,
`Exchanges`, `Lines`, `MaxServed`, `Rounds`.

Fairness. `ShmChannel`: the two threads are scheduled, buffers drain, timers
expire, a started `interrupt()` finishes; nobody has to interrupt and no signal
has to come, so `AllDelivered` does not lean on `EINTR`. `FieldExchange`: a
solver rank that has called goes on and a runner goes on; nobody has to call or
to leave, and a dead rank does not: its process is gone. The model's answer is
part of the runner: a model that never returns is outside `CallsEnd`.
`HarborSession`: the worker goes on, and so does a solver that has connected;
nobody has to connect, so a worker may wait for a rank for ever, and with fewer
connections than solvers the ones left over would too. `Longship`:
the supervisor and its watchers are scheduled and the deadline passes; no process
has to exit, to get ready or to obey SIGTERM, no member has to die, nobody has to
ask for a stop. `ObservationRelay`: `StopsEnd` has two halves, each with only its
own side's threads scheduled (`RanksRun`, `ReadersRun`): the other side may hang
anywhere, in the middle of a frame as well. `PythonRun`: each thread waiting for or
finishing the run goes on, the thread of the iterator does with whatever its next
step is (one condition for reading and asking), and the atexit handler does; nobody has
to call `stop`, the process need not exit, and no user, command or host has to do
anything. All of it is weak fairness of threads the operating system
schedules. In `Longship`, a wait of bounded length is not fairness of the
awaited event: the wait may always end before the event.

## What is proved

All proofs hold for every value of the constants, from the named assumptions of
the modules (at least two slots, a positive payload, and so on), which the code
enforces by exceptions.

* `SlotRingProofs` proves `RingInv` inductive (`RingInvariant`). The invariant
  says that positions count the hand-overs, that the producer is at most one lap
  ahead, that the slot of every position between the two holds its message and
  the sequence number `p + 1`, that every other slot carries the number of its
  next position, and how far a call under way has got. The type invariant alone
  is not inductive, and in-order delivery needs the slot contents. The arithmetic
  core is a lemma: two positions less than one lap apart have different slots.
  From it follow `TypeCorrect`, `DataRaceFree`, `InOrderDelivery` and, step by
  step, the refinement `RingImplementsFifo`.
* `ShmChannelProofs` proves `WakeInv` inductive under `StoreBuffer = FALSE`
  (`WakeInvariant`), for any ring, any number of chunks, timed or not,
  interrupted or not, and from it `NoLostWakeup` (`WakeupsArrive`). The
  strengthening relates the word to the peer's program counter: a sleeper's word
  is up or its wake is on the way; a word that is up while the ring is ready has
  a peer about to exchange it. The assumption is necessary: `shm_store_buffer`
  refutes the conclusion without it.

* `HostProofs` proves `LibraryIsWhole` of `CompileCache` for any number of
  hosts killed at any label (`CacheLibraryIsWhole`). It is not inductive: that a host which leaves
  with a library leaves with a whole one needs that the entry never holds a part
  (`NeverPartial`) and that a host about to release the lock after success leaves a
  whole one behind (`ReleasesWhole`); that one host at a time holds the lock file is
  part of the property itself. `CacheEntryIsKept` is the action property from it.
* It proves `HostsAreTrue` (`GroupHostsAreTrue`) from an invariant
  that ties what the main process knows (`MainKnows`) to the hosts' states
  (`HostsKnown`) and to the files (`FilesKnown`), with one step per action; and
  that every step of the group is a step or a stutter of the cache
  (`GroupImplementsCache`), so that `LibraryIsWhole` carries over to the hosts of a
  group (`GroupLoadsWhole`) without another invariant.
* `LongshipProofs` proves `SolverAfterReady`, `LeadersReaped` and `SuccessIsReal`
  for any set of readiness files. None is inductive. The first needs that a file
  seen after `remove_stale` was announced by this launch's host
  (`FilesOfThisLaunch`); the second needs what has been started at each label
  (`StartedInOrder`), that published statuses are the exit codes (`StatusesTrue`)
  and that the two joins come last; the third that a signal to the solver goes with
  a recorded cause, and that a recorded cause stays in the result
  (`EndedForAReason`, `ResultIsFound`). The proof has one lemma per step of the
  supervisor and per kind of event outside it.
* `FieldExchangeProofs` proves `AllOrNothing`, `CommitsAreEvaluated` and `OneBatch`
  for any ranks, fields, places and calls: no bound on calls is in `Spec`, so ranks that
have called any number of times run beside each other. The invariant speaks of one rank
  (`RankInv`): how far the copy has got (`FieldsFollow`), that a collected batch
  has one index (`BatchIsOne`), that the runner is never ahead of the call and the
  solver never takes over what is not completed (`EndsInStep`), and that every rune
  on the wire was sent for a call made, or an exchange completed, by then
  (`WireInStep`). The last is what a test can hardly reach: it covers the leftovers
  of abandoned batches. `ExchangeImplementsService` is the refinement, step by step from
  that invariant: the last step of the copy returns from the call, the model's answer is
  the step of the service, and everything else on the wire is none.
  `CommitsAreEvaluated` is proved and needs no run: the service implies it.
* `HarborSessionProofs` proves `PlanesAgree`, `OneRun`, `SessionAgreed` and
  `AttachFinds` for any number of solvers, identities, ranks and connections. Per
  connection (`ConnectionInv`): the session is the one made of the offer
  (`SessionKnown`), the solver goes the way it leads to (`PlaneFollowed`), the
  socket holds at most the one control rune that may be there (`SocketDrained`), and
  the region exists from before its announcement until its owner ends
  (`RegionKept`). For the worker: connections are accepted once (`BacklogFresh`),
  what it knows of the one in work (`WorkerKnows`), and that those admitted are
  distinct ranks of `identity` (`RunKnown`).
* `ShmChannelProofs` also proves the type invariant of the channel with and without
  a store buffer (`TypeCorrect`): a drained store leaves a word a value it may have.
* `HostProofs` proves too, for any ranks, rows, budgets and exchanges, that the
  ranges of a batch are a partition of its rows (`RangesPartition`, from the
  arithmetic of quotient and remainder alone), that every answer is whole
  (`AnswersWhole`), that keys meet exactly when they should (`KeysDiffer`), that a
  forest counts each tree once (`TreesOnce`) and that the budget is kept
  (`BudgetKept`). The invariant says that a row of the evaluation under way is
  written or has a task that will write it, unless a task has raised
  (`RowsCovered`), and that every other task belongs to a rank that was answered
  with an error (`TasksKnown`): without the second, a leftover could not be told
  from a task of the rank's next exchange. That different seeds have
  different words (`WordsDiffer`) is about a recursion: the function exists because
  every prefix of it does (`PrefixesExist`, by induction in the form of a set,
  `AllNumbers`) and is one because prefixes agree (`PrefixesAgree`); that it tells
  seeds apart is shown at a least pair that it confuses. `EvaluationTrue` puts all
  of them together, with no hypothesis left.
* `PythonRunProofs` is about the launch as a whole. The handle's part of the
  invariant (`HandleInv`, `CancelInv`) says that whoever is at a step of a finish
  has the lock, that the process is gone by then and the result not published;
  `DiskInv` says what the run's directory is called and which logs it has at each of
  those steps, with crashes between any two; `SuccessInv` what an exit code of 0
  says of hosts and solver, and that it stays said, because neither runs any more.
  Their conjunction `RunIInv` is inductive given the invariant of the host group, and
  gives `ResultIsTrue` (`ResultTrue`). The group's invariant comes for nothing:
  `LaunchImplementsParts` shows that a launch refines `HostGroup` and `Resident`,
  from which `LaunchHostsTrue` and `LaunchEvaluatesTruly` follow.
  `WorkspaceSafe` proves the action property `WorkspaceIsSafe`. Its invariant
  `SafeInv` speaks of the path that a clobber command has looked at and not removed
  yet: whoever may take the directory away or put another one there meanwhile, what
  is there when the command comes back is marked as its own. `BuildUsable` proves
  `BuildIsUsable`: what each stage of a build leaves for the later ones
  (`StagesInv`), unless a command removes it behind its back, and what the adapter
  library is called on which system (`NamingInv`). `ObservationsAllRead` proves
  `ObservationsComplete`: a record that was read waits or was yielded, never both
  (`RecordsInv`); the reader leaves a call only with the run finished (`ReaderInv`),
  by when the process has exited; what was recorded then stays and is still in the
  files (`RecordedInv`, `FilesGrow`), wherever they are moved and whoever writes on;
  and a pass begun after that leaves nothing of it unread (`PassInv`). The lines of a file grow from one to the next (`LinesGrow`),
  without which a record could be yielded twice. `TypeCorrect` closes the launch: the
  parts bring their own types through the refinement and the invariants above. What a
  preparation leaves (`PreparationInv`) never holds more packages than there are
  programs, and nothing before there is a directory, which is what makes
  `Case.initialize` behind a checked Longship harmless to these types. An offset is
  no larger than the exchanges of a run because lines grow (`GrowingIsShort`). Its assumption
  on the declarations, `DeclarationsAssumption`, is that the programs are lists and
  the ranks an integer, as `core/spec.py` and `openfoam.py` annotate them; TLC
  evaluates it for every declaration of the run.
* `ObservationRelayProofs` proves `OrderKept`, `RetentionBounded` and
  `RecordsAccounted`, for any finite number of sources, any sizes, limits, policies
  and channel, with failures and stops at any label; all from one invariant `Inv`.
  It sees a source as seven stations from the far end to the near one (`Station`),
  each of them increasing and everything at a farther station older than everything
  at a nearer one (`InOrder`); a step moves one record to a station below, with
  nothing between (`RecordMoves`), drops some or adds the newest. That the reader
  takes a frame for a frame needs that lengths and frames alternate, and that both
  ends know whose turn it is (`Alternating`), unless the reader has given up;
  `Consistent` says who holds what at each label. The ledger equates the lost
  records with the counted ones (`Ledger`), and needs order as well: a record that
  is evicted is nowhere else, so each eviction loses exactly one
  (`OldestCount`, `PushedOutCount`). Per file it holds beyond failure and stop of others
  (`FileCounted`). That the bytes counted are those held is a fact about sums over
  sequences, which grow and shrink at both ends (`SizeOf`).

The types of all these modules are theorems too (`TypeCorrect`). The `TypeOK` of
`Longship` and of the exchanges document the variables and are not among the runs'
properties. Every inductive invariant was checked with TLC on the instance of its
run before it was proved.

Only model-checked: liveness (`AllDelivered`, `CallsEnd`, `HandshakesEnd`,
`ReadinessDecided`, `CoupledLifetimes`, `StopsEnd`, `WaitsEnd`), beyond the prover's
reach with `ENABLED`; the delayed-store runs; and `LaunchIsSound`, which compares
calculations over a declaration: sums over its programs and a recursion over its
expressions, which would need induction over data.

## Findings

1. `shm_lost_close`: an interrupt can be missed for ever. `read_all` looks at
   the closed flag before it raises its waiter word, and after raising it looks
   at the ring only. An `interrupt()` in between lowers a word that is not up
   and wakes nobody. `test_fjord.cpp:406` asserts the release of a blocked
   reader; it interrupts only a reader that already sleeps.
2. `shm_store_buffer`: raising the waiter word and looking at the ring again is a
   store followed by a load of another location, with release and acquire order
   only. Both ends can sleep on a ring that is ready for one of them.
3. `longship_orphan`: when a group's leader has been reaped no signal goes to the
   group, and a leader that obeys SIGTERM spares its group the SIGKILL.
4. `longship_blame`: a host that fails after the solver has ended, within one
   100 ms poll, is reported as "exited before the solver completed".

Seen while reading, without a run: `docs/architecture/lifecycle.md:92-95`
promises the host a grace window before SIGTERM after a successful solver,
`longship_supervisor.cpp:309-313` signals at once; a failing fork of the solver
(`:285`) unwinds past a joinable watcher thread, which terminates the supervisor
and leaves the host running (label "aborted"). When `ModelWorker::run` throws in
the accept phase, solvers it has already upgraded to shared memory are not told:
their channels are dropped without an interrupt, and it is the supervisor that
ends them. A solver that ends right after its upgrade removes the region before
the worker attaches; the worker then throws. With field programs a failed mesh tool
is lost (see `CasePreparation`), while `run-control-api.md:176-178` has `checkMesh`
follow the mesh as its validation and `case.py:1090` raises "OpenFOAM case preparation
failed" only for a failure of the last list. `Case.initialize` after `Longship(...)`
leaves a Slurm launch with the number of tasks it was constructed with.

## Not modelled, and why

* Creating, attaching and unmapping the shared region; the byte offset inside a
  chunk; the macOS build, which waits on the Unix socket.
* Socket loops, the UCX channel (optional; depends on the UCP library's
  progress), the in-process channel (the same wait and notify structure).
* Observations over a channel inside one process, which only the tests use; the
  wait in `receive`, which has a time limit, and the reductions of a record.
* On the Python side: a run without programs and without a supervisor, concurrent
  builds, progress, energy and log queries, several nodes of one group, the text
  of dictionaries and scripts, numerics and formatting, export and
  post-processing, the notebooks, and the native planner behind the plan.
* Known limits of `LaunchIsSound`: a scheme whose section is missing from the
  source's `fvSchemes` is outside `CaseIsSound`, and a conditioning entry that
  overrides `progress` is followed but not asserted. `WaitsEnd` excludes the run
  whose finish has used up its suffixes.
* The Rune prefix encoding, manifests, kernels, scalers: pure data.
* A solver that dies over shared memory: the code relies on the supervisor to
  kill the host, which is `CoupledLifetimes`; `Crash` is in `FieldExchange`, but
  no property promises the worker anything.
* Cell bypass, the time-step cadence, physical time and shapes: validated per
  message, and any mismatch is one of the exceptions modelled.

## Plan

Done: `BoundedFifo`, `SlotRing`, `ShmChannel`, `FieldExchange`, `ExchangeService`, `Longship`,
`HarborSession`; the Python side up to `PythonRun`; `ObservationRelay`; the proofs
of ring, wake protocol, compile cache, host group, supervisor, field exchange,
sessions, resident evaluation, the launch from Python, the observations, and the
refinement of the exchange service.

Next, in this order:

1. A `FieldExchange` over a channel with the faults of `ShmChannel`.
2. `ExchangeSequence` with `2^w` arithmetic and the decision table of
   `placement.cpp`, checked against reference definitions.
