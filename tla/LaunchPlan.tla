----------------------------- MODULE LaunchPlan -----------------------------
(***************************************************************************)
(* From a declaration to the commands of a launch: what Longship and       *)
(* validate_case accept, the native runtime plan, the budgets of the model *)
(* hosts, the Slurm request and the solver's command (core/spec.py,        *)
(* core/native_plan.py, runtime/longship.cpp, combustion/, and resources,  *)
(* slurm, mpi, launch and case of execution/).                             *)
(*                                                                         *)
(* A declaration d is a record; an optional part of it is a sequence with  *)
(* at most one element, as in Python it is None or a value:                *)
(*   closures, transforms    field programs: [name, at, operator, artifact,*)
(*                           format, ports, inputs, outputs], the last two *)
(*                           sequences of <<port, expression>>; ports are  *)
(*                           the names in the artifact's manifest          *)
(*   combustion              optional [name, reaction, manifold, coupling] *)
(*   observed                schedules [summaries, interval], the first a  *)
(*                           function from field names to reductions       *)
(*   slurm                   optional [nodes, ntasks, cpus, mem, model]    *)
(*   hostCpus, path          Attached: 0 is None                           *)
(*   place, command, shell, ranks, mesh, validate, application,            *)
(*   integration             of the Case: where run_dir is, seen from      *)
(*                           case_dir, and the kind of of_cmd              *)
(*   files, source           the files of the initial directory, in their  *)
(*                           order; what else the source case holds        *)
(*   decomposition           optional [read, coefficients]: the number of  *)
(*                           subdomains a literal names, or 0, and the     *)
(*                           product of the method's coefficients          *)
(*   machine                 the environment launch runs in                *)
(***************************************************************************)
EXTENDS FieldLayouts, SequencesExt

Stages == <<"time_step_start", "outer_corrector", "pressure_corrected", "time_step_end">>
StageOrder(at) == CHOOSE n \in DOMAIN Stages : Stages[n] = at

Ports(bindings) == [n \in DOMAIN bindings |-> bindings[n][1]]
Bound(bindings) == {bindings[n][2] : n \in DOMAIN bindings}
Given(optional) == optional # <<>>
The(optional) == optional[1]

\* The file an FNOM artifact is read from, unless a function is packaged.
HasArtifact(program) == program.operator = "model"
-----------------------------------------------------------------------------
(***************************************************************************)
(* The case (openfoam.py, core/openfoam_reader.py).                        *)
(***************************************************************************)

\* Case.__post_init__ and _Toolchain.__post_init__; of_cmd `openfoam ...` is the
\* application's wrapper.
CaseDeclared(d) == d.place # "same" /\ d.ranks > 0 /\ d.shell \in {"bash", "zsh"}
Wrapper(d) == d.command = "openfoam"

\* Case.initial_directory, which raises when there is none.
InitialDirectory(source) ==
    IF "0" \in source THEN "0" ELSE IF "0.orig" \in source THEN "0.orig" ELSE "none"

\* _DictionaryReader: a file with native directives is expanded by foamDictionary,
\* which may fail, with the reading of all fields.
Readable(file) == file.class # "unexpandable"
FieldsRead(d) == InitialDirectory(d.source) # "none" /\ \A file \in ToSet(d.files) : Readable(file)

\* read_field: a file without a header or a boundaryField is no field.
IsField(file) == file.class # "other"

\* read_case_fields: by the name in the header, of which the last file counts.
Fields(d) ==
    LET of(name) == {n \in DOMAIN d.files : IsField(d.files[n]) /\ d.files[n].object = name}
    IN  [name \in {file.object : file \in {f \in ToSet(d.files) : IsField(f)}} |->
            d.files[Max(of(name))].class]
FileNames(d) == {file.file : file \in ToSet(d.files)}

\* Case.field raises a KeyError without it.
HasField(d, name) == name \in DOMAIN Fields(d)

\* DictionaryIntegration.__post_init__: nothing is rendered outside the case.
IntegrationOK(integration) == integration.destination = "inside"
-----------------------------------------------------------------------------
(***************************************************************************)
(* Field programs.                                                         *)
(***************************************************************************)

\* Closure.__post_init__
ClosureOK(program) ==
    /\ program.inputs # <<>> /\ program.outputs # <<>>
    /\ \A e \in Bound(program.outputs) : e.op = "field"

\* Transform.__post_init__
TransformOK(program) ==
    /\ ClosureOK(program)
    /\ \A e \in Bound(program.inputs) : e.op = "field"
    /\ program.at \in Range(Stages)

\* The entry of a dict: another one under its name is replaced where it stands.
Bind(bindings, binding) ==
    IF binding[1] \in ToSet(Ports(bindings))
    THEN [n \in DOMAIN bindings |-> IF bindings[n][1] = binding[1] THEN binding ELSE bindings[n]]
    ELSE Append(bindings, binding)
Merged(bindings, more) == FoldLeft(Bind, bindings, more)
BoundTo(bindings, port) == bindings[CHOOSE n \in DOMAIN bindings : bindings[n][1] = port][2]

\* validate_reaction_rate
ReactionOK(reaction) ==
    /\ {"progress", "variance", "temperature"} \subseteq ToSet(Ports(reaction.inputs))
    /\ "reaction_rate" \in ToSet(Ports(reaction.outputs))
    /\ \A port \in {"progress", "variance"} : BoundTo(reaction.inputs, port).op = "field"

\* BetaFDF.__post_init__ and freeze_manifold_outputs
ManifoldOK(manifold) ==
    /\ manifold.outputs # <<>> /\ \A o \in ToSet(manifold.outputs) : o.field.op = "field"
    /\ manifold.bounds \in {"clip", "error"}

\* CouplingPolicy.__post_init__
CouplingOK(coupling) ==
    /\ coupling.stage = "outer_corrector" /\ coupling.source = "lagged"
    /\ coupling.basis \in {"volumetric_mass", "specific"}

\* ProgressVariable.__post_init__
CombustionOK(c) ==
    /\ ReactionOK(c.reaction) /\ ManifoldOK(c.manifold) /\ CouplingOK(c.coupling)
    /\ BoundTo(c.reaction.inputs, "progress") = c.manifold.progress
    /\ BoundTo(c.reaction.inputs, "variance") = c.manifold.variance

\* A manifold output is bound to one field or to the initial fields that match a
\* pattern, each under its own name.
Expanded(d, output) ==
    IF output.pattern = {} THEN <<<<output.port, output.field>>>>
    ELSE LET matches == SetToSeq(output.pattern \cap DOMAIN Fields(d))
         IN  [n \in DOMAIN matches |-> <<matches[n], Field(matches[n])>>]

\* Of the first outputs of a manifold.
ManifoldOutputs(d, count) ==
    LET outputs == The(d.combustion).manifold.outputs
    IN  Merged(<<>>, FlattenSeq([n \in 1..count |-> Expanded(d, outputs[n])]))

\* ProgressVariable.programs raises unless every field of the expansion is a
\* scalar of the case, every selection matches something and nothing that has a port
\* already; a name given later takes the port of a match.
ExpansionOK(d) ==
    LET outputs == The(d.combustion).manifold.outputs
        fields(n) == Bound(Expanded(d, outputs[n]))
        before(n) == ToSet(Ports(ManifoldOutputs(d, n - 1)))
    IN  /\ FieldsRead(d)
        /\ \A n \in DOMAIN outputs :
              /\ fields(n) # {}
              /\ \A e \in fields(n) : HasField(d, e.name) /\ Fields(d)[e.name] = "volScalarField"
              /\ outputs[n].pattern # {} => {e.name : e \in fields(n)} \cap before(n) = {}

\* A conditioning input called `progress` takes the place of the progress variable.
ManifoldProgram(d) ==
    LET c == The(d.combustion)
        m == c.manifold
    IN  [name |-> m.name, at |-> "closure", operator |-> "model", artifact |-> m.artifact,
         format |-> m.format, ports |-> m.ports,
         inputs |-> Merged(<<<<"progress", m.progress>>, <<"variance", m.variance>>>>, m.conditioning),
         outputs |-> ManifoldOutputs(d, Len(m.outputs))]

\* Longship.closure_programs and field_programs
ClosurePrograms(d) ==
    IF Given(d.combustion) THEN <<The(d.combustion).reaction, ManifoldProgram(d)>> ELSE d.closures
Programs(d) == ClosurePrograms(d) \o d.transforms
-----------------------------------------------------------------------------
(***************************************************************************)
(* What a declaration must be.                                             *)
(***************************************************************************)

\* SlurmOpenFOAM, SlurmModel and Slurm; memory is in KiB, 0 is None.
SlurmOK(s) ==
    /\ s.nodes > 0 /\ s.ntasks > 0 /\ s.cpus > 0 /\ s.ntasks % s.nodes = 0
    /\ Given(s.model) => /\ The(s.model).cpus > 0
                         /\ The(s.model).mem # 0 => s.mem # 0

\* Observe and Attached
ObserveOK(o) ==
    /\ o.interval > 0 /\ DOMAIN o.summaries # {}
    /\ \A name \in DOMAIN o.summaries :
          o.summaries[name] # {} /\ o.summaries[name] \subseteq {"min", "max", "mean", "l2"}
AttachedOK(d) == d.path \in {"auto", "shm", "uds", "ucx", "tcp"}

\* The pairs <<field, stage>> written, one for each output.
Writers(d) ==
    LET of(program) == [n \in DOMAIN program.outputs |->
                           <<program.outputs[n][2], program.at>>]
    IN  FlattenSeq([n \in DOMAIN Programs(d) |-> of(Programs(d)[n])])

\* Longship.__post_init__, with the declarations it is made of.
LongshipOK(d) ==
    /\ CaseDeclared(d) /\ (Given(d.integration) => IntegrationOK(The(d.integration))) /\ AttachedOK(d) /\ \A o \in ToSet(d.observed) : ObserveOK(o)
    /\ \A n \in DOMAIN d.closures : ClosureOK(d.closures[n])
    /\ \A n \in DOMAIN d.transforms : TransformOK(d.transforms[n])
    /\ Given(d.combustion) => d.closures = <<>> /\ CombustionOK(The(d.combustion)) /\ ExpansionOK(d)
    /\ IsInjective([n \in DOMAIN Programs(d) |-> Programs(d)[n].name])
    /\ IsInjective(Writers(d))
    /\ Given(d.slurm) => SlurmOK(The(d.slurm)) /\ The(d.slurm).ntasks = d.ranks

\* _validate_observation_fields: the initial fields that can be reduced, and
\* what a built-in adapter makes.
Observable(d) ==
    {name \in DOMAIN Fields(d) : Fields(d)[name] \in DOMAIN ClassKinds}
        \cup UNION {Contract(p.name) : p \in ToSet(ClosurePrograms(d))}

RequiredFiles == {"controlDict", "fvSchemes", "fvSolution", "constant"}

\* validate_case
CaseOK(d) ==
    LET closures == ClosurePrograms(d)
        programs == Programs(d)
    IN  /\ Given(d.combustion) => ~Given(d.integration)
        /\ ~Given(d.combustion) => Len(closures) <= 1
        /\ \A n \in DOMAIN d.transforms :
              d.transforms[n].at \notin {"outer_corrector", "pressure_corrected"}
        /\ InitialDirectory(d.source) # "none"
        /\ RequiredFiles \subseteq d.source /\ {"U", "p"} \subseteq FileNames(d)
        /\ Len(d.observed) <= 1
        /\ Given(d.observed) =>
              /\ FieldsRead(d) /\ DOMAIN The(d.observed).summaries \subseteq Observable(d)
              /\ programs # <<>>
        /\ programs # <<>> =>
              /\ \A p \in ToSet(programs) : HasArtifact(p) => p.artifact = "present"
              /\ ~Given(d.integration) /\ closures # <<>> /\ closures[1].name = "kEqnFjord"
                    => "k" \in FileNames(d)
              /\ d.path \in {"auto", "shm", "uds"}
-----------------------------------------------------------------------------
(***************************************************************************)
(* The runtime plan.                                                       *)
(***************************************************************************)

\* local_cpu_budget: what the affinity mask of this process grants.
LocalCpuBudget(d) == d.machine.cpus

\* The processors a node's host gets: an explicit model declaration of Slurm,
\* then Attached, then what this process may use, or one for each program.
HostCpus(d) ==
    LET s == The(d.slurm)
    IN  IF Given(d.slurm) /\ Given(s.model) /\ Programs(d) # <<>> THEN The(s.model).cpus
        ELSE IF d.hostCpus # 0 THEN d.hostCpus
        ELSE IF Given(d.slurm) THEN Max({1, Len(Programs(d))}) ELSE LocalCpuBudget(d)

\* compile_runtime_plan and plan_longship; without a program there is no host.
RuntimePlan(d) ==
    LET nodes == IF Given(d.slurm) THEN The(d.slurm).nodes ELSE 1
        tasks == IF Given(d.slurm) THEN The(d.slurm).ntasks ELSE d.ranks
        cpus == IF Given(d.slurm) THEN The(d.slurm).cpus ELSE 1
        hosted == Programs(d) # <<>>
        hostCpus == IF hosted THEN HostCpus(d) ELSE 0
    IN  [nodes |-> nodes, tasks |-> tasks, tasksPerNode |-> tasks \div nodes, cpusPerTask |-> cpus,
         hostTasks |-> IF hosted THEN nodes ELSE 0, hostCpus |-> hostCpus,
         allocationCpus |-> (tasks \div nodes) * cpus + hostCpus]

\* _host_group_command: an even share, one more for the first remainder ones.
ThreadBudgets(d) ==
    LET cpus == RuntimePlan(d).hostCpus
        count == Len(Programs(d))
    IN  [n \in 1..count |-> cpus \div count + IF n <= cpus % count THEN 1 ELSE 0]

\* The executable of a host, by the format of its artifact.
Formats == {"onnx", "compiled", "joblib", "equinox"}
HostExecutable(d, program) ==
    IF program.format = "onnx" THEN d.machine.worker ELSE program.format \in Formats

\* _host_group_command and _host_command raise unless every host has a thread,
\* and its artifact has the program's ports in the program's order.
HostsOK(d) ==
    /\ RuntimePlan(d).hostCpus >= Len(Programs(d))
    /\ \A p \in ToSet(Programs(d)) :
          /\ HasArtifact(p) => p.ports = <<Ports(p.inputs), Ports(p.outputs)>>
          /\ HostExecutable(d, p)

\* The readiness files the supervisor waits for: the host's own, or the one of
\* the group; one for each node once there are several (node_host's suffix).
ReadyFiles(d) ==
    LET name == IF Len(Programs(d)) = 1 THEN Programs(d)[1].name ELSE "programs"
        nodes == RuntimePlan(d).nodes
    IN  IF Programs(d) = <<>> THEN {}
        ELSE IF nodes < 2 THEN {<<name>>} ELSE {<<name, node>> : node \in 0..nodes - 1}

\* _ready_path and _rewrite_ready_files: the suffix is the node's, or empty.
Suffixed(plan, name, node) == IF plan.nodes >= 2 THEN <<name, node>> ELSE <<name>>

\* The files that appear: node_host appends its node to the command's argument
\* and to the environment of a group, _node_index being SLURM_PROCID.
WrittenReady(d) ==
    LET plan == RuntimePlan(d)
        name == IF Len(Programs(d)) > 1 THEN "programs" ELSE Programs(d)[1].name
    IN  {Suffixed(plan, name, host) : host \in 0..plan.hostTasks - 1}
-----------------------------------------------------------------------------
(***************************************************************************)
(* Slurm.                                                                  *)
(***************************************************************************)
Mebibyte == 1024
ShmPerRankProgram == 32 * Mebibyte
Ceiling(value, unit) == (value + unit - 1) \div unit

\* resource_values: what is shown to the user, totals over all nodes in KiB.
ResourceValues(d) ==
    LET s == The(d.slurm)
        count == Len(Programs(d))
        modelCpus == IF count = 0 THEN 0
                     ELSE s.nodes * (IF Given(s.model) THEN The(s.model).cpus
                                     ELSE IF d.hostCpus # 0 THEN d.hostCpus ELSE Max({1, count}))
        modelMem == IF Given(s.model) /\ The(s.model).mem # 0 THEN The(s.model).mem ELSE s.mem
        shm == IF d.path \in {"auto", "shm"} THEN ShmPerRankProgram * s.ntasks * count ELSE 0
        separate == Given(s.model) /\ The(s.model).mem # 0
    IN  [cpus |-> s.ntasks * s.cpus + modelCpus,
         memory |-> s.mem * s.ntasks * s.cpus + modelMem * modelCpus
                    + (IF separate THEN shm ELSE 0)]

\* write_batch: --mem-per-cpu in KiB, or --mem in whole MiB; 0 is no directive.
BatchMemory(d) ==
    LET s == The(d.slurm)
        m == The(s.model)
        perNode == s.ntasks \div s.nodes
        shm == IF d.path \in {"auto", "shm"} THEN ShmPerRankProgram * perNode * Len(Programs(d)) ELSE 0
    IN  IF Programs(d) = <<>> \/ ~Given(s.model) \/ m.mem = 0
        THEN [perCpu |-> s.mem, perNode |-> 0]
        ELSE [perCpu |-> 0,
              perNode |-> Ceiling(s.mem * perNode * s.cpus + m.mem * m.cpus + shm, Mebibyte)]

\* The rest of the batch: the allocation, and the two steps that share it.
Batch(d) ==
    LET plan == RuntimePlan(d)
    IN  [tasks |-> plan.allocationCpus * plan.nodes,
         solver |-> [tasks |-> The(d.slurm).ntasks, perNode |-> plan.tasksPerNode,
                     cpus |-> The(d.slurm).cpus],
         host |-> [tasks |-> plan.hostTasks, cpus |-> plan.hostCpus]]
-----------------------------------------------------------------------------
(***************************************************************************)
(* The solver's command.                                                   *)
(***************************************************************************)

\* discover_mpi_policy: an override, the recorded profile, what macOS offers
\* beside the application's wrapper, or nothing.
MpiPolicy(d) ==
    LET machine == d.machine
        mac == machine.darwin /\ Wrapper(d)
    IN  CASE machine.override = "missing" -> [launcher |-> "error", isolate |-> FALSE]
          [] machine.override = "executable" -> [launcher |-> "override", isolate |-> mac]
          [] machine.override = "unset" /\ machine.profile # "none" ->
                [launcher |-> "profile", isolate |-> machine.profile = "isolated"]
          [] machine.override = "unset" /\ machine.profile = "none" /\ mac /\ machine.mpirun ->
                [launcher |-> "found", isolate |-> TRUE]
          [] OTHER -> [launcher |-> "none", isolate |-> FALSE]

\* _solver_command: under Slurm srun starts the ranks; a parallel run on this
\* machine is started by the policy's launcher or by mpirun.
SolverCommand(d) ==
    LET parallel == d.ranks > 1
        policy == MpiPolicy(d)
    IN  [parallel |-> parallel,
         launcher |-> IF Given(d.slurm) \/ ~parallel THEN "direct"
                      ELSE IF policy.launcher = "none" THEN "mpirun" ELSE policy.launcher,
         ranks |-> IF Given(d.slurm) \/ ~parallel THEN 1 ELSE d.ranks,
         isolated |-> ~Given(d.slurm) /\ parallel /\ policy.isolate /\ policy.launcher # "none",
         library |-> Programs(d) # <<>>]

\* Processes of the solver, whoever starts them.
SolverProcesses(d) ==
    SolverCommand(d).ranks * (IF Given(d.slurm) THEN Batch(d).solver.tasks ELSE 1)

\* _longship_executable: the first candidate, an override before the runtimes and
\* the package, that is executable and in no directory private to a container.
LongshipFound(machine) == \E n \in DOMAIN machine.longship : machine.longship[n] = "executable"

\* launch, after the case is prepared: commands that must be there.
CommandsOK(d) ==
    /\ SolverCommand(d).launcher # "error"
    /\ Programs(d) # <<>> => HostsOK(d) /\ LongshipFound(d.machine)
    /\ Given(d.slurm) => d.machine.slurm

\* The ranks whose observation files are waited for.
ObservationSources(d) == IF Given(d.observed) THEN d.ranks ELSE 0
=============================================================================
