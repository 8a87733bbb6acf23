-------------------------- MODULE CasePreparation ---------------------------
(***************************************************************************)
(* From a declaration to a run directory that can be started: Longship is  *)
(* constructed, launch validates it, and prepare_case makes the directory, *)
(* copies the source case, packages the functions, writes the dictionaries *)
(* and runs the OpenFOAM tools (execution/case.py, execution/launch.py).   *)
(* What raises after the directory was made leaves it there; of the tools  *)
(* only the last ones are heard when they fail.                            *)
(* The notebook may call Case.initialize in between, which changes a Case  *)
(* that a Longship was already checked against.                            *)
(***************************************************************************)
EXTENDS LaunchPlan, Workspace

CONSTANT Declarations  \* bound: the declarations somebody writes

\* The programs of a declaration are lists, and its ranks a number, maybe a wrong one.
ASSUME DeclarationsAssumption ==
    \A d \in Declarations :
        /\ {"closures", "transforms", "ranks"} \subseteq DOMAIN d
        /\ d.closures \in Seq(ToSet(d.closures)) /\ d.transforms \in Seq(ToSet(d.transforms))
        /\ d.ranks \in Int

VARIABLES
    declaration, \* the Longship, with the Case it refers to
    phase,       \* how far its launch is
    renumbered,  \* history: initialize changed the ranks of a checked Case
    case         \* what <run>/case and <run>/.foamnordic hold

preparationVars == <<declaration, phase, renumbered, case>>

PreparationSteps == {"marking", "copy", "package", "render", "transforms", "mesh", "tools",
                     "processors", "commands"}
Phases == {"declared", "constructed", "refused", "failed", "ready", "launched"} \cup PreparationSteps

EmptyCase ==
    [initial |-> "none", artifacts |-> <<>>, sockets |-> {}, dictionary |-> "none",
     transport |-> FALSE, exchanges |-> <<>>, tools |-> {}, subdomains |-> 0, coefficients |-> 0,
     processors |-> 0]

PreparationTypeOK ==
    /\ phase \in Phases /\ renumbered \in BOOLEAN
    /\ DOMAIN case = DOMAIN EmptyCase
    /\ case.initial \in {"none", "0", "0.orig"} /\ case.processors \in Nat /\ case.subdomains \in Nat
    /\ Len(case.artifacts) <= Len(Programs(declaration)) /\ case.sockets \subseteq Nat

PreparationInit ==
    /\ declaration \in Declarations
    /\ phase = "declared" /\ renumbered = FALSE /\ case = EmptyCase

Advance(here, next) == phase = here /\ phase' = next
Unfailing(condition, here, next) == Advance(here, IF condition THEN next ELSE "failed")
Owned == UNCHANGED <<declaration, renumbered, root>>
-----------------------------------------------------------------------------
(***************************************************************************)
(* Before there is a directory.                                            *)
(***************************************************************************)

\* Longship(...)
Construct ==
    /\ Advance("declared", IF LongshipOK(declaration) THEN "constructed" ELSE "refused")
    /\ UNCHANGED <<declaration, renumbered, case, root>>

\* Case.initialize on the Case of a Longship that exists.
Initialize(ranks, mesh, validate) ==
    /\ phase = "constructed"
    /\ declaration' = [declaration EXCEPT !.ranks = ranks, !.mesh = mesh, !.validate = validate]
    /\ renumbered' = (renumbered \/ ranks # declaration.ranks)
    /\ UNCHANGED <<phase, case, root>>

\* launch up to the mkdir of prepare_case: validate_case, compile, the library.
Launch ==
    LET d == declaration
    IN  /\ \/ /\ CaseOK(d) /\ (Programs(d) # <<>> => d.machine.library) /\ ~Exists(Prepared)
              /\ Advance("constructed", "marking") /\ root' = [root EXCEPT ![Prepared] = Unmarked]
           \/ /\ ~CaseOK(d) \/ (Programs(d) # <<>> /\ ~d.machine.library)
              /\ Advance("constructed", "refused") /\ UNCHANGED root
        /\ UNCHANGED <<declaration, renumbered, case>>

\* mark_generated, which comes before anything else is written.
Mark ==
    /\ Advance("marking", "copy") /\ root' = MarkGenerated(Prepared)
    /\ UNCHANGED <<declaration, renumbered, case>>
-----------------------------------------------------------------------------
(***************************************************************************)
(* prepare_case.                                                           *)
(***************************************************************************)

\* A system call fails or the notebook is interrupted, at any step: what was
\* written by then stays.
Break ==
    /\ phase \in PreparationSteps /\ phase' = "failed"
    /\ UNCHANGED case /\ Owned

\* copytree, and 0.orig copied to 0 when there is none.  A run_dir inside of case_dir
\* is copied into itself until a path is too long.
CopyCase ==
    /\ Unfailing(declaration.place # "inside", "copy", "package")
    /\ case' = [case EXCEPT !.initial = InitialDirectory(declaration.source)]
    /\ Owned

\* A function's inputs and outputs all have a layout.
FunctionOK(d, program) ==
    /\ FieldsRead(d)
    /\ \A e \in Bound(program.inputs) : Kind(Fields(d), e) \in Kinds
    /\ \A e \in Bound(program.outputs) : OutputKind(Fields(d), program.name, e) \in Kinds

\* _package_function: the manifest it writes, from the layouts.
Manifest(d, program) ==
    [inputs |-> [n \in DOMAIN program.inputs |-> Width[Kind(Fields(d), program.inputs[n][2])]],
     outputs |-> [n \in DOMAIN program.outputs |->
                     Width[OutputKind(Fields(d), program.name, program.outputs[n][2])]]]

\* _socket_path: FOAMNORDIC_SOCKET_DIR, the run and the program's index; it must fit
\* a socket address.
SocketFits(d) == d.machine.socketDir

\* _function_evaluator, of the package a host is given: ports, and a width for each.
Accepted(program, manifest) ==
    /\ program.inputs # <<>> /\ program.outputs # <<>>
    /\ Len(manifest.inputs) = Len(program.inputs) /\ Len(manifest.outputs) = Len(program.outputs)
    /\ \A n \in DOMAIN manifest.inputs : manifest.inputs[n] > 0

\* The next program: closures first, then transforms.
PackageProgram ==
    LET d == declaration
        n == Len(case.artifacts) + 1
        program == Programs(d)[n]
    IN  /\ phase = "package" /\ n <= Len(Programs(d))
        /\ IF SocketFits(d) /\ (program.operator = "function" => FunctionOK(d, program))
           THEN /\ case' = [case EXCEPT
                      !.artifacts = Append(@, IF program.operator = "function"
                                              THEN Manifest(d, program) ELSE <<>>),
                      !.sockets = @ \cup {n - 1}]
                /\ UNCHANGED phase
           ELSE phase' = "failed" /\ UNCHANGED case
        /\ Owned

Packaged ==
    /\ Advance("package", "render") /\ Len(case.artifacts) = Len(Programs(declaration))
    /\ UNCHANGED case /\ Owned

\* Placeholders an integration template must have, and none may be left over.
TemplateOK(d, closure) ==
    LET placeholders == The(d.integration).placeholders
        mapped == \E n \in DOMAIN closure.outputs :
                     closure.outputs[n][1] # closure.outputs[n][2].name
    IN  /\ Given(d.observed) => "FOAMNORDIC_OBSERVATION_BLOCK" \in placeholders
        /\ mapped => "FOAMNORDIC_OUTPUT_KEYS" \in placeholders
        /\ placeholders \subseteq The(d.integration).variables

\* render_combustion_dictionary and render_combustion_transport_dictionary look
\* the fields of the reaction rate up.
CombustionFieldsOK(d) ==
    LET reaction == The(d.combustion).reaction
        scalar(port, bindings) ==
            \A n \in DOMAIN bindings : bindings[n][1] = port =>
                LET name == bindings[n][2].name
                IN  HasField(d, name) /\ Fields(d)[name] = "volScalarField"
    IN  /\ scalar("progress", reaction.inputs) /\ scalar("reaction_rate", reaction.outputs)
        /\ "progressVariableTransportProperties" \notin d.source => scalar("variance", reaction.inputs)

\* EXECUTE_CONTROL and WRITE_CONTROL: the methods that are called once in a step.
Methods(stage) ==
    (IF stage = "time_step_start" THEN {"execute"} ELSE {})
        \cup (IF stage = "time_step_end" THEN {"write"} ELSE {})

\* _observation_block, of the fields and the cadence; it is the same for every
\* reduction.
ObservationBlock(d) ==
    LET o == The(d.observed) IN [fields |-> DOMAIN o.summaries, every |-> o.interval]

\* _closure_values and _closure_body: one exchange of a dictionary, which the model
\* of the solver that the dictionary is for makes.
Exchange(d, n, observes) ==
    LET program == Programs(d)[n]
    IN  [socket |-> n - 1, shared |-> d.path # "uds",
         keys |-> <<Ports(program.inputs), Ports(program.outputs)>>,
         calls |-> {"closure"},
         observation |-> IF observes THEN <<ObservationBlock(d)>> ELSE <<>>]

\* render_transform_dictionary: a function object's methods make it.
TransformExchange(d, n, observes) ==
    [Exchange(d, n, observes) EXCEPT !.calls = Methods(Programs(d)[n].at)]

\* The templates are found in the package or in the source tree.
TemplateFound(d) == d.machine.templates

\* The closure's dictionary, with the observation block in the only closure or in
\* the manifold's, the second one of combustion.
RenderClosures ==
    LET d == declaration
        closures == ClosurePrograms(d)
        combustion == Given(d.combustion)
        fine == IF closures = <<>> THEN TRUE
                ELSE IF combustion THEN TemplateFound(d) /\ CombustionFieldsOK(d)
                ELSE IF Given(d.integration)
                THEN TemplateOK(d, closures[1]) /\ (Given(d.observed) => TemplateFound(d))
                ELSE TemplateFound(d)
    IN  /\ Unfailing(fine, "render", "transforms")
        /\ IF closures = <<>> \/ ~fine THEN UNCHANGED case
           ELSE case' = [case EXCEPT
                   !.dictionary = IF combustion THEN "combustionProperties"
                                  ELSE IF Given(d.integration) THEN "custom" ELSE "turbulenceProperties",
                   !.transport = combustion,
                   !.exchanges = [n \in DOMAIN closures |->
                                     Exchange(d, n, Given(d.observed) /\ n = Len(closures))]]
        /\ Owned

\* The transform that carries the observation when there is no closure: the last
\* one by stage, then by position.
Observer(transforms) ==
    CHOOSE n \in DOMAIN transforms : \A m \in DOMAIN transforms :
        LET stage(k) == StageOrder(transforms[k].at)
        IN  stage(m) < stage(n) \/ (stage(m) = stage(n) /\ m <= n)

\* The transforms' dictionaries are rendered; tools put them in place later.
RenderTransforms ==
    LET d == declaration
        closures == Len(ClosurePrograms(d))
        observes(n) == Given(d.observed) /\ closures = 0 /\ n = Observer(d.transforms)
        fine == d.transforms = <<>> \/ TemplateFound(d)
    IN  /\ Unfailing(fine, "transforms", "mesh")
        /\ case' = IF ~fine THEN case
                   ELSE [case EXCEPT !.exchanges =
                            @ \o [n \in DOMAIN d.transforms |-> TransformExchange(d, closures + n, observes(n))]]
        /\ Owned

\* _has_poly_mesh: all five files of a mesh, each of which may be compressed.
HasPolyMesh(d) == "polyMesh" \in d.source

\* _mesh_commands: what blockMesh needs, or a mesh that is there.
MeshCommands ==
    /\ Unfailing(IF declaration.mesh = "blockMesh" THEN "blockMeshDict" \in declaration.source
                 ELSE HasPolyMesh(declaration), "mesh", "tools")
    /\ UNCHANGED case /\ Owned

SchemeSections == [grad |-> "gradSchemes", curl |-> "gradSchemes", div |-> "divSchemes",
                   laplacian |-> "laplacianSchemes"]

\* _scheme_requirements: <<section, expression>> for every operation below an
\* input of a program.
SchemeRequirements(d) ==
    LET nodes == UNION {UNION {Nodes(e) : e \in Bound(p.inputs)} : p \in ToSet(Programs(d))}
    IN  {<<SchemeSections[e.op], e>> : e \in {x \in nodes : x.op \in DOMAIN SchemeSections}}

\* _scheme_commands: added unless the source has the exact entry or a default.  A
\* section that fvSchemes does not have gets no scheme either.
AddedSchemes(d) ==
    {r \in SchemeRequirements(d) : /\ r \notin d.schemes.exact /\ r[1] \notin d.schemes.defaults
                                   /\ r[1] \in d.schemes.sections}

\* _decomposition_subdomains and _prepare_decomposition: a policy for as many ranks
\* is kept with its coefficients, any other is replaced by one that has none.
KeepsDecomposition(d) == Given(d.decomposition) /\ The(d.decomposition).read = d.ranks
Coefficients(d) == IF KeepsDecomposition(d) THEN The(d.decomposition).coefficients ELSE 0

\* The commands of the tools.  Setting the library keeps those that are listed already,
\* if the list of commands before it came as far as reading them.
Mesh == <<"blockMesh", "">>
Check == <<"checkMesh", "">>
Application == <<"application", "">>
FunctionEntry(transform) == <<"function", transform.name>>
Scheme(requirement) == <<"scheme", requirement>>
Library == <<"library", "">>
Subdomains == <<"subdomains", "">>
Decompose == <<"decomposePar", "">>

\* The shell runs them as one line without set -e, joined with &&, but a transform's
\* command and the library's have a `;` of their own: there one list of && ends and
\* the next begins, whatever became of the first.  Commands of one set do not stop
\* each other: what becomes of a scheme is lost in its if.
Opening(d) ==
    (IF d.mesh = "blockMesh" THEN <<{Mesh}>> ELSE <<>>)
        \o (IF d.validate THEN <<{Check}>> ELSE <<>>) \o <<{Application}>>
BeforeLibrary(d) ==
    LET lists == <<Opening(d)>> \o [n \in DOMAIN d.transforms |-> <<{FunctionEntry(d.transforms[n])}>>]
    IN  [lists EXCEPT ![Len(lists)] = @ \o <<{Scheme(r) : r \in AddedSchemes(d)}>>]
Decomposition(d) == IF d.ranks > 1 THEN <<{Subdomains}, {Decompose}>> ELSE <<>>

\* Mutant of AndLists: a `;` before the decomposition as well.
DecomposesApart(d) ==
    (IF Programs(d) = <<>> THEN <<Opening(d)>> ELSE BeforeLibrary(d) \o <<<<{Library}>>>>)
        \o (IF d.ranks > 1 THEN <<Decomposition(d)>> ELSE <<>>)

AndLists(d) ==
    IF Programs(d) = <<>> THEN <<Opening(d) \o Decomposition(d)>>
    ELSE BeforeLibrary(d) \o <<<<{Library}>> \o Decomposition(d)>>

CommandsOf(list) == UNION ToSet(list)
CommandsOfAll(lists) == UNION {CommandsOf(list) : list \in ToSet(lists)}
ToolCommands(d) == CommandsOfAll(AndLists(d))

\* What may have succeeded of a list, of which nothing comes after a failed command;
\* and of all: decomposePar has a mesh, the one made now or the source's.
Outcomes(list) ==
    UNION {{CommandsOf(SubSeq(list, 1, n - 1)) \cup part : part \in SUBSET list[n]} : n \in DOMAIN list}
ToolOutcomes(d) ==
    {done \in FoldSeq(LAMBDA list, rest : {a \cup b : a \in Outcomes(list), b \in rest}, {{}}, AndLists(d)) :
        Decompose \in done => Mesh \in done \/ HasPolyMesh(d)}

\* Before the tools the table of the schemes is read, in any launch, and the
\* decomposition's template, when there is no policy to be kept.
ToolsReady(d) == TemplateFound(d)

\* The policy is written, then the tools run.  The status that is looked at is the
\* one of the last list: when a command of it fails the preparation does, and when
\* one of another list fails the launch goes on without what that list had left.
RunTools ==
    LET d == declaration
        parallel == d.ranks > 1
        heard == CommandsOf(Last(AndLists(d)))
        prepared == [case EXCEPT !.coefficients = IF parallel THEN Coefficients(d) ELSE 0,
                                 !.subdomains = IF parallel THEN d.ranks ELSE @]
    IN  /\ \/ /\ ToolsReady(d)
              /\ \E done \in ToolOutcomes(d), parts \in IF parallel THEN {d.ranks, 0} ELSE {0} :
                    /\ Advance("tools", IF ~(heard \subseteq done) THEN "failed"
                                        ELSE IF parallel THEN "processors" ELSE "commands")
                    /\ Decompose \notin done => parts = 0
                    /\ case' = [prepared EXCEPT !.tools = done, !.processors = parts]
           \/ ~ToolsReady(d) /\ Advance("tools", "failed") /\ UNCHANGED case
        /\ Owned

\* The processor directories must be those of the ranks; a collated layout has
\* none of that name.
CheckProcessors ==
    /\ Unfailing(case.processors = declaration.ranks, "processors", "commands")
    /\ UNCHANGED case /\ Owned

\* launch, from the solver's command to the batch and its wrapper.
FormCommands ==
    /\ Unfailing(CommandsOK(declaration), "commands", "ready")
    /\ UNCHANGED case /\ Owned

Prepare ==
    \/ Construct \/ Launch \/ Mark \/ CopyCase \/ PackageProgram \/ Packaged \/ RenderClosures
    \/ RenderTransforms \/ MeshCommands \/ RunTools \/ CheckProcessors \/ FormCommands \/ Break
-----------------------------------------------------------------------------
(***************************************************************************)
(* What a launch may rely on.                                              *)
(***************************************************************************)

BudgetsFit(budgets, cpus) ==
    /\ \A n \in DOMAIN budgets : budgets[n] >= 1
    /\ FoldFunction(+, 0, budgets) = cpus
BatchFits(batch, shown, memory, nodes) ==
    /\ batch.solver.tasks * batch.solver.cpus + batch.host.tasks * batch.host.cpus = batch.tasks
    /\ batch.tasks = shown.cpus
    /\ IF memory.perNode = 0 THEN memory.perCpu * batch.tasks = shown.memory
       ELSE LET total == nodes * memory.perNode * Mebibyte
            IN  shown.memory <= total /\ total < shown.memory + nodes * Mebibyte

\* The hosts' threads are all of the host's processors, and every program has
\* one; the two steps of a Slurm job fill its allocation exactly; the resources
\* shown are those requested, up to the rounding of a node's memory to MiB; the
\* supervisor waits for exactly the readiness files that are written.
PlanIsSound ==
    LET d == declaration
    IN  phase = "ready" =>
            /\ Programs(d) # <<>> =>
                  BudgetsFit(ThreadBudgets(d), RuntimePlan(d).hostCpus) /\ ReadyFiles(d) = WrittenReady(d)
            /\ Given(d.slurm) =>
                  BatchFits(Batch(d), ResourceValues(d), BatchMemory(d), RuntimePlan(d).nodes)

\* The prepared case is the one the solver and the hosts are started for: as many
\* parts as processes unless the Case was changed behind its Longship; sockets of
\* their own; one observation, in the last closure or without closures after the last
\* transform of a step; no two programs of one stage writing one field; functions
\* packaged so that a host takes them, for the widths the solver sends; each program's
\* exchange made once in a step, over its own host's socket and with the ports of its
\* artifact; coefficients of the decomposition that fit the ranks.  A launch without
\* programs has all that its tools should make, any other at least the library and in
\* parallel a mesh and its parts; but the mesh of a serial case, the application, the
\* transforms' entries and the schemes are there only as far as no tool failed.  Until
\* it is started its directory is one `clobber` knows, whatever has failed since the
\* copy.
CaseIsSound ==
    LET d == declaration
        programs == Programs(d)
        observers == {n \in DOMAIN case.exchanges : case.exchanges[n].observation # <<>>}
        last == \A n \in observers : \A m \in DOMAIN programs :
                   \/ ClosurePrograms(d) # <<>> /\ n = Len(ClosurePrograms(d))
                   \/ StageOrder(programs[m].at) < StageOrder(programs[n].at)
                   \/ programs[m].at = programs[n].at /\ m <= n
        missed == ToolCommands(d) \ case.tools
        hasScheme(r) == \/ r[1] \in d.schemes.defaults \/ r[1] \notin d.schemes.sections
                        \/ r \in d.schemes.exact \/ Scheme(r) \in case.tools
        needed == {<<SchemeSections[e.op], e>> :
                      e \in {x \in UNION {Nodes(y) : y \in UNION {Bound(p.inputs) : p \in ToSet(programs)}} :
                                x.op \in DOMAIN SchemeSections}}
    IN
    /\ phase \in {"failed", "ready"} /\ case # EmptyCase => Generated(Prepared)
    /\ phase = "ready" =>
        /\ d.ranks > 1 => case.processors = d.ranks /\ SolverCommand(d).parallel
        /\ renumbered \/ SolverProcesses(d) = d.ranks
        /\ d.ranks > 1 => case.coefficients \in {0, d.ranks}
        /\ Cardinality(case.sockets) = Len(programs) /\ Len(case.artifacts) = Len(programs)
        /\ Len(case.exchanges) = Len(programs)
        /\ \A n \in DOMAIN programs :
              /\ case.exchanges[n].socket \in case.sockets /\ Cardinality(case.exchanges[n].calls) = 1
              /\ HasArtifact(programs[n]) => case.exchanges[n].keys = programs[n].ports
        /\ Cardinality(observers) = (IF Given(d.observed) THEN 1 ELSE 0) /\ last
        /\ \A n, m \in DOMAIN programs : n # m /\ programs[n].at = programs[m].at =>
              Bound(programs[n].outputs) \cap Bound(programs[m].outputs) = {}
        /\ \A n \in DOMAIN programs : programs[n].operator = "function" =>
              /\ Accepted(programs[n], case.artifacts[n])
              /\ \A k \in DOMAIN programs[n].inputs :
                    case.artifacts[n].inputs[k] = TensorWidth(Fields(d), programs[n].inputs[k][2])
              /\ \A k \in DOMAIN programs[n].outputs :
                    case.artifacts[n].outputs[k] = TensorWidth(Fields(d), programs[n].outputs[k][2])
        /\ Mesh \in case.tools \/ HasPolyMesh(d) \/ (d.ranks = 1 /\ programs # <<>>)
        /\ programs # <<>> => Library \in case.tools
        /\ missed \subseteq (IF programs = <<>> THEN {} ELSE {Mesh, Check, Application}
                                \cup {FunctionEntry(t) : t \in ToSet(d.transforms)} \cup {Scheme(r) : r \in needed})
        /\ missed = {} => \A r \in needed : hasScheme(r)
=============================================================================
