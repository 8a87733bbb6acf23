----------------------------- MODULE MCPythonRun -----------------------------
\* A small instance of PythonRun: the declarations somebody writes, and which of
\* the actors are followed together.
EXTENDS PythonRun

-----------------------------------------------------------------------------
\* Declarations.

File(name, class) == [file |-> name, object |-> name, class |-> class]
Initial ==
    <<File("G", "volTensorField"), File("R", "volSymmTensorField"), File("S", "volSphericalTensorField"),
      File("U", "volVectorField"), File("k", "volScalarField"), File("notes", "other"), File("nut", "volScalarField"),
      File("p", "volScalarField"), File("phi", "surfaceScalarField")>>
Schedule(names, interval, reductions) == [summaries |-> [n \in names |-> reductions], interval |-> interval]
Watch(names) == Schedule(names, 2, {"min", "l2"})

Machine ==
    [cpus |-> 2, worker |-> TRUE, library |-> TRUE, longship |-> <<"executable">>, slurm |-> TRUE,
     socketDir |-> TRUE, templates |-> TRUE, override |-> "unset", profile |-> "none", darwin |-> FALSE,
     mpirun |-> TRUE]

Function(name, stage, inputs, outputs) ==
    [name |-> name, at |-> stage, operator |-> "function", artifact |-> "none", format |-> "joblib",
     ports |-> <<<<>>, <<>>>>, inputs |-> inputs, outputs |-> outputs]

Artifact(name, kind, inputs, outputs) ==
    [name |-> name, at |-> "closure", operator |-> "model", artifact |-> "present", format |-> kind,
     ports |-> <<Ports(inputs), Ports(outputs)>>, inputs |-> inputs, outputs |-> outputs]

Into(name) == <<<<name, Field(name)>>>>
Grad(e) == Apply("grad", <<e>>)
Op(op, e) == Apply(op, <<e>>)

KEqn == Artifact("kEqnFjord", "onnx", <<<<"k", Field("k")>>, <<"shear", Op("mag", Grad(Field("U")))>>>>, Into("nut"))
Filter == Function("filter", "time_step_end", Into("U"), Into("R"))
Forcing == Function("forcing", "time_step_start", Into("k"), Into("k"))

Base ==
    [closures |-> <<KEqn>>, transforms |-> <<>>, combustion |-> <<>>, observed |-> <<>>,
     slurm |-> <<>>, hostCpus |-> 0, path |-> "auto", place |-> "apart", command |-> "module", shell |-> "bash",
     ranks |-> 1, mesh |-> "blockMesh", validate |-> FALSE, application |-> "pimpleFoam",
     integration |-> <<>>, files |-> Initial, source |-> RequiredFiles \cup {"0", "blockMeshDict"},
     decomposition |-> <<>>, machine |-> Machine,
     schemes |-> [exact |-> {}, defaults |-> {"divSchemes"}, sections |-> {"gradSchemes", "divSchemes"}]]

Allocation(nodes, ntasks, mem, model) ==
    <<[nodes |-> nodes, ntasks |-> ntasks, cpus |-> 2, mem |-> mem, model |-> model]>>
HostShare(cpus, mem) == <<[cpus |-> cpus, mem |-> mem]>>

\* Programs, processors, memory and ranks.
Sized ==
    {[Base EXCEPT !.closures = c, !.transforms = t, !.slurm = s, !.hostCpus = n, !.path = p,
                  !.ranks = IF Given(s) THEN The(s).ntasks ELSE r] :
        c \in {<<>>, <<KEqn>>}, t \in {<<>>, <<Filter>>, <<Forcing, Filter>>},
        s \in {<<>>, Allocation(1, 2, 100, <<>>), Allocation(2, 4, 1000, HostShare(3, 0)),
               Allocation(2, 2, 5000, HostShare(5, 777)), Allocation(2, 4, 0, HostShare(2, 777))},
        n \in {0, 3}, p \in {"auto", "uds", "tcp"}, r \in {1, 2}}

\* Expressions a function may be given as a closure, and fields it may write.
Terms == {Field("U"), Field("R"), Field("G"), Field("p"), Field("S"), Field("x"), Field("phi"),
          Field("none"), Component("U", "y"), Component("p", "x"), Delta}
Derivatives == {Op(op, e) : op \in {"grad", "div", "laplacian", "curl", "mag", "symm", "dev"}, e \in Terms}
Products == {Apply(op, <<a, b>>) : op \in {"dot", "ddot", "div"}, a \in {Field("U"), Field("G"), Field("R")},
                                   b \in {Field("U"), Field("G"), Field("p")}}
Nested == {Op("symm", Grad(Field("U"))), Op("div", Grad(Field("U"))), Op("mag", Op("curl", Field("U"))),
           Apply("dot", <<Grad(Field("U")), Field("U")>>)}
Typed ==
    {[Base EXCEPT !.closures = <<Function("f", "closure", <<<<"a", Field("U")>>, <<"b", e>>>>, Into(o))>>] :
        e \in Terms \cup Derivatives \cup Products \cup Nested, o \in {"nut", "R", "S"}}

\* Who writes what and when, and who reports it.
Scheduled ==
    {[Base EXCEPT !.closures = c, !.observed = o,
                  !.transforms = <<Function("a", s[1], Into("U"), Into("k")), Function(n[1], s[2], Into("U"), Into(n[2]))>>] :
        c \in {<<>>, <<KEqn>>}, o \in {<<>>, <<Watch({"U", "nut"})>>, <<Watch({"phi"})>>, <<Watch({"U"}), Watch({"p"})>>},
        n \in {<<"a", "k">>, <<"b", "k">>, <<"b", "p">>}, s \in {Stages[1], Stages[2], Stages[4]} \X {Stages[1], Stages[4]}}

\* What the machine and the source case lack.
Lacking ==
    {[Base EXCEPT !.machine[what] = FALSE, !.slurm = s, !.ranks = 2] :
        what \in {"worker", "library", "slurm", "socketDir", "templates"}, s \in {<<>>, Allocation(1, 2, 100, <<>>)}}
    \cup {[Base EXCEPT !.ranks = r, !.command = IF m THEN "openfoam" ELSE "statement", !.machine =
              [Machine EXCEPT !.override = o, !.profile = p, !.darwin = m, !.mpirun = f]] :
             r \in {1, 2}, o \in {"unset", "missing", "executable"}, p \in {"none", "isolated"}, m \in BOOLEAN,
             f \in BOOLEAN}
    \cup {[Base EXCEPT !.source = @ \ {file}, !.mesh = m] :
             file \in RequiredFiles \cup {"0", "blockMeshDict"}, m \in {"blockMesh", "existing"}}
    \cup {[Base EXCEPT !.source = @ \cup {"polyMesh", "0.orig"}, !.mesh = "existing",
                       !.schemes = [exact |-> {<<"gradSchemes", Grad(Field("U"))>>}, defaults |-> {},
                                    sections |-> {"gradSchemes"}]]}
    \cup {[Base EXCEPT !.integration = <<[destination |-> w, placeholders |-> p, variables |-> v]>>, !.observed = o] :
             w \in {"inside", "outside"},
             p \in {{}, {"FOAMNORDIC_OBSERVATION_BLOCK"}, {"FOAMNORDIC_OBSERVATION_BLOCK", "other"}},
             v \in {{"FOAMNORDIC_OBSERVATION_BLOCK"}}, o \in {<<>>, <<Watch({"nut"})>>}}
    \cup {[Base EXCEPT !.closures = <<[KEqn EXCEPT !.artifact = a, !.ports = p, !.format = f]>>,
                       !.files = SelectSeq(Initial, LAMBDA file : file.file \notin g)] :
             a \in {"present", "missing"}, p \in {KEqn.ports, <<<<"shear", "k">>, <<"nut">>>>},
             f \in {"onnx", "torch"}, g \in {{}, {"k"}}}
    \cup {[Base EXCEPT !.closures = c] :
             c \in {<<KEqn, Artifact("second", "joblib", Into("U"), Into("k"))>>,
                    <<Artifact("kEqnFjord", "joblib", <<>>, Into("nut"))>>,
                    <<Artifact("kEqnFjord", "joblib", Into("k"), <<<<"nut", Grad(Field("k"))>>>>)>>}}
    \cup {[Base EXCEPT !.machine.longship = l, !.transforms = t] :
             l \in {<<"absent">>, <<"private", "absent">>, <<"private", "executable">>}, t \in {<<>>, <<Filter>>}}
    \cup {[Base EXCEPT !.place = p, !.shell = s, !.path = a, !.observed = o] :
             p \in {"same", "inside", "apart"}, s \in {"bash", "fish"}, a \in {"auto", "ring"},
             o \in {<<Watch({"nut"})>>, <<Schedule({"nut"}, 0, {"min"})>>, <<Schedule({}, 1, {})>>,
                    <<Schedule({"nut"}, 1, {"median"})>>}}
    \cup {[Base EXCEPT !.files = <<file>> \o Initial, !.observed = o, !.transforms = t,
                       !.source = (@ \ {"0"}) \cup i] :
             file \in {File("A", "unexpandable"), [File("A", "volVectorField") EXCEPT !.object = "U"],
                       [File("A", "volTensorField") EXCEPT !.object = "k"]},
             o \in {<<>>, <<Watch({"U"})>>}, t \in {<<>>, <<Forcing, Filter>>}, i \in {{}, {"0"}, {"0.orig"}}}
    \cup {[Base EXCEPT !.decomposition = c, !.ranks = 2, !.closures = e, !.machine.templates = m] :
             c \in {<<>>} \cup {<<[read |-> n[1], coefficients |-> n[2]]>> :
                                  n \in {<<0, 0>>, <<0, 2>>, <<0, 4>>, <<2, 0>>, <<2, 2>>, <<4, 0>>, <<4, 4>>}},
             e \in {<<>>, <<KEqn>>}, m \in BOOLEAN}

\* Combustion: the reaction rate and a manifold of the progress variable.
Flame ==
    LET scalars == <<"T", "Y1", "Y2", "c", "cVar", "omega", "p">>
    IN  <<File("U", "volVectorField")>> \o [n \in DOMAIN scalars |-> File(scalars[n], "volScalarField")]
Reaction(variance) ==
    Artifact("rate", "onnx", <<<<"progress", Field("c")>>, <<"variance", Field(variance)>>, <<"temperature", Field("T")>>>>,
             <<<<"reaction_rate", Field("omega")>>>>)
BetaFDF(outputs, ports) ==
    [name |-> "beta", artifact |-> "present", format |-> "onnx", progress |-> Field("c"), variance |-> Field("cVar"),
     ports |-> <<<<"progress", "variance">>, ports>>, conditioning |-> <<>>, outputs |-> outputs, bounds |-> "clip"]
Lagged == [stage |-> "outer_corrector", source |-> "lagged", basis |-> "specific"]
Output(port, field, pattern) == [port |-> port, field |-> Field(field), pattern |-> pattern]
Burning ==
    {[Base EXCEPT !.closures = c, !.files = Flame, !.transforms = t, !.observed = o,
                  !.source = @ \cup x, !.integration = i, !.machine.cpus = n,
                  !.combustion = <<[name |-> "c", reaction |-> Reaction(v), manifold |-> m, coupling |-> Lagged]>>] :
        c \in {<<>>, <<KEqn>>}, t \in {<<>>, <<Function("f", "time_step_end", Into("c"), Into("T"))>>},
        o \in {<<>>, <<Watch({"T"})>>}, x \in {{}, {"progressVariableTransportProperties"}}, i \in {<<>>},
        n \in {1, 3}, v \in {"cVar", "p"},
        m \in {BetaFDF(<<Output("T", "T", {})>>, <<"T">>),
               BetaFDF(<<Output("", "", {"Y1", "Y2", "Y3"}), Output("T", "T", {})>>, <<"Y1", "Y2", "T">>),
               BetaFDF(<<Output("", "", {"Y3"})>>, <<"Y3">>),
               BetaFDF(<<Output("U", "U", {})>>, <<"U">>),
               BetaFDF(<<Output("", "", {"Y1", "Y2"}), Output("Y1", "T", {})>>, <<"Y1", "Y2">>),
               BetaFDF(<<Output("Y1", "T", {}), Output("", "", {"Y1", "Y2"})>>, <<"Y1", "Y2">>)}}
    \cup {[Base EXCEPT !.closures = <<>>, !.files = Flame,
              !.combustion = <<[name |-> "c", reaction |-> r, coupling |-> l,
                                manifold |-> [BetaFDF(<<Output("T", "T", {})>>, <<"T">>) EXCEPT !.conditioning = c, !.bounds = b]]>>] :
             r \in {Reaction("cVar"), [Reaction("cVar") EXCEPT !.outputs = Into("omega")],
                    [Reaction("cVar") EXCEPT !.inputs = Tail(@)], [Reaction("cVar") EXCEPT !.inputs[1][2] = Grad(@)]},
             l \in {Lagged, [Lagged EXCEPT !.stage = "time_step_end"]}, b \in {"clip", "ignore"},
             c \in {<<>>, <<<<"h", Field("T")>>>>, <<<<"progress", Field("T")>>>>}}

-----------------------------------------------------------------------------
(***************************************************************************)
(* What is followed together (bounds): the parts that do not interact in a *)
(* shape are held still in it.                                             *)
(***************************************************************************)
Reported(ranks) == [Base EXCEPT !.ranks = ranks, !.observed = <<Watch({"nut"})>>]
Paired == [Base EXCEPT !.transforms = <<Filter>>]
Queued == [Reported(1) EXCEPT !.slurm = Allocation(1, 1, 100, <<>>)]
Slurmed(d) == [d EXCEPT !.slurm = Allocation(1, 2, 100, <<>>), !.ranks = 2]

Unbuilt ==
    /\ root = [p \in Paths |-> Absent]
    /\ toolchain = [tools |-> TRUE, onnx |-> "system", darwin |-> FALSE, dry |-> FALSE]
    /\ build = "idle" /\ cache = "none" /\ runtime = NoParts /\ onnxCache = "absent"
NoCache == library = "whole" /\ lockFile = FALSE
OneHost == \E h \in Hosts : programs = {h} /\ (h = CHOOSE g \in Hosts : TRUE)
Unserved == served = 0 /\ format = "joblib" /\ scope = "global" /\ rows = [r \in 1..MaxServed |-> 1]

\* Every declaration, up to the commands of its launch.
Declares ==
    /\ sailing = FALSE /\ shared = FALSE /\ Unbuilt /\ NoCache /\ OneHost /\ Unserved /\ threads = 1
    /\ stale = {} /\ callers = {} /\ sources = 0 /\ scheduled = FALSE

\* A build with a clobber command beside it, and a launch that uses what it made;
\* a build without ONNX Runtime is left alone, and so are bad or missing tools, dry
\* runs, builds on macOS and builds that fetch ONNX Runtime, one at a time.
Odd(t) == {what \in {"tools", "darwin", "dry", "onnx"} :
              IF what = "onnx" THEN t.onnx \notin {"without", "system"} ELSE t[what] # (what = "tools")}
Builds ==
    /\ toolchain \in {t \in Toolchains : Cardinality(Odd(t)) <= 1}
    /\ shared = (Odd(toolchain) = {} /\ toolchain.onnx = "system")
    /\ onnxCache \in IF toolchain.onnx = "fetch" THEN {"absent", "partial", "whole"} ELSE {"absent"}
    /\ sailing = FALSE /\ NoCache /\ OneHost /\ Unserved /\ threads = 1
    /\ stale = {} /\ callers = {} /\ sources = 0 /\ scheduled = FALSE
    /\ declaration = Base /\ build = "checks"

Sails(d) == sailing = TRUE /\ Unbuilt /\ declaration = d /\ threads = ThreadBudgets(d)[1] /\ sources = ObservationSources(d)

\* The observations of one rank, with another thread that calls the handle or with
\* somebody at a shell and a disk that fills; of two ranks; and of a Slurm job.
Observes ==
    /\ \/ Sails(Reported(1)) /\ callers = Threads \ {Reader} /\ shared = FALSE
       \/ Sails(Reported(1)) /\ callers = {} /\ shared = TRUE
       \/ Sails(Reported(2)) /\ callers = {} /\ shared = FALSE
       \/ Sails(Queued) /\ callers = {} /\ shared = FALSE /\ accounting = TRUE
    /\ NoCache /\ OneHost /\ Unserved
    /\ stale = {} /\ scheduled = Given(declaration.slurm)

\* Two threads that call the handle, of a local run and of a Slurm job.
Controls ==
    /\ \/ Sails(Base) /\ scheduled = FALSE
       \/ Sails(Slurmed(Base)) /\ scheduled = TRUE
    /\ callers = Threads
    /\ shared = FALSE /\ NoCache /\ OneHost /\ Unserved /\ stale = {}

\* One caller, with a clobber command, somebody at a shell and a disk that fills.
Shares ==
    /\ Sails(Base) /\ scheduled = FALSE /\ callers = Threads \ {Reader}
    /\ shared = TRUE /\ NoCache /\ OneHost /\ Unserved /\ stale = {}

\* Two hosts that share an entry of the compile cache, also as a job that Slurm
\* has started again.
Hosted ==
    /\ \/ Sails(Paired) /\ scheduled = FALSE /\ stale = {}
       \/ Sails(Slurmed(Paired)) /\ scheduled = TRUE /\ stale \in (SUBSET Hosts) \ {{}} /\ NoCache /\ accounting = TRUE
    /\ programs = Hosts /\ callers = {}
    /\ shared = FALSE /\ Unserved

\* Two ranks served by one host.
Serves ==
    /\ Sails([Base EXCEPT !.ranks = 2]) /\ scheduled = FALSE /\ served = 2
    /\ format \in EvaluatorFormats
    /\ scope \in IF format \in {"function", "equinox", "batched"} THEN {"global", "rank"} ELSE {"global"}
    /\ rows = IF format = "compiled" THEN <<3, 1>> ELSE <<2, 1>>
    /\ shared = FALSE /\ NoCache /\ OneHost /\ stale = {} /\ callers = {}

AllDeclarations ==
    {Base, Slurmed(Base), Paired, Slurmed(Paired), Reported(1), Reported(2),
     Queued, [Base EXCEPT !.ranks = 2]}
        \cup Sized \cup Typed \cup Scheduled \cup Lacking \cup Burning

MCInit == (Declares \/ Builds \/ Observes \/ Controls \/ Shares \/ Hosted \/ Serves) /\ Init

\* Only a launch whose tools all succeed or all fail is followed further, and only
\* a Case whose parts and processors vary is initialized again, with a check of
\* the mesh when it is made.
MCNext ==
    /\ Next
    /\ sailing /\ phase = "tools" => case'.tools \in {{}, ToolCommands(declaration)}
    /\ phase = "constructed" /\ declaration' # declaration =>
           declaration \in Sized /\ (declaration'.validate <=> declaration'.mesh = "blockMesh")

MCSpec == MCInit /\ [][MCNext]_vars
MCFairSpec == MCSpec /\ Fairness
=============================================================================
