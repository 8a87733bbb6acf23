---------------------------- MODULE NativeBuild -----------------------------
(***************************************************************************)
(* `foamnordic build` and the checks of `foamnordic doctor` (_cli.py), with*)
(* the lookup of ONNX Runtime (build/onnxruntime.py).  A build fills two   *)
(* directories, CMake's and the native runtime of the OpenFOAM ABI; both   *)
(* may be there from before, with or without a marker, and a clobber       *)
(* command may run at the same time.  What a part of the runtime is made   *)
(* of is left out, except whether this build made it.                      *)
(***************************************************************************)
EXTENDS Workspace, Naturals, Sequences

Parts == {"longship", "worker", "solver", "profile"}
NoParts == [part \in Parts |-> "absent"]
NoLibraries == [named |-> {}, generic |-> "absent", link |-> FALSE]

VARIABLES
    toolchain, \* what the command finds and was asked for: see BuildInit
    cache,     \* the source CMakeCache.txt names: "none", "this" or "other"
    copied,    \* the OpenFOAM sources are copied into the build directory
    onnxCache, \* ONNX Runtime in the user's cache: "absent", "partial" or "whole"
    runtime,   \* per part of the native runtime: "absent", "older" or "new"
    libraries, \* the adapter: what is there under names of its own (macOS) and
               \* under the generic one, which may be a link
    fresh,     \* directories that were not there when the build made them
    build,     \* "idle", where the command is, "done" or "failed"
    cleared    \* history: a directory of the build was removed while it ran

buildVars == <<toolchain, cache, copied, onnxCache, runtime, libraries, fresh, build, cleared>>
buildRest == <<toolchain, cleared>>

\* The commands in their order, as _build lists them; on macOS the library is given
\* its name after libso.
Commands == <<"configure", "make", "sdk", "tools", "libso", "application">>
CommandNames == {Commands[n] : n \in DOMAIN Commands}
Naming == {"identify", "rename", "link"}
Building == {"checks", "onnx", "download", "stale", "install", "refresh", "directories", "mark",
             "copy", "verify", "adopt", "record"} \cup CommandNames \cup Naming
After(command) ==
    LET n == CHOOSE k \in DOMAIN Commands : Commands[k] = command
    IN  IF n = Len(Commands) THEN "verify"
        ELSE IF command = "libso" /\ toolchain.darwin THEN "identify" ELSE Commands[n + 1]

Generations == {"absent", "older", "new"}
BuildTypeOK ==
    /\ cache \in {"none", "this", "other"} /\ copied \in BOOLEAN
    /\ onnxCache \in {"absent", "partial", "whole"}
    /\ runtime \in [Parts -> Generations]
    /\ libraries \in [named : SUBSET {"older", "new"}, generic : Generations, link : BOOLEAN]
    /\ fresh \subseteq {Build, Native}
    /\ build \in Building \cup {"idle", "done", "failed"} /\ cleared \in BOOLEAN

\* The adapter of an earlier build: on macOS a link to the library's own name,
\* unless that build was interrupted.
Earlier(darwin) ==
    IF darwin THEN {[named |-> {"older"}, generic |-> "older", link |-> TRUE],
                    [named |-> {"older"}, generic |-> "absent", link |-> FALSE],
                    [named |-> {}, generic |-> "older", link |-> FALSE]}
    ELSE {[named |-> {}, generic |-> "older", link |-> FALSE]}

Toolchains == [tools : BOOLEAN, onnx : {"without", "refused", "system", "fetch"},
               darwin : BOOLEAN, dry : BOOLEAN]

\* Nothing was built here yet, or an earlier build, with or without ONNX, of this
\* source or of another one; directories that somebody made have no marker.  ONNX
\* Runtime is not asked for, is refused (a bad FOAMNORDIC_ONNX_RUNTIME_ROOT, or a
\* platform without an archive), is installed, or is the cache's.
BuildInit ==
    /\ toolchain \in Toolchains
    /\ build \in {"idle", "checks"} /\ copied = FALSE /\ fresh = {} /\ cleared = FALSE
    /\ cache \in {"none", "this", "other"} /\ (~Exists(Build) => cache = "none")
    /\ onnxCache \in {"absent", "partial", "whole"}
    /\ \/ runtime = NoParts /\ libraries = NoLibraries
       \/ \E w \in {"absent", "older"}, l \in Earlier(toolchain.darwin) :
             /\ runtime = [[part \in Parts |-> "older"] EXCEPT !.worker = w]
             /\ libraries = l
    /\ ~Exists(Native) => runtime = NoParts
-----------------------------------------------------------------------------
BuildTo(here, next) == build = here /\ build' = next
Files == <<root, cache, copied, onnxCache, runtime, libraries, fresh>>

\* The build ends with an exception wherever it is; what it wrote stays.
BuildFails ==
    /\ build \in Building /\ build' = "failed"
    /\ UNCHANGED <<Files, buildRest>>

WithOnnx == toolchain.onnx # "without"

\* The build kit, cmake, wmake and the ABI.
BuildChecks ==
    /\ toolchain.tools /\ BuildTo("checks", IF WithOnnx THEN "onnx" ELSE "refresh")
    /\ UNCHANGED <<Files, buildRest>>
-----------------------------------------------------------------------------
(***************************************************************************)
(* build/onnxruntime.py                                                    *)
(***************************************************************************)

\* _inspect, of the cache: headers of the version asked for, and a library.
Inspected == onnxCache = "whole"

\* resolve: the explicit root or nothing; else Homebrew's or the system's; else the
\* cache's; else a download, which a dry run only names.
ResolveOnnx ==
    /\ BuildTo("onnx", IF toolchain.onnx = "refused" THEN "failed"
                       ELSE IF toolchain.onnx = "fetch" /\ ~Inspected /\ ~toolchain.dry THEN "download"
                       ELSE "refresh")
    /\ UNCHANGED <<Files, buildRest>>

\* _download, up to the archive unpacked in a stage of its own, which goes with any
\* exception: no connection, another checksum, a path that leaves the stage.
Download ==
    /\ BuildTo("download", "stale")
    /\ UNCHANGED <<Files, buildRest>>

\* What is in the way is removed, ...
RemoveStale ==
    /\ BuildTo("stale", "install") /\ onnxCache' = "absent"
    /\ UNCHANGED <<root, cache, copied, runtime, libraries, fresh, buildRest>>

\* ... the stage moved there and looked at: the archive may lack what is needed.
Install ==
    /\ build = "install" /\ onnxCache' \in {"whole", "partial"}
    /\ build' = IF Inspected' THEN "refresh" ELSE "failed"
    /\ UNCHANGED <<root, cache, copied, runtime, libraries, fresh, buildRest>>

Onnx == ResolveOnnx \/ Download \/ RemoveStale \/ Install
-----------------------------------------------------------------------------
(***************************************************************************)
(* _build                                                                  *)
(***************************************************************************)

\* _cmake_source, of a build directory that may be gone.
OtherSource == cache = "other"

\* A build directory configured for another source is removed, when it is owned; a
\* dry run only prints, here and the commands after it.
Refresh ==
    /\ BuildTo("refresh", IF OtherSource /\ ~Generated(Build) THEN "failed"
                          ELSE IF toolchain.dry THEN "done" ELSE "directories")
    /\ IF OtherSource /\ Generated(Build) /\ ~toolchain.dry
       THEN root' = Removed(Build) /\ cache' = "none" /\ copied' = FALSE
       ELSE UNCHANGED <<root, cache, copied>>
    /\ UNCHANGED <<onnxCache, runtime, libraries, fresh, buildRest>>

\* A directory that is not there is made, without a marker.
Made(paths) == [p \in Paths |-> IF p \in paths /\ root[p] = Absent THEN Unmarked ELSE root[p]]

MakeDirectories ==
    /\ BuildTo("directories", "mark")
    /\ fresh' = {p \in {Build, Native} : ~Exists(p)}
    /\ root' = Made({Build, Native})
    /\ UNCHANGED <<cache, copied, onnxCache, runtime, libraries, buildRest>>

\* mark_generated makes the directory again if it must; those that were there
\* keep the marker they have, or none.
MarkDirectories ==
    /\ IF fresh = {} THEN BuildTo("mark", "copy") /\ UNCHANGED <<root, fresh>>
       ELSE /\ BuildTo("mark", "mark")
            /\ LET next == IF Build \in fresh THEN Build ELSE Native
               IN  root' = MarkGenerated(next) /\ fresh' = fresh \ {next}
    /\ UNCHANGED <<cache, copied, onnxCache, runtime, libraries, buildRest>>

\* Both OpenFOAM source trees are copied; what is missing of the directories by
\* now is made again, and a generic name that is a link is removed (macOS).
CopySources ==
    /\ BuildTo("copy", "configure")
    /\ copied' = TRUE /\ root' = Made({Build, Native})
    /\ libraries' = IF libraries.link THEN [libraries EXCEPT !.generic = "absent", !.link = FALSE]
                    ELSE libraries
    /\ UNCHANGED <<cache, onnxCache, runtime, fresh, buildRest>>

\* What a command needs, and what it leaves: only configure can do without the
\* cache, wmake runs in the copied sources, and the solver is linked with the
\* library's generic name.
Needs(command) ==
    CASE command = "configure" -> TRUE
      [] command \in {"make", "sdk", "tools"} -> cache = "this"
      [] command = "libso" -> copied
      [] command = "application" -> copied /\ libraries.generic # "absent"
Gives(command) ==
    CASE command = "tools" -> {"longship"} \cup (IF WithOnnx THEN {"worker"} ELSE {})
      [] command = "application" -> {"solver"}
      [] OTHER -> {}

Effect(command) ==
    /\ runtime' = [part \in Parts |-> IF part \in Gives(command) THEN "new" ELSE runtime[part]]
    /\ libraries' = IF command = "libso" THEN [libraries EXCEPT !.generic = "new"] ELSE libraries
    /\ cache' = IF command = "configure" THEN "this" ELSE cache
    /\ root' = Made(CASE command = "configure" -> {Build} [] command = "make" -> {} [] OTHER -> {Native})

\* Mutant of RunCommand: subprocess.run without check=True.
UncheckedCommand ==
    /\ build \in CommandNames /\ build' = After(build)
    /\ Effect(build) \/ UNCHANGED <<root, cache, runtime, libraries>>
    /\ UNCHANGED <<copied, onnxCache, fresh, buildRest>>

\* A command that fails is BuildFails.
RunCommand ==
    /\ build \in CommandNames /\ build' = After(build)
    /\ Needs(build) /\ Effect(build)
    /\ UNCHANGED <<copied, onnxCache, fresh, buildRest>>

\* _finalize_macos_openfoam_library: the library gets an install name from its
\* contents and those of earlier builds are removed; it is renamed; the generic
\* name becomes a link to it.
NameLibrary ==
    /\ libraries.generic # "absent" \/ (build = "link" /\ libraries.named # {})
    /\ \/ BuildTo("identify", "rename") /\ libraries' = [libraries EXCEPT !.named = @ \cap {libraries.generic}]
       \/ /\ BuildTo("rename", "link")
          /\ libraries' = [libraries EXCEPT !.named = @ \cup {libraries.generic}, !.generic = "absent"]
       \/ /\ BuildTo("link", "application") /\ Exists(Native)
          /\ libraries' = [libraries EXCEPT !.generic = CHOOSE l \in libraries.named : TRUE,
                                              !.link = TRUE]
    /\ UNCHANGED <<root, cache, copied, onnxCache, runtime, fresh, buildRest>>

\* The adapter that is found, by the build and by a launch: names of its own come
\* first, in the order of their hashes.
Integrations == IF libraries.named # {} THEN libraries.named ELSE {libraries.generic} \ {"absent"}

\* The library and the solver must be there, of whatever build.
Verify ==
    /\ BuildTo("verify", IF Integrations = {} \/ runtime.solver = "absent" THEN "failed" ELSE "adopt")
    /\ UNCHANGED <<Files, buildRest>>

\* A directory without a valid marker is marked now: the build adopts what it was
\* pointed at.  Then the worker is looked for.
Adopt ==
    /\ BuildTo("adopt", IF WithOnnx /\ runtime.worker = "absent" THEN "failed" ELSE "record")
    /\ root' = [p \in Paths |-> IF p = Native \/ (p = Build /\ cache # "none") THEN p ELSE root[p]]
    /\ UNCHANGED <<cache, copied, onnxCache, runtime, libraries, fresh, buildRest>>

\* write_runtime_profile
RecordProfile ==
    /\ Exists(Native) /\ BuildTo("record", "done")
    /\ runtime' = [runtime EXCEPT !.profile = "new"]
    /\ UNCHANGED <<root, cache, copied, onnxCache, libraries, fresh, buildRest>>

BuildStep ==
    \/ BuildChecks \/ Onnx \/ Refresh \/ MakeDirectories \/ MarkDirectories \/ CopySources
    \/ RunCommand \/ NameLibrary \/ Verify \/ Adopt \/ RecordProfile \/ BuildFails

\* A directory that somebody else removed or moved in this step takes its contents
\* with it.
BuildLoses ==
    LET gone(p) == Exists(p) /\ root'[p] = Absent
    IN  /\ cache' = IF gone(Build) THEN "none" ELSE cache
        /\ copied' = (copied /\ ~gone(Build))
        /\ runtime' = IF gone(Native) THEN NoParts ELSE runtime
        /\ libraries' = IF gone(Native) THEN NoLibraries ELSE libraries
        /\ cleared' = (cleared \/ (build \in Building \cup {"done"} /\ (gone(Build) \/ gone(Native))))
        /\ UNCHANGED <<toolchain, onnxCache, fresh, build>>

\* _doctor_checks: what is missing that doctor calls a failure; the worker's absence
\* is a warning.  _doctor returns 0 when there is none.
DoctorFails ==
    {part \in Parts \ {"worker"} : runtime[part] = "absent"}
        \cup (IF libraries.named = {} /\ libraries.generic = "absent" THEN {"adapter"} ELSE {})
Healthy == DoctorFails = {}

\* A build that returns 0, and was no dry run, has replaced every part of the
\* runtime it was asked for; the library a launch will find is its own and no older
\* one, on macOS too, where the older ones have names of their own; ONNX Runtime is
\* where the build was configured to look for it; both directories are owned, so
\* that a refresh or `clobber` can remove them; and doctor has nothing to fail on:
\* unless its directories were removed behind its back.
BuildIsUsable ==
    build = "done" /\ ~cleared /\ ~toolchain.dry =>
        /\ \A part \in Parts : part # "worker" \/ WithOnnx => runtime[part] = "new"
        /\ Integrations = {"new"}
        /\ toolchain.onnx = "fetch" => Inspected
        /\ Healthy
        /\ Generated(Build) /\ Generated(Native)
=============================================================================
