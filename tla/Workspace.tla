------------------------------ MODULE Workspace ------------------------------
(***************************************************************************)
(* Ownership of generated directories (core/managed.py) and the command    *)
(* that removes them (`foamnordic clobber`, _cli.py).  A directory is      *)
(* owned when it holds a marker that names the very path it is found at,   *)
(* so that a copy or a directory somebody moved is not.  The command runs  *)
(* in a process of its own, at any moment of a launch.                     *)
(***************************************************************************)
EXTENDS FiniteSets

CONSTANTS
    Prepared,  \* the path a case is prepared at, runs/<name>-<token>
    Final,     \* the path a finished run is renamed to
    Copy,      \* where somebody copies or moves a run
    Build,     \* the native build directory
    Native     \* the native runtime directory of the OpenFOAM ABI

Paths == {Prepared, Final, Copy, Build, Native}
Absent == "absent"       \* no such directory
Unmarked == "unmarked"   \* a directory without a marker
Nothing == "nothing"     \* no target chosen

ASSUME WorkspaceAssumption == Cardinality(Paths) = 5 /\ Paths \cap {Absent, Unmarked, Nothing} = {}

VARIABLES
    root,     \* per path: Absent, Unmarked, or the root its marker names
    targets,  \* targets a clobber command has still to check
    chosen    \* the target it has checked and is about to remove

clobberVars == <<targets, chosen>>
workspaceVars == <<root, clobberVars>>

Exists(p) == root[p] # Absent
Marked(p) == root[p] \notin {Absent, Unmarked}

\* Mutant of Generated: any marker counts, wherever it was written.
AnyMarker(p) == Marked(p)

\* generated_kind: the marker at p is one written for p.
Generated(p) == root[p] = p

\* Effects of mark_generated, relocate_generated, a rename and rmtree on root.
MarkGenerated(p) == [root EXCEPT ![p] = p]
Renamed(p, q) == [root EXCEPT ![q] = root[p], ![p] = Absent]
Removed(p) == [root EXCEPT ![p] = Absent]

\* relocate_generated refuses a marker that does not name the old path; a
\* directory without a marker has no claim to update.
MayRelocate(p, previous) == ~Marked(p) \/ root[p] = previous
Relocated(p) == IF Marked(p) THEN MarkGenerated(p) ELSE root

WorkspaceTypeOK ==
    /\ root \in [Paths -> Paths \cup {Absent, Unmarked}]
    /\ targets \subseteq Paths
    /\ chosen \in Paths \cup {Nothing}

ClobberIdle == targets = {} /\ chosen = Nothing
-----------------------------------------------------------------------------
(***************************************************************************)
(* _clobber: the targets are listed once, then checked and removed one by  *)
(* one.                                                                    *)
(***************************************************************************)

\* The marked children of runs/, of the build cache and of the native runtimes;
\* with --dry-run the command changes nothing.
ClobberTargets ==
    /\ ClobberIdle
    /\ targets' = {p \in Paths : Marked(p)}
    /\ UNCHANGED <<root, chosen>>

ClobberCheck(p) ==
    /\ chosen = Nothing
    /\ p \in targets /\ targets' = targets \ {p}
    /\ chosen' = IF Generated(p) THEN p ELSE Nothing
    /\ UNCHANGED root

\* rmtree; a target that is gone by now ends the command with an error.
ClobberRemove ==
    /\ chosen # Nothing
    /\ IF Exists(chosen)
       THEN root' = Removed(chosen) /\ targets' = targets
       ELSE root' = root /\ targets' = {}
    /\ chosen' = Nothing

Clobber == ClobberTargets \/ (\E p \in Paths : ClobberCheck(p)) \/ ClobberRemove
-----------------------------------------------------------------------------
(***************************************************************************)
(* Somebody at a shell, with cp -r and mv.                                 *)
(***************************************************************************)

UserCopies(p) ==
    /\ Exists(p) /\ ~Exists(Copy)
    /\ root' = [root EXCEPT ![Copy] = root[p]]
    /\ UNCHANGED clobberVars

UserMoves(p) ==
    /\ Exists(p) /\ ~Exists(Copy)
    /\ root' = Renamed(p, Copy)
    /\ UNCHANGED clobberVars
=============================================================================
