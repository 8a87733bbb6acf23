---------------------------- MODULE CompileCache ----------------------------
(***************************************************************************)
(* The cache of compiled models (build/compiler.py, compile_source).       *)
(* Hosts that load the same compiled artifact share one entry: the first   *)
(* creates a lock file, compiles into a private directory and renames the  *)
(* library into place; the others wait for the library or the lock.  The   *)
(* lock is a file, so it outlives a host that is killed while it holds it. *)
(***************************************************************************)
EXTENDS FiniteSets

CONSTANT Hosts   \* the resident hosts of one model

CacheLabels == {"absent", "look", "lock", "recheck", "build", "unlock", "unlock_failed",
                "loaded", "failed", "dead"}

VARIABLES
    library,  \* the entry's library: "absent", "partial" or "whole"
    lockFile, \* .compile.lock exists
    cpc,      \* where the compile_source call of each host is
    orphaned, \* history: the lock was left behind by a host that is gone
    partly    \* history: a host took a library that was not whole

cacheVars == <<library, lockFile, cpc, orphaned, partly>>

CacheTypeOK ==
    /\ library \in {"absent", "partial", "whole"}
    /\ lockFile \in BOOLEAN /\ orphaned \in BOOLEAN /\ partly \in BOOLEAN
    /\ cpc \in [Hosts -> CacheLabels]

\* An earlier run may have filled the entry, or left its lock behind.
CacheInit ==
    /\ library \in {"absent", "whole"}
    /\ lockFile \in BOOLEAN /\ orphaned = lockFile
    /\ cpc = [h \in Hosts |-> "absent"] /\ partly = FALSE

CacheTo(h, here, next) == cpc[h] = here /\ cpc' = [cpc EXCEPT ![h] = next]
Holding == {"recheck", "build", "unlock", "unlock_failed"}

\* The host is started and reaches the call.
CacheEnter(h) == CacheTo(h, "absent", "look") /\ UNCHANGED <<library, lockFile, orphaned, partly>>

\* library.is_file() is true: the path is returned and loaded.
Take(h, here, next) ==
    /\ library # "absent" /\ CacheTo(h, here, next)
    /\ partly' = (partly \/ library = "partial")

CacheLook(h) ==
    /\ \/ Take(h, "look", "loaded")
       \/ library = "absent" /\ CacheTo(h, "look", "lock") /\ UNCHANGED partly
    /\ UNCHANGED <<library, lockFile, orphaned>>

\* O_CREAT | O_EXCL succeeds ...
CacheLock(h) ==
    /\ ~lockFile /\ CacheTo(h, "lock", "recheck") /\ lockFile' = TRUE
    /\ UNCHANGED <<library, orphaned, partly>>

\* ... or fails: the library may have appeared in the meantime.
CacheShared(h) ==
    /\ lockFile /\ Take(h, "lock", "loaded")
    /\ UNCHANGED <<library, lockFile, orphaned>>

\* 300 s without either: TimeoutError.
CacheTimesOut(h) ==
    /\ lockFile /\ CacheTo(h, "lock", "failed")
    /\ UNCHANGED <<library, lockFile, orphaned, partly>>

CacheRecheck(h) ==
    /\ \/ Take(h, "recheck", "unlock")
       \/ library = "absent" /\ CacheTo(h, "recheck", "build") /\ UNCHANGED partly
    /\ UNCHANGED <<library, lockFile, orphaned>>

\* Mutant of CacheBuild: the compiler writes to the library's own path.
BuildInPlace(h) ==
    /\ \/ CacheTo(h, "build", "build") /\ library = "absent" /\ library' = "partial"
       \/ CacheTo(h, "build", "unlock") /\ library = "partial" /\ library' = "whole"
       \/ CacheTo(h, "build", "unlock_failed") /\ UNCHANGED library
    /\ UNCHANGED <<lockFile, orphaned, partly>>

\* The compiler runs in a temporary directory and its output is renamed over
\* the library, or it fails.
CacheBuild(h) ==
    /\ \/ CacheTo(h, "build", "unlock") /\ library' = "whole"
       \/ CacheTo(h, "build", "unlock_failed") /\ UNCHANGED library
    /\ UNCHANGED <<lockFile, orphaned, partly>>

\* The finally clause.
CacheUnlock(h) ==
    /\ CacheTo(h, "unlock", "loaded") \/ CacheTo(h, "unlock_failed", "failed")
    /\ lockFile' = FALSE
    /\ UNCHANGED <<library, orphaned, partly>>

Compile(h) ==
    \/ CacheLook(h) \/ CacheLock(h) \/ CacheShared(h) \/ CacheTimesOut(h)
    \/ CacheRecheck(h) \/ CacheBuild(h) \/ CacheUnlock(h)

\* The hosts in dying are killed; no finally clause runs.
CacheDies(dying) ==
    /\ cpc' = [h \in Hosts |-> IF h \in dying THEN "dead" ELSE cpc[h]]
    /\ orphaned' = (orphaned \/ \E h \in dying : cpc[h] \in Holding)
    /\ UNCHANGED <<library, lockFile, partly>>

CacheNext ==
    \/ \E h \in Hosts : CacheEnter(h) \/ Compile(h)
    \/ \E dying \in SUBSET Hosts : CacheDies(dying)
CacheSpec == CacheInit /\ [][CacheNext]_cacheVars
-----------------------------------------------------------------------------
(***************************************************************************)
(* One compiler at a time, and nobody loads a library that is still being  *)
(* written.                                                                *)
(***************************************************************************)
OneHolder == \A g, h \in Hosts : cpc[g] \in Holding /\ cpc[h] \in Holding => g = h
HolderLocks == \A h \in Hosts : cpc[h] \in Holding => lockFile

\* compile_source hands out only libraries that are complete, only one host
\* compiles an entry at a time, the builder's lock is there for as long as it
\* builds, and a lock without a living holder is one a killed host left.
LibraryIsWhole ==
    /\ ~partly
    /\ OneHolder /\ HolderLocks
    /\ (lockFile /\ (\A h \in Hosts : cpc[h] \notin Holding)) => orphaned
    /\ \A h \in Hosts : cpc[h] = "loaded" => library = "whole"
=============================================================================
