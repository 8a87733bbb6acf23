------------------------------ MODULE HostProofs ------------------------------
(***************************************************************************)
(* Proofs about the resident hosts, for any set of hosts.  First of the    *)
(* cache of compiled models they share: that a host which leaves with a    *)
(* library leaves with a whole one is not inductive; it rests on the rename*)
(* of CacheBuild, so that the entry never holds a part of one.  Then of the*)
(* hosts and their group: that files and exit codes tell the supervisor the*)
(* truth, whichever hosts fail or are killed whenever, and that the hosts  *)
(* are clients of the cache, so that what was proved of it holds of them.  *)
(* Then of evaluation in one host, for any number of ranks, cells, threads *)
(* and exchanges: the ranges of a batch are a partition of its rows, and   *)
(* every answer is whole, from its own batch and under keys of its own,    *)
(* although ranges of an evaluation that raised go on while the next one   *)
(* is under way.                                                           *)
(***************************************************************************)
EXTENDS HostGroup, Resident, FiniteSetTheorems, SequenceTheorems, WellFoundedInduction, TLAPS

(***************************************************************************)
(* The cache of compiled models.                                           *)
(***************************************************************************)
\* The strengthening: what an entry ever holds, and what the host that is about to
\* release the lock after success relies on.
NeverPartial == library \in {"absent", "whole"}
ReleasesWhole == \A h \in Hosts : cpc[h] = "unlock" => library = "whole"

CacheIInv ==
    /\ CacheTypeOK /\ LibraryIsWhole
    /\ NeverPartial /\ ReleasesWhole

LEMMA CacheInvariantInit == CacheInit => CacheIInv
<1> SUFFICES ASSUME CacheInit PROVE CacheIInv
  OBVIOUS
<1>1. CacheTypeOK /\ NeverPartial
  BY DEF CacheInit, CacheTypeOK, NeverPartial, CacheLabels
<1>2. \A h \in Hosts : cpc[h] = "absent"
  BY DEF CacheInit
<1>3. ~partly /\ (lockFile => orphaned)
  BY DEF CacheInit
<1>4. LibraryIsWhole /\ ReleasesWhole
  BY <1>2, <1>3 DEF LibraryIsWhole, OneHolder, HolderLocks, ReleasesWhole, Holding
<1> QED
  BY <1>1, <1>4 DEF CacheIInv

\* A step of one call, of the environment that kills hosts, and a stuttering step.
LEMMA CacheInvariantStep == CacheIInv /\ [CacheNext]_cacheVars => CacheIInv'
<1> SUFFICES ASSUME CacheIInv, [CacheNext]_cacheVars PROVE CacheIInv'
  OBVIOUS
<1> USE DEF CacheIInv, CacheTypeOK, LibraryIsWhole, OneHolder, HolderLocks, NeverPartial,
            ReleasesWhole, CacheLabels, Holding
<1>1. ASSUME NEW h \in Hosts, CacheEnter(h) PROVE CacheIInv'
  BY <1>1 DEF CacheEnter, CacheTo
<1>2. ASSUME NEW h \in Hosts, CacheLook(h) PROVE CacheIInv'
  BY <1>2 DEF CacheLook, Take, CacheTo
<1>3. ASSUME NEW h \in Hosts, CacheLock(h) PROVE CacheIInv'
  BY <1>3 DEF CacheLock, CacheTo
<1>4. ASSUME NEW h \in Hosts, CacheShared(h) PROVE CacheIInv'
  BY <1>4 DEF CacheShared, Take, CacheTo
<1>5. ASSUME NEW h \in Hosts, CacheTimesOut(h) PROVE CacheIInv'
  BY <1>5 DEF CacheTimesOut, CacheTo
<1>6. ASSUME NEW h \in Hosts, CacheRecheck(h) PROVE CacheIInv'
  BY <1>6 DEF CacheRecheck, Take, CacheTo
<1>7. ASSUME NEW h \in Hosts, CacheBuild(h) PROVE CacheIInv'
  BY <1>7 DEF CacheBuild, CacheTo
<1>8. ASSUME NEW h \in Hosts, CacheUnlock(h) PROVE CacheIInv'
  BY <1>8 DEF CacheUnlock, CacheTo
<1>9. ASSUME NEW dying \in SUBSET Hosts, CacheDies(dying) PROVE CacheIInv'
  BY <1>9 DEF CacheDies
<1>10. CASE UNCHANGED cacheVars
  BY <1>10 DEF cacheVars
<1> QED
  BY <1>1, <1>2, <1>3, <1>4, <1>5, <1>6, <1>7, <1>8, <1>9, <1>10 DEF CacheNext, Compile

LEMMA CacheInvariant == CacheSpec => []CacheIInv
BY CacheInvariantInit, CacheInvariantStep, PTL DEF CacheSpec

\* compile_source: for any number of hosts that share an entry, whichever of them
\* are killed whenever, each library that is handed out is whole, at most one host
\* compiles, under its lock, and a lock that nobody holds was left by a killed host.
THEOREM CacheLibraryIsWhole == CacheSpec => []LibraryIsWhole
<1>1. CacheIInv => LibraryIsWhole
  BY DEF CacheIInv
<1> QED
  BY <1>1, CacheInvariant, PTL

\* compile_source: the entry of a cache is never replaced by anything less than a
\* whole library, and its lock passes from one host to another only over a moment
\* in which it does not exist.
EntryIsKept ==
    /\ library = "whole" => library' = "whole"
    /\ \A g, h \in Hosts : cpc[g] \in Holding /\ (cpc[h] \in Holding)' => g = h

THEOREM CacheEntryIsKept == CacheSpec => [][EntryIsKept]_cacheVars
<1>1. CacheIInv /\ CacheIInv' /\ [CacheNext]_cacheVars => [EntryIsKept]_cacheVars
  <2> SUFFICES ASSUME CacheIInv, CacheIInv', CacheNext PROVE EntryIsKept
    OBVIOUS
  <2> USE DEF CacheIInv, CacheTypeOK, LibraryIsWhole, OneHolder, HolderLocks, NeverPartial,
              CacheLabels, Holding, EntryIsKept
  <2>1. ASSUME NEW h \in Hosts, CacheEnter(h) PROVE EntryIsKept
    BY <2>1 DEF CacheEnter, CacheTo
  <2>2. ASSUME NEW h \in Hosts, Compile(h) PROVE EntryIsKept
    <3>1. CASE CacheLook(h) \/ CacheShared(h) \/ CacheTimesOut(h) \/ CacheRecheck(h)
      BY <3>1 DEF CacheLook, CacheShared, CacheTimesOut, CacheRecheck, Take, CacheTo
    <3>2. CASE CacheLock(h)
      BY <3>2 DEF CacheLock, CacheTo
    <3>3. CASE CacheBuild(h) \/ CacheUnlock(h)
      BY <3>3 DEF CacheBuild, CacheUnlock, CacheTo
    <3> QED
      BY <2>2, <3>1, <3>2, <3>3 DEF Compile
  <2>3. ASSUME NEW dying \in SUBSET Hosts, CacheDies(dying) PROVE EntryIsKept
    BY <2>3 DEF CacheDies
  <2> QED
    BY <2>1, <2>2, <2>3 DEF CacheNext
<1> QED
  BY <1>1, CacheInvariant, PTL DEF CacheSpec
-----------------------------------------------------------------------------
(***************************************************************************)
(* The hosts and their group.                                              *)
(***************************************************************************)
\* What main knows of its hosts wherever it is: it has started all of them when it
\* watches them, it fails only with a code, and it has seen every one of them end
\* before it cleans up, unless starting them raised.
MainKnows ==
    /\ ~Grouped => gpc = "absent"
    /\ spawned \subseteq programs
    /\ gpc \in {"watch", "publish", "publish_last", "terminate", "reap"} => spawned = programs
    /\ gpc \in {"absent", "spawn", "watch", "publish", "publish_last"} => groupCode = "none"
    /\ gpc \in {"terminate", "reap"} => groupCode \in {"error", "signal"}
    /\ gpc = "publish_last" => \A h \in programs : hostCode[h] = "ok"
    /\ gpc = "cleanup" => groupCode # "none"
    /\ gpc = "cleanup" /\ groupCode # "raised" => \A h \in programs : host[h] = "exited"
    /\ gpc \in {"cleanup", "returned"} /\ groupCode = "ok" => \A h \in programs : hostCode[h] = "ok"

\* A host has a code when it has ended, was started if the group says so, and made
\* its readiness file before it served; a host of another run is never started.
HostsKnown ==
    /\ \A h \in Hosts : host[h] = "exited" <=> hostCode[h] # "none"
    /\ \A h \in Hosts : host[h] = "serving" \/ hostCode[h] = "ok" => h \in announced
    /\ \A h \in Hosts \ programs : host[h] = "absent"
    /\ \A h \in spawned : host[h] # "absent"
    /\ Grouped => \A h \in programs \ spawned : host[h] = "absent"

\* Where readiness files come from.
FilesKnown ==
    /\ ready \subseteq announced \cup stale
    /\ published => programs \subseteq announced \cup stale
    /\ aggregate => published

GroupIInv == HostGroupTypeOK /\ MainKnows /\ HostsKnown /\ FilesKnown /\ HostsReaped

LEMMA GroupInvariantInit == HostGroupInit => GroupIInv
<1> SUFFICES ASSUME HostGroupInit PROVE GroupIInv
  OBVIOUS
<1>1. CacheTypeOK
  BY CacheInvariantInit DEF HostGroupInit, CacheIInv
<1>2. HostGroupTypeOK
  BY <1>1 DEF HostGroupInit, HostGroupTypeOK, GroupLabels
<1>3. MainKnows /\ HostsKnown /\ FilesKnown /\ HostsReaped
  BY DEF HostGroupInit, MainKnows, HostsKnown, FilesKnown, HostsReaped
<1> QED
  BY <1>2, <1>3 DEF GroupIInv

\* What the hosts do reaches the cache only through its own actions.
LEMMA GroupUsesCache == HostGroupTypeOK /\ [HostGroupNext]_hostGroupVars => [CacheNext]_cacheVars
<1> SUFFICES ASSUME HostGroupTypeOK, [HostGroupNext]_hostGroupVars PROVE [CacheNext]_cacheVars
  OBVIOUS
<1> USE DEF HostGroupTypeOK
<1>1. ASSUME NEW h \in Hosts, StartHost(h) PROVE CacheNext
  BY <1>1 DEF StartHost, CacheNext
<1>2. ASSUME NEW dying \in SUBSET Hosts, HostsKilled(dying) PROVE CacheNext
  BY <1>2 DEF HostsKilled, CacheNext
<1>3. CASE GroupStarts
  BY <1>1, <1>3 DEF GroupStarts, hostVars, cacheVars
<1>4. CASE GroupStep
  <2>1. ASSUME NEW h \in Hosts, GroupSpawns(h) PROVE [CacheNext]_cacheVars
    BY <1>1, <2>1 DEF GroupSpawns, hostVars, cacheVars
  <2>2. CASE GroupPolls \/ GroupPublishes \/ GroupCleans
    BY <2>2 DEF GroupPolls, GroupPublishes, GroupCleans, hostVars, cacheVars
  <2>3. CASE GroupTerminates
    BY <1>2, <2>3 DEF GroupTerminates, Alive
  <2>4. CASE GroupReaps
    BY <1>2, <2>4 DEF GroupReaps
  <2> QED
    BY <1>4, <2>1, <2>2, <2>3, <2>4 DEF GroupStep
<1>5. ASSUME NEW h \in Hosts, HostStep(h) \/ HostEnds(h) PROVE [CacheNext]_cacheVars
  <2>1. CASE HostCompiles(h)
    BY <2>1 DEF HostCompiles, CacheNext
  <2>2. CASE HostAnnounces(h) \/ HostFails(h) \/ HostEnds(h)
    BY <2>2 DEF HostAnnounces, HostFails, HostEnds
  <2> QED
    BY <1>5, <2>1, <2>2 DEF HostStep
<1>6. CASE GroupSignalled \/ ReadyRemoved
  BY <1>6 DEF GroupSignalled, ReadyRemoved, hostVars, cacheVars
<1>7. CASE GroupKilled \/ HostKilled
  BY <1>2, <1>7 DEF GroupKilled, HostKilled, Alive
<1>8. CASE UNCHANGED hostGroupVars
  BY <1>8 DEF hostGroupVars, hostVars, cacheVars
<1> QED
  BY <1>3, <1>4, <1>5, <1>6, <1>7, <1>8 DEF HostGroupNext

\* Hosts of the run that are ended by a signal, and what that leaves of GroupIInv
\* whatever main does in the same step.
LEMMA KilledHosts ==
    ASSUME GroupIInv, CacheTypeOK', HostsKilled({h \in Hosts : Alive(h)} \cap programs) \/
              \E dying \in SUBSET {h \in spawned : Alive(h)} : HostsKilled(dying),
           UNCHANGED <<programs, stale, spawned, aggregate, published>>, Grouped' = Grouped
    PROVE  /\ HostsKnown' /\ FilesKnown'
           /\ host' \in [Hosts -> {"absent", "loading", "serving", "exited"}]
           /\ hostCode' \in [Hosts -> {"none", "ok", "error", "signal"}]
           /\ \A h \in Hosts : host[h] = "exited" => host'[h] = "exited" /\ hostCode'[h] = hostCode[h]
           /\ UNCHANGED <<ready, announced>>
<1>1. PICK dying \in SUBSET {h \in Hosts : Alive(h)} : dying \subseteq programs /\ HostsKilled(dying)
  BY DEF GroupIInv, HostGroupTypeOK, MainKnows
<1> USE <1>1 DEF GroupIInv, HostGroupTypeOK, HostsKilled, Alive
<1>2. /\ host' \in [Hosts -> {"absent", "loading", "serving", "exited"}]
      /\ hostCode' \in [Hosts -> {"none", "ok", "error", "signal"}]
  OBVIOUS
<1>3. HostsKnown'
  BY DEF HostsKnown, MainKnows
<1>4. FilesKnown'
  BY DEF FilesKnown
<1> QED
  BY <1>2, <1>3, <1>4

\* One step per action; Grouped cannot change, since the programs of a run do not.
LEMMA GroupInvariantStep ==
    GroupIInv /\ CacheIInv /\ [HostGroupNext]_hostGroupVars => GroupIInv'
<1> SUFFICES ASSUME GroupIInv, CacheIInv, [HostGroupNext]_hostGroupVars PROVE GroupIInv'
  OBVIOUS
<1>1. CacheTypeOK'
  BY GroupUsesCache, CacheInvariantStep DEF GroupIInv, CacheIInv
<1>2. UNCHANGED programs => Grouped' = Grouped
  BY DEF Grouped
<1> USE DEF GroupIInv, HostGroupTypeOK, GroupLabels
<1>3. CASE GroupStarts
  <2>1. CASE Grouped
    BY <1>1, <1>2, <1>3, <2>1 DEF GroupStarts, MainKnows, HostsKnown, FilesKnown, HostsReaped, hostVars
  <2>2. CASE ~Grouped
    <3>1. PICK h \in programs : host[h] = "absent" /\ StartHost(h)
      BY <1>3, <2>2 DEF GroupStarts
    <3> QED
      BY <1>1, <1>2, <1>3, <2>2, <3>1
         DEF GroupStarts, StartHost, MainKnows, HostsKnown, FilesKnown, HostsReaped
  <2> QED
    BY <2>1, <2>2
<1>4. ASSUME NEW h \in Hosts, GroupSpawns(h) PROVE GroupIInv'
  <2>1. CASE StartHost(h)
    <3>1. Grouped /\ h \in programs \ spawned /\ host[h] = "absent" /\ gpc = "spawn"
      BY <1>4 DEF GroupSpawns, MainKnows, HostsKnown
    <3>2. /\ host' = [host EXCEPT ![h] = "loading"]
          /\ UNCHANGED <<hostCode, ready, announced, programs, stale, aggregate, published, stopping>>
          /\ spawned' = spawned \cup {h}
          /\ \/ gpc' = (IF spawned' = programs THEN "watch" ELSE "spawn") /\ groupCode' = groupCode
             \/ gpc' = "cleanup" /\ groupCode' = "raised"
      BY <1>4, <2>1, <3>1 DEF GroupSpawns, StartHost, hostVars
    <3>3. HostGroupTypeOK' /\ FilesKnown'
      BY <1>1, <3>1, <3>2 DEF FilesKnown
    <3>4. MainKnows'
      BY <1>2, <3>1, <3>2 DEF MainKnows
    <3>5. HostsKnown'
      BY <1>2, <3>1, <3>2 DEF HostsKnown
    <3>6. HostsReaped'
      BY <3>1, <3>2 DEF HostsReaped
    <3> QED
      BY <3>3, <3>4, <3>5, <3>6
  <2>2. CASE UNCHANGED <<hostVars, spawned>>
    BY <1>1, <1>2, <1>4, <2>2
       DEF GroupSpawns, StartHost, MainKnows, HostsKnown, FilesKnown, HostsReaped, hostVars
  <2> QED
    BY <1>4, <2>1, <2>2 DEF GroupSpawns
<1>5. CASE GroupPolls
  BY <1>1, <1>2, <1>5 DEF GroupPolls, Failures, MainKnows, HostsKnown, FilesKnown, HostsReaped, hostVars
<1>6. CASE GroupPublishes
  BY <1>1, <1>2, <1>6 DEF GroupPublishes, MainKnows, HostsKnown, FilesKnown, HostsReaped, hostVars
<1>7. CASE GroupTerminates
  BY <1>1, <1>2, <1>7, KilledHosts DEF GroupTerminates, GroupTo, MainKnows, HostsReaped
<1>8. CASE GroupReaps
  <2>1. HostsKnown' /\ FilesKnown'
    BY <1>1, <1>2, <1>8, KilledHosts DEF GroupReaps
  <2>2. \A h \in programs : host'[h] = "exited"
    BY <1>8 DEF GroupReaps, GroupTo, HostsKilled, MainKnows, HostsKnown, Alive
  <2> QED
    BY <1>1, <1>2, <1>8, <2>1, <2>2 DEF GroupReaps, GroupTo, HostsKilled, MainKnows, HostsReaped
<1>9. CASE GroupCleans
  BY <1>1, <1>2, <1>9 DEF GroupCleans, MainKnows, HostsKnown, FilesKnown, HostsReaped
<1>10. ASSUME NEW h \in Hosts, HostCompiles(h) PROVE GroupIInv'
  BY <1>1, <1>2, <1>10
     DEF HostCompiles, Outside, groupVars, MainKnows, HostsKnown, FilesKnown, HostsReaped
<1>11. ASSUME NEW h \in Hosts, HostAnnounces(h) PROVE GroupIInv'
  <2>1. h \in programs /\ host[h] = "loading"
    BY <1>11 DEF HostAnnounces, HostsKnown
  <2>2. CASE h \in ready
    BY <1>1, <1>2, <1>11, <2>1, <2>2
       DEF HostAnnounces, HostGone, Outside, groupVars, MainKnows, HostsKnown, FilesKnown, HostsReaped
  <2>3. CASE h \notin ready
    BY <1>1, <1>2, <1>11, <2>1, <2>3
       DEF HostAnnounces, Outside, groupVars, MainKnows, HostsKnown, FilesKnown, HostsReaped
  <2> QED
    BY <2>2, <2>3
<1>12. ASSUME NEW h \in Hosts, HostFails(h) \/ HostEnds(h) PROVE GroupIInv'
  BY <1>1, <1>2, <1>12
     DEF HostFails, HostEnds, HostGone, Outside, groupVars, MainKnows, HostsKnown, FilesKnown, HostsReaped
<1>13. CASE GroupSignalled \/ ReadyRemoved
  <2>1. CASE GroupSignalled
    BY <1>1, <1>2, <1>13, <2>1
       DEF GroupSignalled, hostVars, MainKnows, HostsKnown, FilesKnown, HostsReaped
  <2>2. CASE ReadyRemoved
    <3>1. HostGroupTypeOK' /\ FilesKnown'
      BY <1>1, <2>2 DEF ReadyRemoved, FilesKnown
    <3>2. MainKnows'
      BY <1>2, <2>2 DEF ReadyRemoved, MainKnows
    <3>3. HostsKnown'
      BY <1>2, <2>2 DEF ReadyRemoved, HostsKnown
    <3>4. HostsReaped'
      BY <2>2 DEF ReadyRemoved, HostsReaped, MainKnows
    <3> QED
      BY <3>1, <3>2, <3>3, <3>4
  <2> QED
    BY <1>13, <2>1, <2>2
<1>14. CASE GroupKilled \/ HostKilled
  <2>1. {h \in Hosts : Alive(h)} \subseteq programs
    BY DEF HostsKnown, Alive
  <2>2. HostsKilled({h \in Hosts : Alive(h)} \cap programs)
    BY <1>14, <2>1 DEF GroupKilled, HostKilled
  <2> QED
    BY <1>1, <1>2, <1>14, <2>2, KilledHosts DEF GroupKilled, HostKilled, groupVars, MainKnows, HostsReaped
<1>15. CASE UNCHANGED hostGroupVars
  BY <1>1, <1>2, <1>15
     DEF hostGroupVars, hostVars, groupVars, MainKnows, HostsKnown, FilesKnown, HostsReaped
<1> QED
  BY <1>3, <1>4, <1>5, <1>6, <1>7, <1>8, <1>9, <1>10, <1>11, <1>12, <1>13, <1>14, <1>15
     DEF HostGroupNext, GroupStep, HostStep

LEMMA GroupInvariant == HostGroupSpec => [](GroupIInv /\ CacheIInv)
<1>1. HostGroupInit => GroupIInv /\ CacheIInv
  BY GroupInvariantInit, CacheInvariantInit DEF HostGroupInit
<1>2. GroupIInv /\ CacheIInv /\ [HostGroupNext]_hostGroupVars => (GroupIInv /\ CacheIInv)'
  BY GroupInvariantStep, GroupUsesCache, CacheInvariantStep DEF GroupIInv
<1> QED
  BY <1>1, <1>2, PTL DEF HostGroupSpec

\* host_group.main: for any number of hosts, whichever of them fail, are killed or
\* are told to stop whenever, the aggregate readiness file stands for hosts of this
\* launch that were all ready, unless an earlier incarnation left files of its own;
\* main succeeds only after all of them were ready and have succeeded, and a group
\* that has returned leaves neither a living host nor such a file.
THEOREM GroupHostsAreTrue == HostGroupSpec => []HostsAreTrue
<1>1. GroupIInv => HostsAreTrue
  BY DEF GroupIInv, HostGroupTypeOK, MainKnows, HostsKnown, FilesKnown, HostsAreTrue, ReadinessIsTrue
<1> QED
  BY <1>1, GroupInvariant, PTL

\* The hosts of a group implement the clients of the compile cache: they enter it,
\* step through it and die in it as CompileCache allows, and in no other way.
THEOREM GroupImplementsCache == HostGroupSpec => CacheSpec
<1>1. HostGroupInit => CacheInit
  BY DEF HostGroupInit
<1>2. GroupIInv /\ [HostGroupNext]_hostGroupVars => [CacheNext]_cacheVars
  BY GroupUsesCache DEF GroupIInv
<1> QED
  BY <1>1, <1>2, GroupInvariant, PTL DEF HostGroupSpec, CacheSpec

\* main.cpp and compile_source: therefore no host ever loads a library that is
\* still being compiled, and no two of them compile one, also where hosts are
\* killed in the middle of it.
THEOREM GroupLoadsWhole == HostGroupSpec => []LibraryIsWhole
BY GroupImplementsCache, CacheLibraryIsWhole, PTL

-----------------------------------------------------------------------------
(***************************************************************************)
(* Evaluation.                                                             *)
(***************************************************************************)

\* A set of natural numbers that is not empty has a least element.
LEMMA LeastElement ==
    ASSUME NEW S \in SUBSET Nat, S # {} PROVE \E x \in S : \A y \in S : x <= y
<1> DEFINE below == {p \in Nat \X Nat : p[1] < p[2]}
<1>1. IsWellFoundedOn(OpToRel(<, Nat), Nat)
  BY NatLessThanWellFounded
<1>2. OpToRel(<, Nat) = below
  BY Zenon DEF OpToRel
<1>3. IsWellFoundedOn(below, Nat)
  BY <1>1, <1>2, Zenon
<1>4. \E x \in S : \A y \in S : ~(<<y, x>> \in below)
  BY <1>3, WFMin
<1>5. \A x, y \in Nat : ~(<<y, x>> \in below) => x <= y
  OBVIOUS
<1> HIDE DEF below
<1> QED
  BY <1>4, <1>5

\* Induction, for a set.
LEMMA AllNumbers ==
    ASSUME NEW T, 0 \in T, \A n \in Nat : n \in T => n + 1 \in T PROVE Nat \subseteq T
<1> SUFFICES ASSUME ~(Nat \subseteq T) PROVE FALSE
  OBVIOUS
<1>1. PICK x \in Nat \ T : \A y \in Nat \ T : x <= y
  BY LeastElement
<1>2. x - 1 \in Nat \ T
  BY <1>1
<1> QED
  BY <1>1, <1>2

(***************************************************************************)
(* How the rows of a batch are divided.                                    *)
(***************************************************************************)

\* Where range k of count rows starts.
RowStart(k, count, workers) == k * (count \div workers) + Smaller(k, count % workers)

\* Quotient and remainder.
LEMMA DivisionOf ==
    ASSUME NEW a \in Nat, NEW b \in Nat \ {0}
    PROVE  a \div b \in Nat /\ a % b \in 0..b - 1 /\ a = b * (a \div b) + (a % b)
OBVIOUS

\* Of the division of rows among no more workers than rows.
LEMMA Division ==
    ASSUME NEW count \in Nat, NEW workers \in Nat \ {0}, workers <= count
    PROVE  /\ count \div workers \in Nat \ {0} /\ count % workers \in 0..workers - 1
           /\ count = workers * (count \div workers) + (count % workers)
<1>1. /\ count = workers * (count \div workers) + (count % workers)
      /\ count \div workers \in Nat /\ count % workers \in 0..workers - 1
  OBVIOUS
<1>2. count \div workers # 0
  <2> SUFFICES ASSUME count \div workers = 0 PROVE FALSE
    OBVIOUS
  <2>1. workers * (count \div workers) = 0
    OBVIOUS
  <2> QED
    BY <1>1, <2>1
<1> QED
  BY <1>1, <1>2

\* More rows cannot take less.
LEMMA Monotone ==
    ASSUME NEW a \in Int, NEW b \in Int, NEW q \in Nat, a <= b
    PROVE  a * q <= b * q
<1>1. (b - a) * q >= 0
  OBVIOUS
<1>2. (b - a) * q = b * q - a * q
  OBVIOUS
<1>3. a * q \in Int /\ b * q \in Int
  OBVIOUS
<1> QED
  BY <1>1, <1>2, <1>3

\* Starts increase from 0 to count.
LEMMA StartBounds ==
    ASSUME NEW count \in Nat, NEW workers \in Nat \ {0}, workers <= count,
           NEW k \in 0..workers
    PROVE  /\ RowStart(k, count, workers) \in 0..count
           /\ RowStart(0, count, workers) = 0
           /\ RowStart(workers, count, workers) = count
           /\ k # 0 => RowStart(k, count, workers) > 0
           /\ k # workers => RowStart(k, count, workers) < count
<1> DEFINE q == count \div workers
           m == count % workers
<1>1. q \in Nat \ {0} /\ m \in 0..workers - 1 /\ count = workers * q + m
  BY Division
<1>2. RowStart(k, count, workers) = k * q + Smaller(k, m)
  BY DEF RowStart
<1>3. RowStart(0, count, workers) = 0 * q + Smaller(0, m)
  BY DEF RowStart
<1>4. RowStart(workers, count, workers) = workers * q + Smaller(workers, m)
  BY DEF RowStart
<1> HIDE DEF q, m
<1>5. Smaller(0, m) = 0 /\ Smaller(workers, m) = m /\ Smaller(k, m) \in 0..m
  BY <1>1 DEF Smaller
<1>6. k * q <= workers * q /\ k * q \in Nat
  BY <1>1, Monotone
<1>7. k # 0 => k * q >= q
  <2>1. ASSUME k # 0 PROVE 1 * q <= k * q
    BY <1>1, <2>1, Monotone
  <2> QED
    BY <1>1, <2>1
<1>8. k # workers => (workers - 1) * q >= k * q /\ (workers - 1) * q = workers * q - q
  <2>1. ASSUME k # workers PROVE k * q <= (workers - 1) * q
    BY <1>1, <2>1, Monotone
  <2>2. (workers - 1) * q = workers * q - q
    BY <1>1
  <2> QED
    BY <1>1, <2>1, <2>2
<1>9. workers * q \in Nat /\ 0 * q = 0
  BY <1>1
<1> QED
  BY <1>1, <1>2, <1>3, <1>4, <1>5, <1>6, <1>7, <1>8, <1>9

\* A range ends where the next one starts, and later ones start no earlier.
LEMMA StartGrows ==
    ASSUME NEW count \in Nat, NEW workers \in Nat \ {0}, workers <= count,
           NEW j \in 0..workers, NEW k \in 0..workers, j <= k
    PROVE  RowStart(j, count, workers) <= RowStart(k, count, workers)
<1> DEFINE q == count \div workers
           m == count % workers
<1>1. q \in Nat \ {0} /\ m \in 0..workers - 1
  BY Division
<1>2. RowStart(j, count, workers) = j * q + Smaller(j, m) /\ RowStart(k, count, workers) = k * q + Smaller(k, m)
  BY DEF RowStart
<1> HIDE DEF q, m
<1>3. j * q <= k * q /\ j * q \in Int /\ k * q \in Int
  BY <1>1, Monotone
<1>4. Smaller(j, m) <= Smaller(k, m) /\ Smaller(j, m) \in Int /\ Smaller(k, m) \in Int
  BY <1>1 DEF Smaller
<1> QED
  BY <1>2, <1>3, <1>4

\* Every row is in the range that the quotient of its index leads to: the first ranges
\* have a row more than the others.
LEMMA RowHasRange ==
    ASSUME NEW count \in Nat, NEW workers \in Nat \ {0}, workers <= count, NEW n \in 1..count
    PROVE  \E k \in 0..workers - 1 :
              RowStart(k, count, workers) < n /\ n <= RowStart(k + 1, count, workers)
<1> DEFINE q == count \div workers
           m == count % workers
<1>1. q \in Nat \ {0} /\ m \in 0..workers - 1 /\ count = workers * q + m
  BY Division
<1>2. \A k \in Int : RowStart(k, count, workers) = k * q + Smaller(k, m)
  BY DEF RowStart
<1> HIDE DEF q, m
<1>3. m * q \in Nat /\ workers * q \in Nat
  BY <1>1
<1>4. CASE n <= m * q + m
  <2> DEFINE k == (n - 1) \div (q + 1)
             rest == (n - 1) % (q + 1)
  <2>1. k \in Nat /\ rest \in 0..q /\ n - 1 = (q + 1) * k + rest
    <3>1. n - 1 \in Nat /\ q + 1 \in Nat \ {0}
      BY <1>1
    <3>2. k \in Nat /\ rest \in 0..(q + 1) - 1 /\ n - 1 = (q + 1) * k + rest
      BY <3>1, DivisionOf, Zenon
    <3> HIDE DEF k, rest
    <3>3. (q + 1) - 1 = q
      BY <1>1
    <3> QED
      BY <3>2, <3>3
  <2> HIDE DEF k, rest
  <2>2. (q + 1) * k = k * q + k /\ k * q \in Nat /\ (k + 1) * q = k * q + q
    BY <1>1, <2>1
  <2>3. k < m
    <3> SUFFICES ASSUME m <= k PROVE FALSE
      BY <1>1, <2>1
    <3>1. m * q <= k * q
      BY <1>1, <2>1, Monotone
    <3> QED
      BY <1>1, <1>3, <1>4, <2>1, <2>2, <3>1
  <2>4. Smaller(k, m) = k /\ Smaller(k + 1, m) = k + 1
    BY <1>1, <2>1, <2>3 DEF Smaller
  <2>5. RowStart(k, count, workers) = k * q + k /\ RowStart(k + 1, count, workers) = (k + 1) * q + (k + 1)
    BY <1>2, <2>1, <2>4
  <2>6. RowStart(k, count, workers) < n /\ n <= RowStart(k + 1, count, workers)
    BY <1>1, <2>1, <2>2, <2>5
  <2> QED
    BY <1>1, <2>1, <2>3, <2>6
<1>5. CASE n > m * q + m
  <2> DEFINE beyond == n - 1 - m * q - m
             j == beyond \div q
             rest == beyond % q
             k == m + j
  <2>1. beyond \in Nat /\ beyond = n - 1 - m * q - m
    BY <1>1, <1>3, <1>5
  <2> HIDE DEF beyond
  <2>2. j \in Nat /\ rest \in 0..q - 1 /\ beyond = q * j + rest
    BY <1>1, <2>1
  <2>3. k = m + j
    OBVIOUS
  <2> HIDE DEF j, rest, k
  <2>4. k \in Nat /\ k * q = m * q + q * j /\ (k + 1) * q = m * q + q * j + q /\ q * j \in Nat
    BY <1>1, <2>2, <2>3
  <2>5. k < workers
    <3> SUFFICES ASSUME workers <= k PROVE FALSE
      BY <2>4
    <3>1. workers * q <= k * q
      BY <1>1, <2>4, Monotone
    <3> QED
      BY <1>1, <1>3, <2>1, <2>2, <2>4, <3>1
  <2>6. Smaller(k, m) = m /\ Smaller(k + 1, m) = m
    BY <1>1, <2>2, <2>3 DEF Smaller
  <2>7. RowStart(k, count, workers) = k * q + m /\ RowStart(k + 1, count, workers) = (k + 1) * q + m
    BY <1>2, <2>4, <2>6
  <2>8. RowStart(k, count, workers) < n /\ n <= RowStart(k + 1, count, workers)
    BY <1>1, <1>3, <2>1, <2>2, <2>4, <2>7
  <2> QED
    BY <2>4, <2>5, <2>8
<1> QED
  BY <1>1, <1>3, <1>4, <1>5

\* The ranges in terms of their starts.
LEMMA RangesAre ==
    ASSUME NEW count \in Nat \ {0}, NEW budget \in Nat \ {0}
    PROVE  \E workers \in Nat \ {0} :
              /\ workers <= count /\ workers <= budget
              /\ Ranges(count, budget) =
                    {<<RowStart(k, count, workers), RowStart(k + 1, count, workers)>> : k \in 0..workers - 1}
<1> DEFINE workers == Smaller(budget, count)
<1>1. workers \in Nat \ {0} /\ workers <= count /\ workers <= budget
  BY DEF Smaller
<1>2. CASE workers <= 1
  <2>1. workers = 1 /\ 0..workers - 1 = {0}
    BY <1>1, <1>2
  <2>2. Ranges(count, budget) = {<<0, count>>}
    BY <1>2 DEF Ranges
  <2>3. RowStart(0, count, workers) = 0 /\ RowStart(1, count, workers) = count
    BY <1>1, <2>1, StartBounds
  <2> HIDE DEF workers
  <2> QED
    BY <1>1, <2>1, <2>2, <2>3
<1>3. CASE ~(workers <= 1)
  <2>1. Ranges(count, budget) =
           {<<RowStart(k, count, workers), RowStart(k + 1, count, workers)>> : k \in 0..workers - 1}
    BY <1>3 DEF Ranges, RowStart
  <2> HIDE DEF workers
  <2> QED
    BY <1>1, <2>1
<1> QED
  BY <1>2, <1>3

Has(range, n) == range[1] < n /\ n <= range[2]

\* The ranges that generate_source and _compiled_evaluator hand out are a partition of
\* the rows: each row is computed once, for every number of rows and every budget.
THEOREM RangesPartition ==
    ASSUME NEW count \in Nat \ {0}, NEW budget \in Nat \ {0}
    PROVE  /\ Ranges(count, budget) \subseteq (0..count) \X (0..count)
           /\ \A n \in 1..count : \E range \in Ranges(count, budget) : Has(range, n)
           /\ \A n \in 1..count : \A one, other \in Ranges(count, budget) :
                 Has(one, n) /\ Has(other, n) => one = other
<1>1. PICK workers \in Nat \ {0} :
          /\ workers <= count
          /\ Ranges(count, budget) =
                {<<RowStart(k, count, workers), RowStart(k + 1, count, workers)>> : k \in 0..workers - 1}
  BY RangesAre
<1>2. \A k \in 0..workers : RowStart(k, count, workers) \in 0..count
  BY <1>1, StartBounds
<1>3. \A k \in 0..workers - 1 : k \in 0..workers /\ k + 1 \in 0..workers
  BY <1>1
<1>4. Ranges(count, budget) \subseteq (0..count) \X (0..count)
  BY <1>1, <1>2, <1>3
<1>5. ASSUME NEW n \in 1..count PROVE \E range \in Ranges(count, budget) : Has(range, n)
  <2>1. PICK k \in 0..workers - 1 : RowStart(k, count, workers) < n /\ n <= RowStart(k + 1, count, workers)
    BY <1>1, RowHasRange
  <2> DEFINE range == <<RowStart(k, count, workers), RowStart(k + 1, count, workers)>>
  <2>2. range \in Ranges(count, budget)
    BY <1>1
  <2>3. Has(range, n)
    BY <2>1 DEF Has
  <2> HIDE DEF range
  <2> QED
    BY <2>2, <2>3
<1>6. ASSUME NEW n \in 1..count, NEW one \in Ranges(count, budget), NEW other \in Ranges(count, budget),
             Has(one, n), Has(other, n)
      PROVE  one = other
  <2>1. PICK j \in 0..workers - 1 : one = <<RowStart(j, count, workers), RowStart(j + 1, count, workers)>>
    BY <1>1
  <2>2. PICK k \in 0..workers - 1 : other = <<RowStart(k, count, workers), RowStart(k + 1, count, workers)>>
    BY <1>1
  <2>3. /\ RowStart(j, count, workers) < n /\ n <= RowStart(j + 1, count, workers)
        /\ RowStart(k, count, workers) < n /\ n <= RowStart(k + 1, count, workers)
    BY <1>6, <2>1, <2>2 DEF Has
  <2>4. ~(j + 1 <= k)
    <3> SUFFICES ASSUME j + 1 <= k PROVE FALSE
      OBVIOUS
    <3>1. RowStart(j + 1, count, workers) <= RowStart(k, count, workers)
      BY <1>1, <1>3, StartGrows
    <3> QED
      BY <1>2, <1>3, <2>3, <3>1
  <2>5. ~(k + 1 <= j)
    <3> SUFFICES ASSUME k + 1 <= j PROVE FALSE
      OBVIOUS
    <3>1. RowStart(k + 1, count, workers) <= RowStart(j, count, workers)
      BY <1>1, <1>3, StartGrows
    <3> QED
      BY <1>2, <1>3, <2>3, <3>1
  <2>6. j = k
    BY <2>4, <2>5
  <2> QED
    BY <2>1, <2>2, <2>6
<1> QED
  BY <1>4, <1>5, <1>6

\* A range of all rows is the only one.
LEMMA WholeRange ==
    ASSUME NEW count \in Nat \ {0}, NEW budget \in Nat \ {0}, <<0, count>> \in Ranges(count, budget)
    PROVE  Ranges(count, budget) = {<<0, count>>}
<1>1. PICK workers \in Nat \ {0} :
          /\ workers <= count
          /\ Ranges(count, budget) =
                {<<RowStart(k, count, workers), RowStart(k + 1, count, workers)>> : k \in 0..workers - 1}
  BY RangesAre
<1>2. PICK k \in 0..workers - 1 : RowStart(k, count, workers) = 0 /\ RowStart(k + 1, count, workers) = count
  BY <1>1
<1>3. k \in 0..workers /\ k + 1 \in 0..workers
  BY <1>1
<1>4. k = 0
  BY <1>1, <1>2, <1>3, StartBounds
<1>5. k + 1 = workers
  BY <1>1, <1>2, <1>3, StartBounds
<1>6. 0..workers - 1 = {0}
  BY <1>4, <1>5
<1> QED
  BY <1>1, <1>2, <1>4, <1>6

-----------------------------------------------------------------------------
(***************************************************************************)
(* The inductive invariant.                                                *)
(***************************************************************************)

\* The keys of an exchange of a rank.
KeysOf(r, exchange) ==
    IF format \in {"compiled", "joblib"} THEN {}
    ELSE IF format = "function" THEN {Invocation(exchange, r)}
    ELSE {<<Invocation(exchange, r), n>> : n \in IF format = "batched" THEN {0} ELSE 1..rows[r]}

\* The ranges of the rows of a rank.
RangesFor(r) == IF format = "compiled" THEN Ranges(rows[r], threads) ELSE {<<0, rows[r]>>}
RangeOf(task) == <<task.first, task.last>>

\* Every answer is what it should be.
AnswersKnown ==
    \A a \in answers :
        /\ a.rank \in Served /\ a.exchange \in 1..Rounds
        /\ a.output = [n \in 1..rows[a.rank] |-> <<a.rank, a.exchange>>]
        /\ a.keys = KeysOf(a.rank, a.exchange)

\* A row of the evaluation under way is written, or a task of it will write it, unless
\* one has raised.
RowsCovered ==
    turn # NoRank =>
        \A n \in 1..rows[turn] :
            \/ failed \/ output[n] = <<turn, asked[turn]>>
            \/ \E task \in ranges \cup active : Own(task) /\ Has(RangeOf(task), n)

\* Tasks that are left over are of ranks that have been answered with an error.
TasksKnown ==
    /\ turn # NoRank => turn \notin lost /\ asked[turn] # 0
    /\ \A task \in ranges \cup active :
          /\ Own(task) \/ task.rank \in lost
          /\ Own(task) => RangeOf(task) \in RangesFor(turn)

Pooled == {task \in active : ~Direct(task)}
PoolKept == IsFiniteSet(active) /\ Cardinality(Pooled) <= threads

ResidentIInv == ResidentTypeOK /\ AnswersKnown /\ RowsCovered /\ TasksKnown /\ PoolKept

\* What an evaluator makes of the exchange of a rank.
LEMMA EvaluatorMakes ==
    ASSUME ResidentTypeOK, NEW r \in Served
    PROVE  Evaluator(r).keys = KeysOf(r, asked[r]) /\ Evaluator(r).ranges = RangesFor(r)
<1>1. format \in EvaluatorFormats
  BY DEF ResidentTypeOK
<1>2. CASE format = "compiled"
  BY <1>2 DEF Evaluator, KeysOf, RangesFor, CompiledBatch
<1>3. CASE format = "joblib"
  BY <1>3 DEF Evaluator, KeysOf, RangesFor, JoblibBatch
<1>4. CASE format = "function"
  BY <1>4 DEF Evaluator, KeysOf, RangesFor, FunctionBatch
<1>5. CASE format \in {"equinox", "batched"}
  BY <1>5 DEF Evaluator, KeysOf, RangesFor, EquinoxBatch
<1> QED
  BY <1>1, <1>2, <1>3, <1>4, <1>5 DEF EvaluatorFormats

\* The ranges cover the rows, and one of all rows is alone.
LEMMA RangesDivide ==
    ASSUME ResidentTypeOK, NEW r \in Served
    PROVE  /\ rows[r] \in 1..MaxRows /\ rows[r] \in Nat \ {0}
           /\ RangesFor(r) \subseteq (0..rows[r]) \X (0..rows[r])
           /\ \A n \in 1..rows[r] : \E range \in RangesFor(r) : Has(range, n)
           /\ <<0, rows[r]>> \in RangesFor(r) => RangesFor(r) = {<<0, rows[r]>>}
<1>1. rows[r] \in 1..MaxRows /\ threads \in 1..MaxThreads
  BY ResidentAssumption DEF ResidentTypeOK, Served
<1>2. rows[r] \in Nat \ {0} /\ threads \in Nat \ {0}
  BY <1>1, ResidentAssumption
<1>3. CASE format = "compiled"
  <2>1. RangesFor(r) = Ranges(rows[r], threads)
    BY <1>3 DEF RangesFor
  <2>2. /\ Ranges(rows[r], threads) \subseteq (0..rows[r]) \X (0..rows[r])
        /\ \A n \in 1..rows[r] : \E range \in Ranges(rows[r], threads) : Has(range, n)
    BY <1>2, RangesPartition
  <2>3. <<0, rows[r]>> \in Ranges(rows[r], threads) => Ranges(rows[r], threads) = {<<0, rows[r]>>}
    BY <1>2, WholeRange
  <2> QED
    BY <1>1, <2>1, <2>2, <2>3
<1>4. CASE format # "compiled"
  <2>1. RangesFor(r) = {<<0, rows[r]>>}
    BY <1>4 DEF RangesFor
  <2>2. \A n \in 1..rows[r] : Has(<<0, rows[r]>>, n)
    BY <1>2 DEF Has
  <2>3. RangesFor(r) \subseteq (0..rows[r]) \X (0..rows[r])
    BY <1>2, <2>1
  <2>4. \A n \in 1..rows[r] : \E range \in RangesFor(r) : Has(range, n)
    BY <2>1, <2>2
  <2> QED
    BY <1>1, <2>1, <2>3, <2>4
<1> QED
  BY <1>3, <1>4

LEMMA ResidentInvariantInit == ResidentInit => ResidentIInv
<1> SUFFICES ASSUME ResidentInit PROVE ResidentIInv
  OBVIOUS
<1>1. ResidentTypeOK
  <2>1. output \in RowOf
    <3>1. Blank \in (0..MaxServed) \X (0..Rounds)
      BY ResidentAssumption DEF Blank
    <3> QED
      BY <3>1 DEF ResidentInit, RowOf
  <2>2. served \in Nat /\ turn \in 0..served
    BY ResidentAssumption DEF ResidentInit, NoRank
  <2>3. asked \in [1..MaxServed -> 0..Rounds] /\ round \in [1..MaxServed -> 0..Rounds]
    BY ResidentAssumption DEF ResidentInit
  <2> QED
    BY <2>1, <2>2, <2>3 DEF ResidentInit, ResidentTypeOK
<1>2. AnswersKnown /\ RowsCovered /\ TasksKnown
  BY DEF ResidentInit, AnswersKnown, RowsCovered, TasksKnown
<1>3. IsFiniteSet(active) /\ Cardinality(Pooled) = 0 /\ threads \in Nat
  <2>1. Pooled = {} /\ active = {}
    BY DEF ResidentInit, Pooled
  <2> QED
    BY <2>1, FS_EmptySet, ResidentAssumption DEF ResidentInit
<1> QED
  BY <1>1, <1>2, <1>3, ResidentAssumption DEF ResidentIInv, PoolKept

-----------------------------------------------------------------------------
(***************************************************************************)
(* Its steps.                                                              *)
(***************************************************************************)

\* A fact in all steps: who is served with what does not change.
LEMMA ShapeStays ==
    ASSUME UNCHANGED residentShape
    PROVE  /\ UNCHANGED <<served, format, scope, threads, rows>>
           /\ Served' = Served /\ (\A r : RangesFor(r)' = RangesFor(r))
           /\ \A r, exchange : KeysOf(r, exchange)' = KeysOf(r, exchange)
<1>1. UNCHANGED <<served, format, scope, threads, rows>>
  BY DEF residentShape
<1>2. \A r, exchange : Invocation(exchange, r)' = Invocation(exchange, r)
  BY <1>1 DEF Invocation, RootKey, FoldIn
<1> QED
  BY <1>1, <1>2 DEF Served, RangesFor, KeysOf

\* The exchange that is being evaluated.
LEMMA TurnKnown ==
    ASSUME ResidentIInv, turn # NoRank
    PROVE  /\ turn \in Served /\ turn \in 1..MaxServed /\ turn \notin lost
           /\ asked[turn] \in 1..Rounds /\ rows[turn] \in 1..MaxRows
<1>1. turn \in 0..served /\ served \in 0..MaxServed /\ served \in Nat /\ MaxServed \in Nat
  BY ResidentAssumption DEF ResidentIInv, ResidentTypeOK
<1>2. turn \in Served /\ turn \in 1..MaxServed
  BY <1>1 DEF Served, NoRank
<1>3. asked[turn] \in 0..Rounds /\ asked[turn] # 0 /\ turn \notin lost
  BY <1>2 DEF ResidentIInv, ResidentTypeOK, TasksKnown
<1>4. asked[turn] \in 1..Rounds
  BY <1>3, ResidentAssumption
<1> QED
  BY <1>2, <1>3, <1>4, RangesDivide DEF ResidentIInv

\* A rank that waits is one the host serves.
LEMMA ServedRank ==
    ASSUME ResidentIInv, NEW r \in Served
    PROVE  /\ r \in 1..MaxServed /\ r # NoRank /\ r \in 0..served
           /\ asked[r] \in 0..Rounds /\ round[r] \in 0..Rounds
<1>1. served \in 0..MaxServed /\ served \in Nat /\ MaxServed \in Nat
  BY ResidentAssumption DEF ResidentIInv, ResidentTypeOK
<1>2. r \in 1..MaxServed /\ r # NoRank /\ r \in 0..served
  BY <1>1 DEF Served, NoRank
<1> QED
  BY <1>2 DEF ResidentIInv, ResidentTypeOK

LEMMA AsksKeeps ==
    ASSUME ResidentIInv, NEW r \in Served, RankAsks(r)
    PROVE  ResidentIInv'
<1>1. /\ UNCHANGED <<residentShape, turn, ranges, active, failed, lost, output, answers>>
      /\ asked[r] = 0 /\ round[r] < Rounds /\ round' = [round EXCEPT ![r] = @ + 1]
      /\ asked' = [asked EXCEPT ![r] = round[r] + 1]
  BY DEF RankAsks
<1>2. UNCHANGED <<served, format, scope, threads, rows>>
  BY <1>1, ShapeStays
<1>3. round[r] + 1 \in 0..Rounds /\ r \in 1..MaxServed
  BY <1>1, ServedRank, ResidentAssumption
<1>4. ResidentTypeOK'
  <2>1. asked' \in [1..MaxServed -> 0..Rounds] /\ round' \in [1..MaxServed -> 0..Rounds]
    BY <1>1, <1>3 DEF ResidentIInv, ResidentTypeOK
  <2> QED
    BY <1>1, <1>2, <2>1 DEF ResidentIInv, ResidentTypeOK, Served, RowOf, Tasks
<1>5. turn # NoRank => asked'[turn] = asked[turn]
  BY <1>1, TurnKnown DEF ResidentIInv, ResidentTypeOK
<1>6. \A task : Own(task)' = Own(task)
  BY <1>1, <1>5 DEF Own
<1>7. AnswersKnown'
  BY <1>1, <1>2, ShapeStays DEF ResidentIInv, AnswersKnown
<1>8. RowsCovered'
  BY <1>1, <1>2, <1>5, <1>6 DEF ResidentIInv, RowsCovered
<1>9. TasksKnown'
  BY <1>1, <1>2, <1>5, <1>6, ShapeStays DEF ResidentIInv, TasksKnown
<1>10. PoolKept'
  BY <1>1, <1>2 DEF ResidentIInv, PoolKept, Pooled, Direct
<1> QED
  BY <1>4, <1>7, <1>8, <1>9, <1>10 DEF ResidentIInv

LEMMA BeginsKeeps ==
    ASSUME ResidentIInv, NEW r \in Served, EvaluationBegins(r)
    PROVE  ResidentIInv'
<1> DEFINE Made(range) == [first |-> range[1], last |-> range[2], rank |-> r, exchange |-> asked[r]]
<1>1. /\ UNCHANGED <<residentShape, asked, round, active, lost, answers>>
      /\ turn = NoRank /\ asked[r] # 0 /\ r \notin lost /\ turn' = r
      /\ ranges' = ranges \cup {Made(range) : range \in RangesFor(r)}
      /\ failed' = FALSE /\ output' = [n \in 1..MaxRows |-> Blank]
  BY EvaluatorMakes DEF EvaluationBegins, ResidentIInv
<1>2. UNCHANGED <<served, format, scope, threads, rows>> /\ RangesFor(r)' = RangesFor(r)
  BY <1>1, ShapeStays
<1>3. /\ r \in 1..MaxServed /\ r # NoRank /\ r \in 0..served /\ asked[r] \in 1..Rounds
      /\ rows[r] \in 1..MaxRows
  <2>1. ResidentTypeOK
    BY DEF ResidentIInv
  <2>2. rows[r] \in 1..MaxRows
    BY <2>1, RangesDivide
  <2>3. asked[r] \in 0..Rounds /\ asked[r] # 0 /\ Rounds \in Nat
    BY <1>1, ServedRank, ResidentAssumption
  <2> QED
    BY <2>2, <2>3, ServedRank
<1>4. ASSUME NEW range \in RangesFor(r), NEW task, task = Made(range)
      PROVE  task \in Tasks /\ RangeOf(task) = range /\ Own(task)'
  <2>0. range \in (0..rows[r]) \X (0..rows[r])
    BY RangesDivide DEF ResidentIInv
  <2>1. PICK a \in 0..rows[r], b \in 0..rows[r] : range = <<a, b>>
    BY <2>0
  <2>2. a \in 0..MaxRows /\ b \in 0..MaxRows
    BY <1>3, ResidentAssumption
  <2> QED
    BY <1>1, <1>3, <1>4, <2>1, <2>2 DEF Tasks, RangeOf, Own
<1>5. \A task \in ranges \cup active : task.rank \in lost /\ ~Own(task)'
  BY <1>1, <1>3 DEF ResidentIInv, TasksKnown, Own
<1> HIDE DEF Made
<1>6. ResidentTypeOK'
  <2>1. output' \in RowOf
    <3>1. Blank \in (0..MaxServed) \X (0..Rounds)
      BY ResidentAssumption DEF Blank
    <3> QED
      BY <1>1, <3>1 DEF RowOf
  <2>2. ranges' \cup active' \subseteq Tasks
    BY <1>1, <1>4 DEF ResidentIInv, ResidentTypeOK
  <2> QED
    BY <1>1, <1>2, <1>3, <2>1, <2>2 DEF ResidentIInv, ResidentTypeOK, Served, RowOf, Tasks
<1>7. AnswersKnown'
  BY <1>1, <1>2, ShapeStays DEF ResidentIInv, AnswersKnown
<1>8. RowsCovered'
  <2> SUFFICES ASSUME NEW n \in 1..rows[r]
               PROVE  \E task \in ranges' \cup active' : Own(task)' /\ Has(RangeOf(task), n)
    BY <1>1, <1>2 DEF RowsCovered
  <2>1. PICK range \in RangesFor(r) : Has(range, n)
    BY RangesDivide DEF ResidentIInv
  <2>2. PICK task : task = Made(range)
    OBVIOUS
  <2>3. task \in ranges' /\ Own(task)' /\ RangeOf(task) = range
    BY <1>1, <1>4, <2>2
  <2> QED
    BY <2>1, <2>3
<1>9. TasksKnown'
  <2>1. turn' \notin lost' /\ asked'[turn'] # 0
    BY <1>1
  <2>2. ASSUME NEW task \in ranges' \cup active'
        PROVE  /\ Own(task)' \/ task.rank \in lost'
               /\ Own(task)' => RangeOf(task) \in RangesFor(r)
    <3>1. CASE task \in ranges \cup active
      BY <1>1, <1>5, <3>1
    <3>2. CASE \E range \in RangesFor(r) : task = Made(range)
      BY <1>4, <3>2
    <3> QED
      BY <1>1, <2>2, <3>1, <3>2
  <2> QED
    BY <1>1, <1>2, <2>1, <2>2 DEF TasksKnown
<1>10. PoolKept'
  BY <1>1, <1>2 DEF ResidentIInv, PoolKept, Pooled, Direct
<1> QED
  BY <1>6, <1>7, <1>8, <1>9, <1>10 DEF ResidentIInv

\* The steps of a task change neither the exchange under way nor the answers.
LEMMA TaskSteps ==
    ASSUME ResidentIInv, UNCHANGED <<residentShape, asked, round, turn, lost, answers>>
    PROVE  /\ UNCHANGED <<served, format, scope, threads, rows>> /\ AnswersKnown'
           /\ \A task : (Own(task)' <=> Own(task)) /\ (Direct(task)' <=> Direct(task))
           /\ RangesFor(turn)' = RangesFor(turn)
<1>1. UNCHANGED <<served, format, scope, threads, rows>>
  BY ShapeStays
<1>2. AnswersKnown'
  BY <1>1, ShapeStays DEF ResidentIInv, AnswersKnown
<1> QED
  BY <1>1, <1>2 DEF Own, Direct, RangesFor

LEMMA RangeBeginsKeeps ==
    ASSUME ResidentIInv, NEW t \in ranges \cup active, RangeBegins(t)
    PROVE  ResidentIInv'
<1>1. /\ UNCHANGED <<residentShape, asked, round, turn, failed, lost, output, answers>>
      /\ t \in ranges /\ ranges' = ranges \ {t} /\ active' = active \cup {t}
      /\ Direct(t) \/ Cardinality(Pooled) < threads
  BY DEF RangeBegins, Pooled
<1>2. /\ UNCHANGED <<served, format, scope, threads, rows>> /\ AnswersKnown'
      /\ \A task : (Own(task)' <=> Own(task)) /\ (Direct(task)' <=> Direct(task))
      /\ RangesFor(turn)' = RangesFor(turn)
  BY <1>1, TaskSteps
<1>3. ranges' \cup active' = ranges \cup active
  BY <1>1
<1>4. ResidentTypeOK'
  BY <1>1, <1>2, <1>3 DEF ResidentIInv, ResidentTypeOK, Served, RowOf, Tasks
<1>5. RowsCovered'
  BY <1>1, <1>2, <1>3 DEF ResidentIInv, RowsCovered
<1>6. TasksKnown'
  BY <1>1, <1>2, <1>3 DEF ResidentIInv, TasksKnown
<1>7. PoolKept'
  <2>1. IsFiniteSet(active) /\ Cardinality(Pooled) <= threads /\ Pooled \subseteq active
    BY DEF ResidentIInv, PoolKept, Pooled
  <2>2. IsFiniteSet(active') /\ IsFiniteSet(Pooled) /\ Cardinality(Pooled) \in Nat
    BY <1>1, <2>1, FS_AddElement, FS_Subset, FS_CardinalityType
  <2>3. CASE Direct(t)
    <3>1. Pooled' = Pooled
      BY <1>1, <1>2, <2>3 DEF Pooled
    <3> QED
      BY <1>2, <2>1, <2>2, <3>1 DEF PoolKept
  <2>4. CASE ~Direct(t)
    <3>1. Pooled' = Pooled \cup {t}
      BY <1>1, <1>2, <2>4 DEF Pooled
    <3>2. Cardinality(Pooled') <= Cardinality(Pooled) + 1
      BY <2>2, <3>1, FS_AddElement
    <3>3. threads \in Nat
      BY ResidentAssumption DEF ResidentIInv, ResidentTypeOK
    <3>4. Cardinality(Pooled') \in Nat
      BY <2>2, <3>1, FS_AddElement, FS_CardinalityType
    <3> QED
      BY <1>1, <1>2, <2>2, <2>4, <3>2, <3>3, <3>4 DEF PoolKept
  <2> QED
    BY <2>3, <2>4
<1> QED
  BY <1>2, <1>4, <1>5, <1>6, <1>7 DEF ResidentIInv

\* A task that is over leaves the pool.
LEMMA RangeGoes ==
    ASSUME ResidentIInv, NEW t \in active, active' = active \ {t}, UNCHANGED <<threads, rows>>
    PROVE  PoolKept'
<1>1. IsFiniteSet(active) /\ Cardinality(Pooled) <= threads /\ Pooled \subseteq active
  BY DEF ResidentIInv, PoolKept, Pooled
<1>2. Pooled' \subseteq Pooled
  BY DEF Pooled, Direct
<1>3. IsFiniteSet(active') /\ IsFiniteSet(Pooled) /\ Cardinality(Pooled) \in Nat
  BY <1>1, FS_RemoveElement, FS_Subset, FS_CardinalityType
<1>4. Cardinality(Pooled') <= Cardinality(Pooled) /\ Cardinality(Pooled') \in Nat
  BY <1>2, <1>3, FS_Subset, FS_CardinalityType
<1>5. threads \in Nat
  BY ResidentAssumption DEF ResidentIInv, ResidentTypeOK
<1> QED
  BY <1>1, <1>3, <1>4, <1>5 DEF PoolKept

LEMMA RangeEndsKeeps ==
    ASSUME ResidentIInv, NEW t \in ranges \cup active, RangeEnds(t)
    PROVE  ResidentIInv'
<1>1. /\ UNCHANGED <<residentShape, asked, round, turn, ranges, failed, lost, answers>>
      /\ t \in active /\ active' = active \ {t}
      /\ output' = [n \in 1..MaxRows |->
                      IF Own(t) /\ t.first < n /\ n <= t.last THEN <<t.rank, t.exchange>> ELSE output[n]]
  BY DEF RangeEnds
<1>2. /\ UNCHANGED <<served, format, scope, threads, rows>> /\ AnswersKnown'
      /\ \A task : (Own(task)' <=> Own(task)) /\ (Direct(task)' <=> Direct(task))
      /\ RangesFor(turn)' = RangesFor(turn)
  BY <1>1, TaskSteps
<1>3. \A n \in 1..MaxRows : output'[n] = IF Own(t) /\ Has(RangeOf(t), n) THEN <<t.rank, t.exchange>> ELSE output[n]
  BY <1>1 DEF Has, RangeOf
<1>4. ResidentTypeOK'
  <2>1. <<t.rank, t.exchange>> \in (0..MaxServed) \X (0..Rounds)
    <3>1. t.rank \in 1..MaxServed /\ t.exchange \in 1..Rounds
      BY DEF ResidentIInv, ResidentTypeOK, Tasks
    <3>2. t.rank \in 0..MaxServed /\ t.exchange \in 0..Rounds
      BY <3>1, ResidentAssumption
    <3> QED
      BY <3>2
  <2>2. output' \in RowOf
    BY <1>1, <2>1 DEF ResidentIInv, ResidentTypeOK, RowOf
  <2>3. ranges' \cup active' \subseteq Tasks
    BY <1>1 DEF ResidentIInv, ResidentTypeOK
  <2> QED
    BY <1>1, <1>2, <2>2, <2>3 DEF ResidentIInv, ResidentTypeOK, Served, RowOf, Tasks
<1>5. RowsCovered'
  <2> SUFFICES ASSUME turn # NoRank, NEW n \in 1..rows[turn], ~failed
               PROVE  \/ output'[n] = <<turn, asked[turn]>>
                      \/ \E task \in ranges \cup active' : Own(task) /\ Has(RangeOf(task), n)
    BY <1>1, <1>2 DEF RowsCovered
  <2>1. n \in 1..MaxRows
    BY TurnKnown, ResidentAssumption
  <2>2. CASE Own(t) /\ Has(RangeOf(t), n)
    BY <1>3, <2>1, <2>2 DEF Own
  <2>3. CASE ~(Own(t) /\ Has(RangeOf(t), n))
    <3>1. output'[n] = output[n]
      BY <1>3, <2>1, <2>3
    <3>2. \/ output[n] = <<turn, asked[turn]>>
          \/ \E task \in ranges \cup active : Own(task) /\ Has(RangeOf(task), n)
      BY DEF ResidentIInv, RowsCovered
    <3> QED
      BY <1>1, <2>3, <3>1, <3>2
  <2> QED
    BY <2>2, <2>3
<1>6. TasksKnown'
  BY <1>1, <1>2 DEF ResidentIInv, TasksKnown
<1>7. PoolKept'
  BY <1>1, <1>2, RangeGoes
<1> QED
  BY <1>2, <1>4, <1>5, <1>6, <1>7 DEF ResidentIInv

LEMMA RangeFailsKeeps ==
    ASSUME ResidentIInv, NEW t \in ranges \cup active, RangeFails(t)
    PROVE  ResidentIInv'
<1>1. /\ UNCHANGED <<residentShape, asked, round, turn, ranges, lost, output, answers>>
      /\ t \in active /\ active' = active \ {t} /\ failed' = (failed \/ Own(t))
  BY DEF RangeFails
<1>2. /\ UNCHANGED <<served, format, scope, threads, rows>> /\ AnswersKnown'
      /\ \A task : (Own(task)' <=> Own(task)) /\ (Direct(task)' <=> Direct(task))
      /\ RangesFor(turn)' = RangesFor(turn)
  BY <1>1, TaskSteps
<1>3. ResidentTypeOK'
  <2>1. ranges' \cup active' \subseteq Tasks
    BY <1>1 DEF ResidentIInv, ResidentTypeOK
  <2>2. failed' \in BOOLEAN
    BY <1>1 DEF Own
  <2> QED
    BY <1>1, <1>2, <2>1, <2>2 DEF ResidentIInv, ResidentTypeOK, Served, RowOf, Tasks
<1>4. RowsCovered'
  <2>1. ASSUME turn # NoRank, NEW n \in 1..rows[turn], ~failed'
        PROVE  \/ output[n] = <<turn, asked[turn]>>
               \/ \E task \in ranges \cup active' : Own(task) /\ Has(RangeOf(task), n)
    <3>1. ~failed /\ ~Own(t)
      BY <1>1, <2>1
    <3>2. \/ output[n] = <<turn, asked[turn]>>
          \/ \E task \in ranges \cup active : Own(task) /\ Has(RangeOf(task), n)
      BY <2>1, <3>1 DEF ResidentIInv, RowsCovered
    <3> QED
      BY <1>1, <3>1, <3>2
  <2> QED
    BY <1>1, <1>2, <2>1 DEF RowsCovered
<1>5. TasksKnown'
  BY <1>1, <1>2 DEF ResidentIInv, TasksKnown
<1>6. PoolKept'
  BY <1>1, <1>2, RangeGoes
<1> QED
  BY <1>2, <1>3, <1>4, <1>5, <1>6 DEF ResidentIInv

LEMMA ReturnsKeeps == ASSUME ResidentIInv, EvaluationReturns PROVE ResidentIInv'
<1>1. /\ UNCHANGED <<residentShape, round, ranges, active, failed, lost, output>>
      /\ turn # NoRank /\ OwnTasks = {} /\ ~failed
      /\ asked' = [asked EXCEPT ![turn] = 0] /\ turn' = NoRank
      /\ answers' = answers \cup
            {[rank |-> turn, exchange |-> asked[turn], output |-> [n \in 1..rows[turn] |-> output[n]],
              keys |-> Evaluator(turn).keys]}
  BY DEF EvaluationReturns
<1>2. UNCHANGED <<served, format, scope, threads, rows>> /\ Served' = Served
  BY <1>1, ShapeStays
<1>3. /\ turn \in Served /\ turn \in 1..MaxServed /\ turn \notin lost
      /\ asked[turn] \in 1..Rounds /\ rows[turn] \in 1..MaxRows
  BY <1>1, TurnKnown
<1>4. ResidentTypeOK'
  <2>1. asked' \in [1..MaxServed -> 0..Rounds]
    BY <1>1, <1>3, ResidentAssumption DEF ResidentIInv, ResidentTypeOK
  <2>2. turn' \in 0..served
    BY <1>1, ResidentAssumption DEF NoRank, ResidentIInv, ResidentTypeOK
  <2> QED
    BY <1>1, <1>2, <2>1, <2>2 DEF ResidentIInv, ResidentTypeOK, Served, RowOf, Tasks
<1>5. AnswersKnown'
  <2>1. \A n \in 1..rows[turn] : output[n] = <<turn, asked[turn]>>
    BY <1>1 DEF ResidentIInv, RowsCovered, OwnTasks
  <2>2. Evaluator(turn).keys = KeysOf(turn, asked[turn])
    BY <1>3, EvaluatorMakes DEF ResidentIInv
  <2>3. [n \in 1..rows[turn] |-> output[n]] = [n \in 1..rows[turn] |-> <<turn, asked[turn]>>]
    BY <2>1
  <2>4. ASSUME NEW a \in answers'
        PROVE  /\ a.rank \in Served /\ a.exchange \in 1..Rounds
               /\ a.output = [n \in 1..rows[a.rank] |-> <<a.rank, a.exchange>>]
               /\ a.keys = KeysOf(a.rank, a.exchange)
    <3>1. CASE a \in answers
      BY <3>1 DEF ResidentIInv, AnswersKnown
    <3>2. CASE a \notin answers
      <4>1. /\ a.rank = turn /\ a.exchange = asked[turn] /\ a.keys = Evaluator(turn).keys
            /\ a.output = [n \in 1..rows[turn] |-> output[n]]
        <5>1. a = [rank |-> turn, exchange |-> asked[turn], output |-> [n \in 1..rows[turn] |-> output[n]],
                   keys |-> Evaluator(turn).keys]
          BY <1>1, <2>4, <3>2, Zenon
        <5> QED
          BY <5>1
      <4> QED
        BY <1>3, <2>2, <2>3, <4>1
    <3> QED
      BY <3>1, <3>2
  <2> QED
    BY <1>1, <1>2, <2>4, ShapeStays DEF AnswersKnown
<1>6. RowsCovered'
  BY <1>1 DEF RowsCovered
<1>7. TasksKnown'
  <2>1. \A task \in ranges \cup active : task.rank \in lost
    BY <1>1 DEF ResidentIInv, TasksKnown, OwnTasks
  <2>2. \A task : ~Own(task)'
    BY <1>1 DEF Own
  <2> QED
    BY <1>1, <2>1, <2>2 DEF TasksKnown
<1>8. PoolKept'
  BY <1>1, <1>2 DEF ResidentIInv, PoolKept, Pooled, Direct
<1> QED
  BY <1>4, <1>5, <1>6, <1>7, <1>8 DEF ResidentIInv

LEMMA RaisesKeeps == ASSUME ResidentIInv, EvaluationRaises PROVE ResidentIInv'
<1>1. /\ UNCHANGED <<residentShape, asked, round, ranges, active, failed, output, answers>>
      /\ turn # NoRank /\ failed /\ lost' = lost \cup {turn} /\ turn' = NoRank
  BY DEF EvaluationRaises
<1>2. UNCHANGED <<served, format, scope, threads, rows>> /\ Served' = Served
  BY <1>1, ShapeStays
<1>3. turn \in Served
  BY <1>1, TurnKnown
<1>4. ResidentTypeOK'
  <2>1. turn' \in 0..served
    BY <1>1, ResidentAssumption DEF NoRank, ResidentIInv, ResidentTypeOK
  <2> QED
    BY <1>1, <1>2, <1>3, <2>1 DEF ResidentIInv, ResidentTypeOK, RowOf, Tasks
<1>5. AnswersKnown'
  BY <1>1, <1>2, ShapeStays DEF ResidentIInv, AnswersKnown
<1>6. RowsCovered'
  BY <1>1 DEF RowsCovered
<1>7. TasksKnown'
  <2>1. \A task \in ranges \cup active : task.rank \in lost \cup {turn}
    BY DEF ResidentIInv, TasksKnown, Own
  <2>2. \A task : ~Own(task)'
    BY <1>1 DEF Own
  <2> QED
    BY <1>1, <2>1, <2>2 DEF TasksKnown
<1>8. PoolKept'
  BY <1>1, <1>2 DEF ResidentIInv, PoolKept, Pooled, Direct
<1> QED
  BY <1>4, <1>5, <1>6, <1>7, <1>8 DEF ResidentIInv

LEMMA ResidentInvariantStep == ResidentIInv /\ [Evaluate]_residentVars => ResidentIInv'
<1> SUFFICES ASSUME ResidentIInv, [Evaluate]_residentVars PROVE ResidentIInv'
  OBVIOUS
<1>1. ASSUME NEW r \in Served, RankAsks(r) \/ EvaluationBegins(r) PROVE ResidentIInv'
  BY <1>1, AsksKeeps, BeginsKeeps
<1>2. ASSUME NEW t \in ranges \cup active, RangeBegins(t) \/ RangeEnds(t) \/ RangeFails(t) PROVE ResidentIInv'
  BY <1>2, RangeBeginsKeeps, RangeEndsKeeps, RangeFailsKeeps
<1>3. CASE EvaluationReturns \/ EvaluationRaises
  BY <1>3, ReturnsKeeps, RaisesKeeps
<1>4. CASE UNCHANGED residentVars
  <2>1. UNCHANGED <<residentShape, asked, round, turn, ranges, active, failed, lost, output, answers>>
    BY <1>4 DEF residentVars, residentShape
  <2>2. /\ UNCHANGED <<served, format, scope, threads, rows>> /\ AnswersKnown'
        /\ \A task : (Own(task)' <=> Own(task)) /\ (Direct(task)' <=> Direct(task))
        /\ RangesFor(turn)' = RangesFor(turn)
    BY <2>1, TaskSteps
  <2>3. ResidentTypeOK'
    BY <2>1, <2>2 DEF ResidentIInv, ResidentTypeOK, Served, RowOf, Tasks
  <2>4. RowsCovered' /\ TasksKnown'
    BY <2>1, <2>2 DEF ResidentIInv, RowsCovered, TasksKnown
  <2>5. PoolKept'
    BY <2>1, <2>2 DEF ResidentIInv, PoolKept, Pooled, Direct
  <2> QED
    BY <2>2, <2>3, <2>4, <2>5 DEF ResidentIInv
<1> QED
  BY <1>1, <1>2, <1>3, <1>4 DEF Evaluate

LEMMA ResidentInvariant == ResidentSpec => []ResidentIInv
<1> QED
  BY ResidentInvariantInit, ResidentInvariantStep, PTL DEF ResidentSpec

-----------------------------------------------------------------------------
(***************************************************************************)
(* What follows for a host.                                                *)
(***************************************************************************)

LEMMA OneTwo ==
    ASSUME NEW a, NEW b
    PROVE  Append(<<>>, a) = <<a>> /\ Append(<<a>>, b) = <<a, b>>
<1>1. Append(<<>>, a) = <<a>>
  OBVIOUS
<1>2. <<a>> \in Seq({a, b}) /\ Len(<<a>>) = 1
  OBVIOUS
<1>3. Append(<<a>>, b) = <<a, b>>
  <2>1. /\ Append(<<a>>, b) \in Seq({a, b}) /\ Len(Append(<<a>>, b)) = 2
        /\ Append(<<a>>, b)[1] = a /\ Append(<<a>>, b)[2] = b
    BY <1>2, AppendProperties
  <2>2. <<a, b>> \in Seq({a, b}) /\ Len(<<a, b>>) = 2 /\ <<a, b>>[1] = a /\ <<a, b>>[2] = b
    OBVIOUS
  <2>3. \A i \in 1..2 : Append(<<a>>, b)[i] = <<a, b>>[i]
    BY <2>1, <2>2
  <2> QED
    BY <2>1, <2>2, <2>3, SeqEqual
<1> QED
  BY <1>1, <1>3

\* Two invocations have one key exactly when the words folded into it agree.
LEMMA InvocationsShare ==
    ASSUME NEW x, NEW y, NEW r, NEW s
    PROVE  Invocation(x, r) = Invocation(y, s) <=>
              Word(x) = Word(y) /\ (scope = "rank" => Word(r) = Word(s))
<1> DEFINE key(path) == [entropy |-> SeedWords[Seed], path |-> path, scope |-> scope]
<1>1. \A p, q : key(p) = key(q) <=> p = q
  OBVIOUS
<1>0. /\ \A p, v : FoldIn(key(p), v) = key(Append(p, Word(v)))
      /\ RootKey(Seed, scope) = key(<<>>)
  BY DEF RootKey, FoldIn
<1>2. CASE scope = "rank"
  <2>1. \A z, t : Invocation(z, t) = key(<<Word(z), Word(t)>>)
    <3> TAKE z, t
    <3>1. Invocation(z, t) = FoldIn(FoldIn(RootKey(Seed, scope), z), t)
      BY <1>2 DEF Invocation
    <3>2. Append(<<>>, Word(z)) = <<Word(z)>> /\ Append(<<Word(z)>>, Word(t)) = <<Word(z), Word(t)>>
      BY OneTwo
    <3> HIDE DEF key
    <3> QED
      BY <1>0, <3>1, <3>2
  <2> HIDE DEF key
  <2> QED
    BY <1>1, <1>2, <2>1
<1>3. CASE scope # "rank"
  <2>1. \A z, t : Invocation(z, t) = key(<<Word(z)>>)
    <3> TAKE z, t
    <3>1. Invocation(z, t) = FoldIn(RootKey(Seed, scope), z)
      BY <1>3 DEF Invocation
    <3>2. Append(<<>>, Word(z)) = <<Word(z)>>
      OBVIOUS
    <3> HIDE DEF key
    <3> QED
      BY <1>0, <3>1, <3>2
  <2> HIDE DEF key
  <2> QED
    BY <1>1, <1>3, <2>1
<1> QED
  BY <1>2, <1>3

\* Keys of two exchanges meet exactly when their invocations have one key.
LEMMA KeysMeet ==
    ASSUME ResidentTypeOK, NEW r \in Served, NEW s \in Served, NEW x, NEW y,
           KeysOf(r, x) # {}, KeysOf(s, y) # {}
    PROVE  KeysOf(r, x) \cap KeysOf(s, y) # {} <=> Invocation(x, r) = Invocation(y, s)
<1>1. rows[r] \in Nat \ {0} /\ rows[s] \in Nat \ {0}
  BY RangesDivide
<1>2. format \in {"function", "equinox", "batched"}
  BY DEF KeysOf, ResidentTypeOK, EvaluatorFormats
<1>3. CASE format = "function"
  BY <1>3 DEF KeysOf
<1>4. CASE format = "batched"
  <2>1. KeysOf(r, x) = {<<Invocation(x, r), 0>>} /\ KeysOf(s, y) = {<<Invocation(y, s), 0>>}
    BY <1>4 DEF KeysOf
  <2>2. <<Invocation(x, r), 0>> = <<Invocation(y, s), 0>> <=> Invocation(x, r) = Invocation(y, s)
    OBVIOUS
  <2> QED
    BY <2>1, <2>2, Zenon
<1>5. CASE format = "equinox"
  <2>1. /\ KeysOf(r, x) = {<<Invocation(x, r), n>> : n \in 1..rows[r]}
        /\ KeysOf(s, y) = {<<Invocation(y, s), n>> : n \in 1..rows[s]}
    BY <1>5 DEF KeysOf
  <2>2. <<Invocation(x, r), 1>> \in KeysOf(r, x) /\ <<Invocation(y, s), 1>> \in KeysOf(s, y)
    BY <1>1, <2>1
  <2>3. \A key \in KeysOf(r, x) : key[1] = Invocation(x, r)
    BY <2>1
  <2>4. \A key \in KeysOf(s, y) : key[1] = Invocation(y, s)
    BY <2>1
  <2> QED
    BY <2>2, <2>3, <2>4
<1> QED
  BY <1>2, <1>3, <1>4, <1>5

\* jax.random.split makes as many keys as there are rows.
LEMMA KeyForEachRow ==
    ASSUME NEW r, NEW x, rows[r] \in Nat, format = "equinox"
    PROVE  Cardinality(KeysOf(r, x)) = rows[r]
<1> DEFINE f == [n \in 1..rows[r] |-> <<Invocation(x, r), n>>]
<1>1. KeysOf(r, x) = {<<Invocation(x, r), n>> : n \in 1..rows[r]}
  BY DEF KeysOf
<1>2. f \in Bijection(1..rows[r], KeysOf(r, x))
  BY <1>1 DEF Bijection, Injection, Surjection, IsInjective
<1>3. IsFiniteSet(1..rows[r]) /\ Cardinality(1..rows[r]) = rows[r]
  BY FS_Interval
<1> QED
  BY <1>2, <1>3, FS_Bijection DEF ExistsBijection

(***************************************************************************)
(* The words of a seed.  That `key` makes some of every seed is a          *)
(* recursion, whose value exists because every prefix of it does.          *)
(***************************************************************************)

\* What remains of a seed after its lowest word.
Rest(seed) == seed \div Words

\* The words of a seed, given those of smaller ones.
WordsFrom(g, seed) ==
    IF seed < Words * Words THEN <<Word(seed), Word(Rest(seed))>>
    ELSE <<Word(seed)>> \o g[Rest(seed)]

\* A function gives all seeds up to n their words.
GivesWords(g, n) == g = [seed \in 0..n |-> WordsFrom(g, seed)]

\* What remains is smaller, and with the word makes the seed.
LEMMA SeedShrinks ==
    ASSUME NEW seed \in Nat
    PROVE  /\ Rest(seed) \in Nat /\ Word(seed) \in 0..Words - 1
           /\ seed = Words * (Rest(seed)) + Word(seed)
           /\ seed >= Words * Words => Rest(seed) < seed
           /\ seed < Words * Words => Rest(seed) < Words
<1>1. Words \in Nat \ {0} /\ Words > 1
  BY ResidentAssumption
<1> DEFINE q == seed \div Words
           m == seed % Words
<1>2. q \in Nat /\ m \in 0..Words - 1 /\ seed = Words * q + m
  BY <1>1, DivisionOf
<1>3. Words * Words \in Nat /\ Words * Words > 0 /\ Words * q \in Nat
  BY <1>1, <1>2
<1> HIDE DEF q, m
<1>4. ASSUME seed >= Words * Words PROVE q < seed
  <2>1. q # 0
    <3> SUFFICES ASSUME q = 0 PROVE FALSE
      OBVIOUS
    <3>1. seed = m
      BY <1>1, <1>2
    <3>2. 1 * Words <= Words * Words /\ 1 * Words = Words
      BY <1>1, Monotone
    <3> QED
      BY <1>1, <1>2, <1>3, <1>4, <3>1, <3>2
  <2>2. 2 * q <= Words * q
    BY <1>1, <1>2, Monotone
  <2> QED
    BY <1>2, <1>3, <2>1, <2>2
<1>5. ASSUME seed < Words * Words PROVE q < Words
  <2> SUFFICES ASSUME Words <= q PROVE FALSE
    BY <1>1, <1>2
  <2>1. Words * Words <= q * Words /\ q * Words = Words * q
    BY <1>1, <1>2, Monotone
  <2> QED
    BY <1>2, <1>3, <1>5, <2>1
<1> QED
  BY <1>2, <1>3, <1>4, <1>5 DEF q, m, Word, Rest

LEMMA SquareIsPositive == Words * Words \in Nat /\ Words * Words > 0 /\ Words \in Nat
BY ResidentAssumption

\* Two prefixes of the recursion agree as far as both go, and there is one of any length.
LEMMA PrefixesAgree ==
    ASSUME NEW g, NEW h, NEW m \in Nat, NEW n \in Nat, GivesWords(g, m), GivesWords(h, n)
    PROVE  \A seed \in Nat : seed <= m /\ seed <= n => g[seed] = h[seed]
<1> DEFINE apart == {seed \in Nat : seed <= m /\ seed <= n /\ g[seed] # h[seed]}
<1> SUFFICES ASSUME apart # {} PROVE FALSE
  OBVIOUS
<1>1. PICK s \in apart : \A t \in apart : s <= t
  BY LeastElement
<1>2. g[s] = WordsFrom(g, s) /\ h[s] = WordsFrom(h, s)
  BY <1>1 DEF GivesWords
<1>3. s >= Words * Words
  BY <1>1, <1>2, SquareIsPositive DEF WordsFrom
<1>4. Rest(s) \in Nat /\ Rest(s) < s
  BY <1>1, <1>3, SeedShrinks
<1>5. ~(Rest(s) \in apart)
  BY <1>1, <1>4
<1>6. g[Rest(s)] = h[Rest(s)]
  BY <1>1, <1>4, <1>5
<1>7. WordsFrom(g, s) = WordsFrom(h, s)
  BY <1>6 DEF WordsFrom
<1> QED
  BY <1>1, <1>2, <1>7

LEMMA PrefixesExist ==
    ASSUME NEW n \in Nat PROVE \E g : GivesWords(g, n)
<1> DEFINE T == {k \in Nat : \E g : GivesWords(g, k)}
<1>1. 0 \in T
  <2> DEFINE g == [seed \in 0..0 |-> <<Word(seed), Word(Rest(seed))>>]
  <2>1. \A seed \in 0..0 : WordsFrom(g, seed) = <<Word(seed), Word(Rest(seed))>>
    BY SquareIsPositive DEF WordsFrom
  <2>2. GivesWords(g, 0)
    BY <2>1, Zenon DEF GivesWords
  <2> QED
    BY <2>2
<1>2. ASSUME NEW k \in Nat, k \in T PROVE k + 1 \in T
  <2>1. PICK g : GivesWords(g, k)
    BY <1>2
  <2> DEFINE h == [seed \in 0..k + 1 |-> WordsFrom(g, seed)]
  <2>2. ASSUME NEW seed \in 0..k + 1 PROVE WordsFrom(g, seed) = WordsFrom(h, seed)
    <3>1. CASE seed < Words * Words
      BY <3>1 DEF WordsFrom
    <3>2. CASE ~(seed < Words * Words)
      <4>1. Rest(seed) \in Nat /\ Rest(seed) < seed
        BY <3>2, SeedShrinks, SquareIsPositive
      <4>2. Rest(seed) \in 0..k /\ Rest(seed) \in 0..k + 1
        BY <4>1
      <4>3. g[Rest(seed)] = WordsFrom(g, Rest(seed))
        BY <2>1, <4>2 DEF GivesWords
      <4>4. h[Rest(seed)] = WordsFrom(g, Rest(seed))
        BY <4>2
      <4> HIDE DEF h
      <4> QED
        BY <4>3, <4>4 DEF WordsFrom
    <3> QED
      BY <3>1, <3>2
  <2>3. GivesWords(h, k + 1)
    <3>1. h = [seed \in 0..k + 1 |-> WordsFrom(h, seed)]
      <4> SUFFICES \A seed \in 0..k + 1 : WordsFrom(g, seed) = WordsFrom(h, seed)
        BY Zenon
      <4> HIDE DEF h
      <4> QED
        BY <2>2
    <3> QED
      BY <3>1, Zenon DEF GivesWords
  <2> QED
    BY <2>3
<1>3. Nat \subseteq T
  <2> HIDE DEF T
  <2> QED
    BY <1>1, <1>2, AllNumbers
<1> QED
  BY <1>3

\* The words that `key` makes are those its recursion says.
LEMMA WordsOf == SeedWords = [seed \in Nat |-> WordsFrom(SeedWords, seed)]
<1> DEFINE upto(n) == CHOOSE g : GivesWords(g, n)
           all == [seed \in Nat |-> upto(seed)[seed]]
<1>1. \A n \in Nat : GivesWords(upto(n), n)
  BY PrefixesExist
<1>2. ASSUME NEW seed \in Nat PROVE all[seed] = WordsFrom(all, seed)
  <2>1. upto(seed)[seed] = WordsFrom(upto(seed), seed)
    <3> HIDE DEF upto
    <3> QED
      BY <1>1 DEF GivesWords
  <2>2. CASE seed < Words * Words
    <3> HIDE DEF upto
    <3> QED
      BY <2>1, <2>2 DEF WordsFrom
  <2>3. CASE ~(seed < Words * Words)
    <3>1. Rest(seed) \in Nat /\ Rest(seed) < seed
      BY <2>3, SeedShrinks, SquareIsPositive
    <3> DEFINE q == Rest(seed)
    <3> HIDE DEF upto, q
    <3>2. q \in Nat /\ q < seed
      BY <3>1 DEF q
    <3>3. upto(seed)[q] = upto(q)[q]
      BY <1>1, <3>2, PrefixesAgree
    <3>4. WordsFrom(upto(seed), seed) = WordsFrom(all, seed)
      BY <2>3, <3>2, <3>3 DEF WordsFrom, q
    <3> QED
      BY <2>1, <3>4
  <2> QED
    BY <2>2, <2>3
<1>3. all = [seed \in Nat |-> WordsFrom(all, seed)]
  <2> HIDE DEF upto
  <2> SUFFICES \A seed \in Nat : upto(seed)[seed] = WordsFrom(all, seed)
    BY Zenon
  <2> QED
    BY <1>2
<1>4. \E f : f = [seed \in Nat |-> IF seed < Words * Words THEN <<Word(seed), Word(seed \div Words)>>
                                 ELSE <<Word(seed)>> \o f[seed \div Words]]
  BY <1>3, Zenon DEF WordsFrom, Rest
<1> QED
  BY <1>4, Zenon DEF SeedWords, WordsFrom, Rest

LEMMA WordsType ==
    ASSUME NEW seed \in Nat PROVE SeedWords[seed] \in Seq(Nat) /\ Len(SeedWords[seed]) >= 2
<1> DEFINE odd == {s \in Nat : ~(SeedWords[s] \in Seq(Nat) /\ Len(SeedWords[s]) >= 2)}
<1> SUFFICES ASSUME odd # {} PROVE FALSE
  OBVIOUS
<1>1. PICK s \in odd : \A t \in odd : s <= t
  BY LeastElement
<1>2. SeedWords[s] = WordsFrom(SeedWords, s)
  BY <1>1, WordsOf
<1>3. Word(s) \in Nat /\ Word(Rest(s)) \in Nat /\ Rest(s) \in Nat
  <2>1. s \in Nat
    BY <1>1
  <2>2. Rest(s) \in Nat /\ Word(s) \in 0..Words - 1
    BY <2>1, SeedShrinks
  <2>3. Word(Rest(s)) \in 0..Words - 1
    BY <2>2, SeedShrinks
  <2> QED
    BY <2>2, <2>3, SquareIsPositive
<1>4. CASE s < Words * Words
  <2>1. SeedWords[s] = <<Word(s), Word(Rest(s))>>
    BY <1>2, <1>4 DEF WordsFrom
  <2>2. \A x, y \in Nat : <<x, y>> \in Seq(Nat) /\ Len(<<x, y>>) = 2
    OBVIOUS
  <2>3. SeedWords[s] \in Seq(Nat) /\ Len(SeedWords[s]) >= 2
    BY <1>3, <2>1, <2>2
  <2> QED
    BY <1>1, <2>3
<1>5. CASE ~(s < Words * Words)
  <2>1. SeedWords[s] = <<Word(s)>> \o SeedWords[Rest(s)]
    BY <1>2, <1>5 DEF WordsFrom
  <2>2. Rest(s) < s
    BY <1>1, <1>5, SeedShrinks, SquareIsPositive
  <2>3. SeedWords[Rest(s)] \in Seq(Nat) /\ Len(SeedWords[Rest(s)]) >= 2
    BY <1>1, <1>3, <2>2
  <2>4. <<Word(s)>> \in Seq(Nat) /\ Len(<<Word(s)>>) = 1
    BY <1>3
  <2>5. \A x, y \in Seq(Nat) : x \o y \in Seq(Nat) /\ Len(x \o y) = Len(x) + Len(y) /\ Len(y) \in Nat
    OBVIOUS
  <2>6. SeedWords[s] \in Seq(Nat) /\ Len(SeedWords[s]) >= 2
    BY <2>1, <2>3, <2>4, <2>5
  <2> QED
    BY <1>1, <2>6
<1> QED
  BY <1>4, <1>5

\* Different seeds have different words, whatever the number of words and their width
\* (random.key): the words of a seed are its digits.
THEOREM WordsDiffer == \A a, b \in Nat : SeedWords[a] = SeedWords[b] => a = b
<1> DEFINE same == {a \in Nat : \E b \in Nat : a # b /\ SeedWords[a] = SeedWords[b]}
<1> SUFFICES ASSUME same # {} PROVE FALSE
  OBVIOUS
<1>1. PICK a \in same : \A t \in same : a <= t
  BY LeastElement
<1>2. PICK b \in Nat : a # b /\ SeedWords[a] = SeedWords[b]
  BY <1>1
<1>3. b \in same /\ a \in Nat /\ a < b
  BY <1>1, <1>2
<1>4. /\ SeedWords[a] = WordsFrom(SeedWords, a) /\ SeedWords[b] = WordsFrom(SeedWords, b)
      /\ \A s \in Nat : SeedWords[s] \in Seq(Nat) /\ Len(SeedWords[s]) >= 2
  BY <1>2, <1>3, WordsOf, WordsType
<1> DEFINE p == Rest(a)
           q == Rest(b)
<1>5. /\ p \in Nat /\ a = Words * p + Word(a) /\ Word(a) \in 0..Words - 1
      /\ q \in Nat /\ b = Words * q + Word(b) /\ Word(b) \in 0..Words - 1
      /\ a < Words * Words => p < Words
      /\ b < Words * Words => q < Words
      /\ a >= Words * Words => p < a
  BY <1>2, <1>3, SeedShrinks
<1>6. Words \in Nat /\ Words * Words \in Nat
  BY SquareIsPositive
<1>7. Word(a) = Word(b) /\ p # q
  <2>1. Word(a) = Word(b)
    <3>1. ASSUME NEW s \in Nat PROVE SeedWords[s][1] = Word(s)
      <4>0. SeedWords[s] = WordsFrom(SeedWords, s) /\ Rest(s) \in Nat /\ Word(s) \in Nat
        BY WordsOf, SeedShrinks, SquareIsPositive
      <4>1. CASE s < Words * Words
        BY <4>0, <4>1 DEF WordsFrom
      <4>2. CASE ~(s < Words * Words)
        BY <1>4, <4>0, <4>2 DEF WordsFrom
      <4> QED
        BY <4>1, <4>2
    <3> QED
      BY <1>2, <1>3, <3>1
  <2>2. ASSUME p = q PROVE FALSE
    <3>1. Words * p = Words * q
      BY <2>2
    <3> HIDE DEF p, q
    <3> QED
      BY <1>2, <1>5, <2>1, <3>1
  <2> QED
    BY <2>1, <2>2
<1>8. CASE b < Words * Words
  <2>1. a < Words * Words
    BY <1>2, <1>3, <1>6, <1>8
  <2>2. SeedWords[a] = <<Word(a), Word(p)>> /\ SeedWords[b] = <<Word(b), Word(q)>>
    BY <1>4, <1>8, <2>1 DEF WordsFrom
  <2>3. Word(p) = Word(q)
    <3>1. \A x, y, z, t : <<x, y>> = <<z, t>> => y = t
      OBVIOUS
    <3> HIDE DEF p, q
    <3> QED
      BY <1>2, <2>2, <3>1
  <2>4. p % Words = p /\ q % Words = q
    <3>1. \A s \in Nat : s < Words => s % Words = s
      BY <1>6
    <3> QED
      BY <1>5, <1>8, <2>1, <3>1
  <2> QED
    BY <1>7, <2>3, <2>4 DEF Word
<1>9. CASE ~(b < Words * Words)
  <2>1. SeedWords[b] = <<Word(b)>> \o SeedWords[q]
    BY <1>4, <1>9 DEF WordsFrom
  <2>2. /\ SeedWords[q] \in Seq(Nat) /\ Len(SeedWords[q]) >= 2
        /\ SeedWords[p] \in Seq(Nat) /\ Len(SeedWords[p]) >= 2
    BY <1>4, <1>5
  <2>3. Len(SeedWords[b]) >= 3
    BY <1>5, <2>1, <2>2
  <2>4. ~(a < Words * Words)
    <3> SUFFICES ASSUME a < Words * Words PROVE FALSE
      OBVIOUS
    <3>1. SeedWords[a] = <<Word(a), Word(p)>>
      BY <1>4 DEF WordsFrom
    <3> QED
      BY <1>2, <2>3, <3>1
  <2>5. SeedWords[a] = <<Word(a)>> \o SeedWords[p]
    BY <1>4, <2>4 DEF WordsFrom
  <2>6. \A s, t \in Seq(Nat) : \A x \in Nat : <<x>> \o s = <<x>> \o t => s = t
    <3> TAKE s, t \in Seq(Nat)
    <3> TAKE x \in Nat
    <3> HAVE <<x>> \o s = <<x>> \o t
    <3>1. Len(s) = Len(t)
      BY SMT
    <3>2. ASSUME NEW n \in 1..Len(s) PROVE s[n] = t[n]
      <4>1. (<<x>> \o s)[n + 1] = s[n] /\ (<<x>> \o t)[n + 1] = t[n]
        BY <3>1
      <4> QED
        BY <4>1
    <3> QED
      BY <3>1, <3>2, SeqEqual
  <2>7. SeedWords[p] = SeedWords[q]
    <3>1. Word(b) \in Nat
      BY <1>5, <1>6
    <3>2. <<Word(b)>> \o SeedWords[p] = <<Word(b)>> \o SeedWords[q]
      BY <1>2, <1>7, <2>1, <2>5
    <3> HIDE DEF p, q
    <3> QED
      BY <2>2, <2>6, <3>1, <3>2
  <2>8. p \in same /\ p < a
    BY <1>3, <1>5, <1>6, <1>7, <2>4, <2>7
  <2> QED
    BY <1>1, <1>3, <1>5, <2>8
<1> QED
  BY <1>3, <1>6, <1>8, <1>9
-----------------------------------------------------------------------------
\* A rank is answered with all its rows, each computed from its own batch, by the
\* evaluators of resident.py behind SynchronizedKernel: whatever number of threads
\* divides whatever number of rows, and although the tasks of an evaluation that raised
\* run on in the pool.
THEOREM AnswersWhole == ResidentSpec => []AnswersAreWhole
<1>1. ResidentIInv => AnswersAreWhole
  BY DEF ResidentIInv, AnswersKnown, AnswersAreWhole
<1> QED
  BY <1>1, ResidentInvariant, PTL

\* The keys of random.py tell invocations apart up to the width of a word, and with
\* the scope "rank" the ranks as well; the rows of an Equinox batch have keys of their
\* own.
THEOREM KeysDiffer == ResidentSpec => []KeysAreTheirs
<1>1. ASSUME ResidentIInv PROVE KeysAreTheirs
  <2>1. ASSUME NEW a \in answers, NEW b \in answers, a.keys # {}, b.keys # {}
        PROVE  a.keys \cap b.keys # {} <=>
                  /\ a.exchange % Words = b.exchange % Words
                  /\ scope = "rank" => a.rank % Words = b.rank % Words
    <3>1. /\ a.rank \in Served /\ a.keys = KeysOf(a.rank, a.exchange)
          /\ b.rank \in Served /\ b.keys = KeysOf(b.rank, b.exchange)
      BY <1>1 DEF ResidentIInv, AnswersKnown
    <3>2. a.keys \cap b.keys # {} <=> Invocation(a.exchange, a.rank) = Invocation(b.exchange, b.rank)
      BY <1>1, <2>1, <3>1, KeysMeet DEF ResidentIInv
    <3> QED
      BY <3>2, InvocationsShare DEF Word
  <2>2. ASSUME format = "equinox", NEW a \in answers PROVE Cardinality(a.keys) = rows[a.rank]
    <3>1. a.rank \in Served /\ a.keys = KeysOf(a.rank, a.exchange)
      BY <1>1 DEF ResidentIInv, AnswersKnown
    <3>2. rows[a.rank] \in Nat
      BY <1>1, <3>1, RangesDivide DEF ResidentIInv
    <3> QED
      BY <2>2, <3>1, <3>2, KeyForEachRow
  <2> QED
    BY <2>1, <2>2 DEF KeysAreTheirs
<1> QED
  BY <1>1, ResidentInvariant, PTL

\* The threads of a host that compute for one exchange are no more than its budget, the
\* thread of the rank included, although a range of all rows does not wait for the pool.
THEOREM BudgetKept == ResidentSpec => []WithinBudget
<1>1. ASSUME ResidentIInv PROVE WithinBudget
  <2> DEFINE own == {task \in active : Own(task)}
  <2>1. IsFiniteSet(active) /\ Cardinality(Pooled) <= threads /\ Pooled \subseteq active /\ own \subseteq active
    BY <1>1 DEF ResidentIInv, PoolKept, Pooled
  <2>2. threads \in Nat \ {0}
    BY <1>1, ResidentAssumption DEF ResidentIInv, ResidentTypeOK
  <2>3. CASE \A task \in own : ~Direct(task)
    <3>1. own \subseteq Pooled
      BY <2>3 DEF Pooled
    <3>2. IsFiniteSet(Pooled) /\ Cardinality(Pooled) \in Nat
      BY <2>1, FS_Subset, FS_CardinalityType
    <3>3. Cardinality(own) <= Cardinality(Pooled) /\ Cardinality(own) \in Nat
      BY <3>1, <3>2, FS_Subset, FS_CardinalityType
    <3> QED
      BY <2>1, <2>2, <3>2, <3>3 DEF WithinBudget
  <2>4. CASE \E task \in own : Direct(task)
    <3>1. PICK t \in own : Direct(t)
      BY <2>4
    <3>2. turn # NoRank /\ turn \in Served
      BY <1>1, <3>1, TurnKnown DEF Own
    <3>3. \A task \in own : RangeOf(task) \in RangesFor(turn) /\ task \in Tasks
      BY <1>1 DEF ResidentIInv, TasksKnown, ResidentTypeOK
    <3>4. RangeOf(t) = <<0, rows[turn]>>
      BY <3>1 DEF RangeOf, Direct, Own
    <3>5. RangesFor(turn) = {<<0, rows[turn]>>}
      BY <1>1, <3>1, <3>2, <3>3, <3>4, RangesDivide DEF ResidentIInv
    <3>6. ASSUME NEW task \in own PROVE task = t
      <4>1. task.first = t.first /\ task.last = t.last
        BY <3>1, <3>3, <3>4, <3>5 DEF RangeOf
      <4>2. task.rank = t.rank /\ task.exchange = t.exchange
        BY <3>1 DEF Own
      <4>3. task \in Tasks /\ t \in Tasks
        BY <3>1, <3>3
      <4> QED
        BY <4>1, <4>2, <4>3 DEF Tasks
    <3>7. own = {t}
      BY <3>1, <3>6
    <3>8. Cardinality(own) = 1
      BY <3>7, FS_Singleton
    <3> QED
      BY <2>2, <3>8 DEF WithinBudget
  <2> QED
    BY <2>3, <2>4
<1> QED
  BY <1>1, ResidentInvariant, PTL

\* A forest has every one of its trees in the sum, and has it there once: the ranges of
\* RangesPartition, taken over trees.
THEOREM TreesOnce == ResidentSpec => []EveryTreeOnce
<1>1. ASSUME ResidentIInv PROVE EveryTreeOnce
  <2>1. threads \in Nat \ {0} /\ MaxRows \in Nat
    BY <1>1, ResidentAssumption DEF ResidentIInv, ResidentTypeOK
  <2>2. ASSUME NEW trees \in 1..MaxRows, NEW tree \in 1..trees
        PROVE  Cardinality(ForestBatch(trees, threads)[tree]) = 1
    <3> DEFINE mine == {range \in Ranges(trees, threads) : range[1] < tree /\ tree <= range[2]}
    <3>1. trees \in Nat \ {0}
      BY <2>1
    <3>2. PICK range \in Ranges(trees, threads) : Has(range, tree)
      BY <2>1, <3>1, RangesPartition
    <3>3. \A other \in Ranges(trees, threads) : Has(other, tree) => other = range
      BY <2>1, <3>1, <3>2, RangesPartition
    <3>4. mine = {range}
      BY <3>2, <3>3 DEF Has
    <3>5. Cardinality(mine) = 1
      BY <3>4, FS_Singleton
    <3> QED
      BY <3>5 DEF ForestBatch
  <2> QED
    BY <2>2 DEF EveryTreeOnce
<1> QED
  BY <1>1, ResidentInvariant, PTL

\* Everything that is promised of an evaluation: whole answers, keys of their own for
\* invocations and seeds, every tree of a forest once, and the budget of threads
\* (resident.py, random.py).
THEOREM EvaluationTrue == ResidentSpec => []EvaluationIsTrue
<1>1. SeedsDiffer
  BY WordsDiffer, ResidentAssumption DEF SeedsDiffer
<1>2. AnswersAreWhole /\ KeysAreTheirs /\ EveryTreeOnce /\ WithinBudget => EvaluationIsTrue
  BY <1>1 DEF EvaluationIsTrue
<1> QED
  BY <1>2, AnswersWhole, KeysDiffer, TreesOnce, BudgetKept, PTL
=============================================================================
