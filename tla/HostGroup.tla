------------------------------ MODULE HostGroup ------------------------------
(***************************************************************************)
(* The resident hosts of a run.  One field program is served by one host,  *)
(* several by a group (execution/host_group.py) that starts a host for     *)
(* each, publishes one aggregate readiness file when every host has made   *)
(* its own, and ends all of them when one fails or when it is told to      *)
(* stop.  With several nodes each node runs such a group, and              *)
(* execution/node_host.py gives its readiness files a suffix of their own; *)
(* one node is modelled.  A host (tools/resident/main.cpp) compiles or     *)
(* loads its model first, then creates its readiness file, which must not  *)
(* exist yet, serves the solver and ends when the solver's sessions do.    *)
(***************************************************************************)
EXTENDS CompileCache, Naturals

VARIABLES
    programs,  \* the hosts this run has
    host,      \* per host: "absent", "loading", "serving" or "exited"
    hostCode,  \* per host: "none", "ok", "error" or "signal"
    ready,     \* hosts whose readiness file exists
    announced, \* history: hosts of this launch that made theirs
    stale,     \* history: readiness files an earlier incarnation left behind
    aggregate, \* programs.ready exists
    gpc,       \* where the group's main is
    spawned,   \* hosts it has started
    published, \* its flag of that name
    stopping,  \* its flag of that name, set by the SIGTERM handler
    groupCode  \* what main returns: "none", "ok", "error" or "signal"

hostVars == <<host, hostCode, ready, announced, cacheVars>>
groupVars == <<aggregate, gpc, spawned, published, stopping, groupCode>>
hostGroupVars == <<programs, stale, hostVars, groupVars>>

GroupLabels == {"absent", "spawn", "watch", "publish", "publish_last", "terminate", "reap", "cleanup", "returned",
                "raised", "killed"}

HostGroupTypeOK ==
    /\ CacheTypeOK
    /\ programs \subseteq Hosts /\ ready \subseteq Hosts /\ announced \subseteq Hosts
    /\ stale \subseteq Hosts /\ spawned \subseteq Hosts
    /\ host \in [Hosts -> {"absent", "loading", "serving", "exited"}]
    /\ hostCode \in [Hosts -> {"none", "ok", "error", "signal"}]
    /\ aggregate \in BOOLEAN /\ published \in BOOLEAN /\ stopping \in BOOLEAN
    /\ gpc \in GroupLabels /\ groupCode \in {"none", "ok", "error", "signal", "raised"}

\* A job that Slurm started again after its node failed finds the readiness
\* files of its first incarnation.
HostGroupInit ==
    /\ CacheInit
    /\ programs \in SUBSET Hosts /\ programs # {}
    /\ stale \in SUBSET programs /\ ready = stale
    /\ host = [h \in Hosts |-> "absent"] /\ hostCode = [h \in Hosts |-> "none"]
    /\ announced = {}
    /\ aggregate = FALSE /\ gpc = "absent" /\ spawned = {}
    /\ published = FALSE /\ stopping = FALSE /\ groupCode = "none"

Grouped == Cardinality(programs) > 1
Alive(h) == host[h] \in {"loading", "serving"}

\* The readiness file the supervisor was given.
Expected == IF Grouped THEN aggregate ELSE programs \subseteq ready
-----------------------------------------------------------------------------
(***************************************************************************)
(* A host.                                                                 *)
(***************************************************************************)
Outside == <<programs, stale, groupVars>>

\* Host h is gone with this code, and its readiness file if it removed it.
HostGone(h, exit, left) ==
    /\ host' = [host EXCEPT ![h] = "exited"]
    /\ hostCode' = [hostCode EXCEPT ![h] = exit]
    /\ ready' = left

HostCompiles(h) ==
    /\ host[h] = "loading" /\ Compile(h)
    /\ UNCHANGED <<host, hostCode, ready, announced, Outside>>

\* ReadyMarker: the file is created exclusively, so one that is left from
\* before ends the host with an error.
HostAnnounces(h) ==
    /\ host[h] = "loading" /\ cpc[h] = "loaded"
    /\ IF h \in ready
       THEN HostGone(h, "error", ready) /\ UNCHANGED announced
       ELSE /\ ready' = ready \cup {h} /\ announced' = announced \cup {h}
            /\ host' = [host EXCEPT ![h] = "serving"]
            /\ UNCHANGED hostCode
    /\ UNCHANGED <<cacheVars, Outside>>

\* The model cannot be loaded, or the run of the worker throws.
HostFails(h) ==
    /\ \/ host[h] = "loading" /\ cpc[h] \in {"loaded", "failed"} /\ HostGone(h, "error", ready)
       \/ host[h] = "serving" /\ HostGone(h, "error", ready \ {h})
    /\ UNCHANGED <<announced, cacheVars, Outside>>

\* The solver's sessions have ended.
HostEnds(h) ==
    /\ host[h] = "serving" /\ HostGone(h, "ok", ready \ {h})
    /\ UNCHANGED <<announced, cacheVars, Outside>>

\* SIGTERM or SIGKILL ends the hosts in dying where they are: readiness files
\* and the lock of the compile cache stay.
HostsKilled(dying) ==
    /\ host' = [h \in Hosts |-> IF h \in dying THEN "exited" ELSE host[h]]
    /\ hostCode' = [h \in Hosts |-> IF h \in dying THEN "signal" ELSE hostCode[h]]
    /\ CacheDies(dying)
    /\ UNCHANGED <<ready, announced>>

StartHost(h) ==
    /\ host' = [host EXCEPT ![h] = "loading"]
    /\ CacheEnter(h)
    /\ UNCHANGED <<hostCode, ready, announced>>
-----------------------------------------------------------------------------
(***************************************************************************)
(* main of the group.                                                      *)
(***************************************************************************)
GroupTo(here, next) == gpc = here /\ gpc' = next

\* The supervisor starts the group, or the only host in its place.
GroupStarts ==
    /\ gpc = "absent" /\ \A h \in programs : host[h] = "absent"
    /\ IF Grouped
       THEN gpc' = "spawn" /\ UNCHANGED hostVars
       ELSE gpc' = gpc /\ \E h \in programs : StartHost(h)
    /\ UNCHANGED <<programs, stale, aggregate, spawned, published, stopping, groupCode>>

\* One Popen after the other; one that raises leaves through the finally
\* clause, and the hosts started before it keep running.
GroupSpawns(h) ==
    /\ gpc = "spawn" /\ h \in programs \ spawned
    /\ \/ /\ StartHost(h) /\ spawned' = spawned \cup {h}
          /\ gpc' = IF spawned' = programs THEN "watch" ELSE "spawn"
          /\ UNCHANGED groupCode
       \/ UNCHANGED <<hostVars, spawned>> /\ gpc' = "cleanup" /\ groupCode' = "raised"
    /\ UNCHANGED <<programs, stale, aggregate, published, stopping>>

\* Signal handler: Python runs it between two steps of main.
GroupSignalled ==
    /\ gpc \notin {"absent", "returned", "raised", "killed"} /\ ~stopping
    /\ stopping' = TRUE
    /\ UNCHANGED <<programs, stale, hostVars, aggregate, gpc, spawned, published, groupCode>>

Failures == {h \in spawned : hostCode[h] \in {"error", "signal"}}

\* The head of the loop: the flag, then every child polled in one go.
GroupPolls ==
    /\ gpc = "watch"
    /\ IF stopping THEN gpc' = "terminate" /\ groupCode' = "signal"
       ELSE IF Failures # {} THEN gpc' = "terminate" /\ groupCode' = "error"
       ELSE /\ gpc' = IF \A h \in spawned : host[h] = "exited" THEN "publish_last" ELSE "publish"
            /\ UNCHANGED groupCode
    /\ UNCHANGED <<programs, stale, hostVars, aggregate, spawned, published, stopping>>

\* Mutant of GroupPublishes: the first readiness file is enough.
PublishEarly ==
    /\ gpc \in {"publish", "publish_last"}
    /\ aggregate' = (aggregate \/ (~published /\ programs \cap ready # {}))
    /\ published' = (published \/ programs \cap ready # {})
    /\ IF gpc = "publish" THEN gpc' = "watch" /\ UNCHANGED groupCode
       ELSE gpc' = "cleanup" /\ groupCode' = "ok"
    /\ UNCHANGED <<programs, stale, hostVars, spawned, stopping>>

\* The rest of the loop's body: the aggregate file is made once, when every
\* host's file is there; then main returns if the poll had found all ended.
GroupPublishes ==
    /\ gpc \in {"publish", "publish_last"}
    /\ aggregate' = (aggregate \/ (~published /\ programs \subseteq ready))
    /\ published' = (published \/ programs \subseteq ready)
    /\ IF gpc = "publish" THEN gpc' = "watch" /\ UNCHANGED groupCode
       ELSE gpc' = "cleanup" /\ groupCode' = "ok"
    /\ UNCHANGED <<programs, stale, hostVars, spawned, stopping>>

\* _terminate: SIGTERM to the children that live, which some of them survive ...
GroupTerminates ==
    /\ GroupTo("terminate", "reap")
    /\ \E dying \in SUBSET {h \in spawned : Alive(h)} : HostsKilled(dying)
    /\ UNCHANGED <<programs, stale, aggregate, spawned, published, stopping, groupCode>>

\* ... then SIGKILL to those still there 10 s later, and a wait for each.
GroupReaps ==
    /\ GroupTo("reap", "cleanup")
    /\ HostsKilled({h \in spawned : Alive(h)})
    /\ UNCHANGED <<programs, stale, aggregate, spawned, published, stopping, groupCode>>

\* The finally clause removes the aggregate file and the hosts' own.
GroupCleans ==
    /\ gpc = "cleanup"
    /\ gpc' = IF groupCode = "raised" THEN "raised" ELSE "returned"
    /\ groupCode' = IF groupCode = "raised" THEN "error" ELSE groupCode
    /\ aggregate' = FALSE /\ ready' = ready \ programs
    /\ UNCHANGED <<programs, stale, host, hostCode, announced, cacheVars, spawned, published, stopping>>

GroupStep ==
    \/ \E h \in Hosts : GroupSpawns(h)
    \/ GroupPolls \/ GroupPublishes \/ GroupTerminates \/ GroupReaps \/ GroupCleans
HostStep(h) == HostCompiles(h) \/ HostAnnounces(h) \/ HostFails(h)

\* SIGKILL to the process group of the host component: nothing cleans up.
GroupKilled ==
    /\ gpc' = IF gpc \in {"absent", "returned", "raised"} THEN gpc ELSE "killed"
    /\ HostsKilled({h \in Hosts : Alive(h)})
    /\ UNCHANGED <<programs, stale, aggregate, spawned, published, stopping, groupCode>>

\* A host that has no group is killed in its place.
HostKilled ==
    /\ ~Grouped /\ HostsKilled({h \in programs : Alive(h)})
    /\ UNCHANGED <<programs, stale, groupVars>>

\* Run.stop unlinks the readiness file the supervisor was given.
ReadyRemoved ==
    /\ aggregate' = FALSE /\ ready' = IF Grouped THEN ready ELSE ready \ programs
    /\ UNCHANGED <<programs, stale, host, hostCode, announced, cacheVars, gpc, spawned, published,
                   stopping, groupCode>>

HostGroupNext ==
    \/ GroupStarts \/ GroupStep \/ (\E h \in Hosts : HostStep(h) \/ HostEnds(h))
    \/ GroupSignalled \/ GroupKilled \/ HostKilled \/ ReadyRemoved
HostGroupSpec == HostGroupInit /\ [][HostGroupNext]_hostGroupVars
-----------------------------------------------------------------------------
(***************************************************************************)
(* What the supervisor may conclude from files and exit codes.             *)
(***************************************************************************)

\* The aggregate readiness file means that every host of this launch is ready,
\* unless an earlier incarnation left readiness files behind; even then the
\* group succeeds only if all hosts of this launch were ready and succeeded,
\* since a host whose file exists already fails.
ReadinessIsTrue ==
    /\ aggregate => programs \subseteq announced \cup stale
    /\ gpc = "returned" /\ groupCode = "ok" => \A h \in programs : h \in announced /\ hostCode[h] = "ok"

\* When main has returned through its loop no host of the group is alive, and
\* none of its readiness files is left for the next launch to find.
HostsReaped ==
    gpc = "returned" => /\ \A h \in programs : host[h] = "exited"
                        /\ ~aggregate /\ programs \cap ready = {}

\* The solver is not started before every host of this launch is ready, unless
\* readiness files of an earlier incarnation were there; a group that succeeds had
\* hosts that all did, and one that has returned leaves neither a host nor a
\* readiness file (host_group.main).
HostsAreTrue == ReadinessIsTrue /\ HostsReaped
=============================================================================
