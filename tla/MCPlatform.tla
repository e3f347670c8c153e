----------------------------- MODULE MCPlatform -----------------------------
(* One of the services that watch over the others: the presence of agents,   *)
(* the guidance they are given, the backups of the ops ledger, its collector *)
(* or the machines and their work; the .cfg file gives the sets.             *)
EXTENDS Runtime, Guidance, OpsBackup, OpsCollect, Resources

VARIABLE part   \* the service a behaviour is about

presenceVars == <<now, runtimeVars>>

platformVars ==
    <<presenceVars, guidanceVars, backupVars, collectVars, resourceVars>>

\* A machine is watched with no work of its own, and work is reported on a
\* machine nobody watches: the Workbench's files or the commands run there.
UnwatchedHost == host'.sampled = 0 /\ ~host'.error /\ host'.appsChecked = 0

WorkNext ==
    /\ ResourcesNext
    /\ \/ part = "files" /\ UNCHANGED runner /\ UnwatchedHost
       \/ part = "commands" /\ UNCHANGED <<file, mirror>> /\ UnwatchedHost
       \/ /\ part = "hosts" /\ UNCHANGED <<file, mirror, late>>
          /\ \A f \in Files : work'[f] = work[f]

\* The other services stand still.
Quiet(parts, vars) == part \notin parts => UNCHANGED vars

MCPlatformInit ==
    /\ part \in {"runtime", "guidance", "backup", "collect", "files", "commands", "hosts"}
    /\ RuntimeInit /\ GuidanceInit /\ BackupInit /\ CollectInit /\ ResourcesInit
    /\ part # "collect" => coverage = {}

MCPlatformNext ==
    /\ UNCHANGED part
    /\ \/ part = "runtime" /\ RuntimeNext
       \/ part = "guidance" /\ GuidanceNext
       \/ part = "backup" /\ BackupNext
       \/ part = "collect" /\ CollectNext
       \/ part \in {"files", "commands", "hosts"} /\ WorkNext
    /\ Quiet({"runtime"}, presenceVars) /\ Quiet({"guidance"}, guidanceVars)
    /\ Quiet({"backup"}, backupVars) /\ Quiet({"collect"}, collectVars)
    /\ Quiet({"files", "commands", "hosts"}, resourceVars)

\* RuntimeFairness and the fairness of CollectSpec and of the collector of
\* resources, of the service the behaviour is about.
MCPlatformFairness ==
    /\ WF_presenceVars(part = "runtime" /\ Tick)
    /\ WF_presenceVars(part = "runtime" /\ SweepBegin)
    /\ SF_presenceVars(part = "runtime" /\ MarkStale)
    /\ SF_presenceVars(part = "runtime" /\ MarkDead)
    /\ WF_collectVars(part = "collect" /\ Collect)
    /\ WF_resourceVars(part = "files" /\ workbench)
    /\ \A f \in Files :
          /\ WF_resourceVars(part = "files" /\ statFile(f))
          /\ SF_resourceVars(part = "files" /\ workbenchFile(f, "answered"))

MCPlatformSpec ==
    MCPlatformInit /\ [][MCPlatformNext]_<<part, platformVars>> /\ MCPlatformFairness

=============================================================================
