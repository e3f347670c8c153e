----------------------------- MODULE OpsCollect -----------------------------
(***************************************************************************)
(* One collection of den-tool (cmd/den-tool/ops_collect.go and             *)
(* ops_collect_proxmox.go) after the other: it reads which guests the      *)
(* backup jobs cover and which tasks have run, asks ops which jobs it has, *)
(* and delivers registrations, retirements and runs one by one, through    *)
(* the spool and the cache of what it has already sent.  Ops may be out of *)
(* reach, the disk may refuse, the ledger may be replaced, and the         *)
(* collector may stop anywhere.                                            *)
(***************************************************************************)
EXTENDS Integers, FiniteSets, Sequences

CONSTANTS
    Guests,         \* guests of the node, in the order of their ids
    MaxCoverage,    \* bound: changes of what the backup jobs cover
    MaxFaults       \* bound: failed requests, refused files, stops, replaced ledgers

ASSUME CollectAssumption == Guests \in SUBSET Int /\ IsFiniteSet(Guests)

VARIABLES
    coverage,   \* the guests in an enabled backup job
    coverages,  \* changes of that so far
    faults,     \* faults so far
    taskEnded,  \* the one backup task, of all guests, has ended
    guestJobs,  \* ops: the job of each guest
    guestRuns,  \* ops: the guests whose run of the task is stored
    cspool,     \* the spool, oldest first
    cached,     \* cache file: evidence and finished tasks it says are sent
    collector,  \* the collection in progress
    runsGiven   \* history: runs ops has stored or refused, or the disk has

collectVars == <<coverage, coverages, faults, taskEnded, guestJobs, guestRuns, cspool,
                 cached, collector, runsGiven>>

-----------------------------------------------------------------------------

JobWrite(g, enabled) == [kind |-> "job", guest |-> g, enabled |-> enabled]
RunWrite(g) == [kind |-> "run", guest |-> g, enabled |-> TRUE]
CollectWrite == {JobWrite(g, e) : g \in Guests, e \in BOOLEAN} \cup {RunWrite(g) : g \in Guests}

NoCache == [runs |-> {}, done |-> FALSE]

NoCollection == [pc |-> "idle", writes |-> <<>>, offline |-> FALSE, cache |-> NoCache]

CollectTypeOK ==
    /\ coverage \subseteq Guests
    /\ guestJobs \in [Guests -> {"none", "enabled", "disabled"}]
    /\ \A i \in DOMAIN cspool : cspool[i] \in CollectWrite
    /\ collector.pc \in {"idle", "replay", "send", "save"}
    /\ \A i \in DOMAIN collector.writes : collector.writes[i] \in CollectWrite

CollectInit ==
    /\ coverage \in {{}, Guests} /\ coverages = 0 /\ faults = 0
    /\ taskEnded = FALSE
    /\ guestJobs = [g \in Guests |-> "none"]
    /\ guestRuns = {}
    /\ cspool = <<>>
    /\ cached = NoCache
    /\ collector = NoCollection
    /\ runsGiven = {}

worldVars == <<coverage, coverages, taskEnded>>
CollectorIs(r) == collector' = r
Fault == faults < MaxFaults /\ faults' = faults + 1

\* By counting what is not above it, not by recursion as the library sorts.
Position(x, S) == Cardinality({y \in S : y <= x})
InOrder(S) == [i \in 1..Cardinality(S) |-> CHOOSE x \in S : Position(x, S) = i]

-----------------------------------------------------------------------------
(* The node and the ledger                                                   *)

\* A backup job is enabled, disabled or given other members.
CoverageChanges(g) ==
    /\ coverages < MaxCoverage
    /\ coverage' = IF g \in coverage THEN coverage \ {g} ELSE coverage \cup {g}
    /\ coverages' = coverages + 1
    /\ UNCHANGED <<faults, taskEnded, guestJobs, guestRuns, cspool, cached, collector, runsGiven>>

TaskEnds ==
    /\ ~taskEnded
    /\ taskEnded' = TRUE
    /\ UNCHANGED <<coverage, coverages, faults, guestJobs, guestRuns, cspool, cached, collector, runsGiven>>

\* The ledger is restored from nothing.
LedgerReplaced ==
    /\ Fault
    /\ guestJobs' = [g \in Guests |-> "none"]
    /\ guestRuns' = {}
    /\ UNCHANGED <<worldVars, cspool, cached, collector, runsGiven>>

\* RegisterJob and ReportRun.
Stored(w) ==
    IF w.kind = "job"
    THEN /\ guestJobs' = [guestJobs EXCEPT ![w.guest] = IF w.enabled THEN "enabled" ELSE "disabled"]
         /\ UNCHANGED <<guestRuns, runsGiven>>
    ELSE /\ guestRuns' = guestRuns \cup {w.guest}
         /\ runsGiven' = runsGiven \cup {w.guest}
         /\ UNCHANGED guestJobs

NotStored == UNCHANGED <<guestJobs, guestRuns, runsGiven>>

-----------------------------------------------------------------------------
(* A collection                                                              *)

\* planProxmoxCoverage: the guests some enabled job includes.
planProxmoxCoverage == InOrder(coverage)

\* Mutant: a plan without guests is taken for a failed read.
retireUnlessEmpty(asked) ==
    InOrder({g \in Guests : asked /\ coverage # {} /\ guestJobs[g] = "enabled" /\ g \notin coverage})

\* retireProxmoxJobs: what ops has enabled and the plan lacks; nothing if ops
\* cannot be asked.
retireProxmoxJobs(asked) ==
    InOrder({g \in Guests : asked /\ guestJobs[g] = "enabled" /\ g \notin coverage})

\* parseVzdumpTask: a run for each guest in the log of the task.
parseVzdumpTask == IF taskEnded /\ ~cached.done THEN InOrder(Guests) ELSE <<>>

\* collectOpsEvidence: registrations before the evidence that needs them.
collectOpsEvidence(asked) ==
    [i \in DOMAIN planProxmoxCoverage |-> JobWrite(planProxmoxCoverage[i], TRUE)]
      \o [i \in DOMAIN retireProxmoxJobs(asked) |-> JobWrite(retireProxmoxJobs(asked)[i], FALSE)]
      \o [i \in DOMAIN parseVzdumpTask |-> RunWrite(parseVzdumpTask[i])]

\* An inventory that could not be read in full gives no writes at all.
collectProxmox(complete, asked) ==
    /\ collector.pc = "idle"
    /\ CollectorIs([pc |-> "replay", offline |-> FALSE, cache |-> cached,
                    writes |-> IF complete THEN collectOpsEvidence(asked) ELSE <<>>])
    /\ IF complete /\ asked THEN UNCHANGED faults ELSE Fault
    /\ UNCHANGED <<worldVars, guestJobs, guestRuns, cspool, cached, runsGiven>>

\* Replay sends the entries in order, and stops at the first that fails.
ReplayEntry ==
    /\ collector.pc = "replay" /\ cspool # <<>>
    /\ \/ Stored(Head(cspool)) /\ cspool' = Tail(cspool) /\ UNCHANGED <<collector, faults>>
       \/ /\ Fault /\ NotStored
          /\ CollectorIs([collector EXCEPT !.pc = "send", !.offline = TRUE])
          /\ UNCHANGED cspool
    /\ UNCHANGED <<worldVars, cached>>

ReplayDone ==
    /\ collector.pc = "replay" /\ cspool = <<>>
    /\ CollectorIs([collector EXCEPT !.pc = "send"])
    /\ UNCHANGED <<worldVars, faults, guestJobs, guestRuns, cspool, cached, runsGiven>>

Next1 == Head(collector.writes)

\* record and markDone: the marker of the task goes in with any of its runs.
Recorded(w) ==
    [collector EXCEPT !.writes = Tail(@),
        !.cache = IF w.kind = "run" THEN [runs |-> @.runs \cup {w.guest}, done |-> TRUE] ELSE @]

Skipped == [collector EXCEPT !.writes = Tail(@)]

\* Registrations are always sent.
unchanged(w) == w.kind = "run" /\ w.guest \in collector.cache.runs

\* The first write: unchanged, delivered, refused (4xx), or answered by nobody,
\* which sends it and all that follow to the spool.
SendUnchanged ==
    /\ collector.pc = "send" /\ collector.writes # <<>>
    /\ unchanged(Next1)
    /\ CollectorIs(Recorded(Next1))
    /\ UNCHANGED <<worldVars, faults, guestJobs, guestRuns, cspool, cached, runsGiven>>

Sending == collector.pc = "send" /\ collector.writes # <<>> /\ ~unchanged(Next1)

SendDelivered ==
    /\ Sending /\ ~collector.offline
    /\ Stored(Next1)
    /\ CollectorIs(Recorded(Next1))
    /\ UNCHANGED <<worldVars, faults, cspool, cached>>

SendRefused ==
    /\ Sending /\ ~collector.offline
    /\ Fault
    /\ CollectorIs(Skipped)
    /\ runsGiven' = IF Next1.kind = "run" THEN runsGiven \cup {Next1.guest} ELSE runsGiven
    /\ UNCHANGED <<worldVars, guestJobs, guestRuns, cspool, cached>>

SendUnanswered ==
    /\ Sending /\ ~collector.offline
    /\ Fault
    /\ Stored(Next1) \/ NotStored
    /\ CollectorIs([collector EXCEPT !.offline = TRUE])
    /\ UNCHANGED <<worldVars, cspool, cached>>

\* Mutant: the file is taken for written.
SpoolUnchecked ==
    /\ Sending /\ collector.offline
    /\ \/ cspool' = Append(cspool, Next1) /\ UNCHANGED faults
       \/ Fault /\ UNCHANGED cspool
    /\ CollectorIs(Recorded(Next1))
    /\ UNCHANGED <<worldVars, guestJobs, guestRuns, cached, runsGiven>>

\* OpsSpool.Add; the disk may refuse, and the run is then lost to ops if
\* another run of its task has been recorded.
SpoolAdd ==
    /\ Sending /\ collector.offline
    /\ \/ /\ cspool' = Append(cspool, Next1)
          /\ CollectorIs(Recorded(Next1))
          /\ UNCHANGED <<faults, runsGiven>>
       \/ /\ Fault
          /\ CollectorIs(Skipped)
          /\ runsGiven' = IF Next1.kind = "run" THEN runsGiven \cup {Next1.guest} ELSE runsGiven
          /\ UNCHANGED cspool
    /\ UNCHANGED <<worldVars, guestJobs, guestRuns, cached>>

Sent ==
    /\ collector.pc = "send" /\ collector.writes = <<>>
    /\ CollectorIs([collector EXCEPT !.pc = "save"])
    /\ UNCHANGED <<worldVars, faults, guestJobs, guestRuns, cspool, cached, runsGiven>>

\* cache.save: a temporary file and a rename.
SaveCache ==
    /\ collector.pc = "save"
    /\ cached' = collector.cache
    /\ CollectorIs(NoCollection)
    /\ UNCHANGED <<worldVars, faults, guestJobs, guestRuns, cspool, runsGiven>>

CollectorStops ==
    /\ collector.pc # "idle"
    /\ Fault
    /\ CollectorIs(NoCollection)
    /\ UNCHANGED <<worldVars, guestJobs, guestRuns, cspool, cached, runsGiven>>

-----------------------------------------------------------------------------

\* What a collection does when nothing fails.
Collect ==
    \/ collectProxmox(TRUE, TRUE)
    \/ ReplayEntry \/ ReplayDone
    \/ SendUnchanged \/ SendDelivered \/ SpoolAdd \/ Sent \/ SaveCache

CollectNext ==
    \/ Collect
    \/ collectProxmox(FALSE, FALSE) \/ collectProxmox(TRUE, FALSE)
    \/ SendRefused \/ SendUnanswered \/ CollectorStops
    \/ LedgerReplaced \/ TaskEnds
    \/ \E g \in Guests : CoverageChanges(g)

CollectSpec == CollectInit /\ [][CollectNext]_collectVars /\ WF_collectVars(Collect)

-----------------------------------------------------------------------------
(* Properties *)

Spooled(g) == \E i \in DOMAIN cspool : cspool[i] = RunWrite(g)

\* What the cache file says was sent is with ops or in the spool, wherever the
\* collector stopped, apart from runs that ops refused or the disk did not
\* take (deliverOpsWrites, cmd/den-tool/ops_collect.go:329; CacheFile, line 32).
CachedIsSent ==
    /\ CollectTypeOK
    /\ \A g \in cached.runs : g \in runsGiven \/ Spooled(g)
    /\ cached.done => \A g \in Guests : g \in runsGiven \/ Spooled(g)

\* Once the backup jobs stay as they are and faults have ended, ops comes to
\* show exactly the covered guests as enabled, whatever was spooled, retired
\* or lost before (cmd/den-tool/ops_collect.go:77, ops_collect_proxmox.go:654).
CoverageConverges ==
    <>[](\A g \in Guests : guestJobs[g] = "enabled" <=> g \in coverage)

=============================================================================
