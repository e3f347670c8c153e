------------------------------ MODULE Resources -----------------------------
(***************************************************************************)
(* The resource board (resources/internal): one host with its telemetry,   *)
(* app queues and one directory entry, and the work ledger, reported by    *)
(* den-tool: a command wrapper that checks in, renews and checks out, and  *)
(* a collector that mirrors the request files of the Workbench.  Every     *)
(* operation is one SQLite transaction; a request may be lost, applied     *)
(* without an answer, or held up in the network and applied later.  A tick *)
(* is long against a transaction, so its clock reading is of its step.     *)
(***************************************************************************)
EXTENDS Integers, FiniteSets, FiniteSetsExt

CONSTANTS
    Commands,    \* runs of "den-tool resources run": their external ids
    Files,       \* Workbench request files: their external ids
    TTL,         \* ttl_seconds
    StaleAfter,  \* Config.StaleAfter
    ResMaxTime   \* bound: the clock

ASSUME ResourcesAssumption ==
    /\ TTL \in Nat /\ StaleAfter \in Nat
    /\ Commands \cap Files = {} /\ Files \cap {"idle", "listed"} = {}
    /\ ResMaxTime \in Nat \ {0}

VARIABLES
    resNow,      \* the clock, from 1: 0 stands for a date that is not set
    host,        \* the host row
    res,         \* the directory entry
    work,        \* the ledger, by source and external id
    runner,      \* the command wrappers
    file,        \* status.json of each Workbench request, and its mtime
    mirror,      \* the collector's pass over the files
    late         \* requests held up in the network

resourceVars == <<resNow, host, res, work, runner, file, mirror, late>>

-----------------------------------------------------------------------------

Jobs == Commands \cup Files
ResTimes == 0..ResMaxTime

IsActive(s) == s \in {"queued", "running"}
IsTerminal(s) == s \in {"completed", "failed", "cancelled"}

NoHost == [known |-> FALSE, sampled |-> 0, busy |-> FALSE, error |-> FALSE,
           apps |-> "none", appsChecked |-> 0]
NoResource == [known |-> FALSE, lastUsed |-> 0, activity |-> 0]
NoWork == [state |-> "none", updated |-> 0, expires |-> 0, started |-> 0, ended |-> 0]

\* id: the receipt's id is known; renewed: when a check-in was last recorded.
NoReporter == [pc |-> "idle", id |-> FALSE, renewed |-> 0]

Update(j, s, at) == [op |-> "update", job |-> j, state |-> s, observed |-> at]
Report(j, s, at) == [op |-> "report", job |-> j, state |-> s, observed |-> at]

ResourcesInit ==
    /\ resNow = 1
    /\ host = NoHost /\ res = NoResource
    /\ work = [j \in Jobs |-> NoWork]
    /\ runner = [c \in Commands |-> NoReporter]
    /\ file = [f \in Files |-> [state |-> "none", mtime |-> 0]]
    /\ mirror = [pc |-> "idle", active |-> {}, mtime |-> 0]
    /\ late = {}

-----------------------------------------------------------------------------
(* Reports of work.  The operators return the rows as they are left.         *)

applyWorkState(w, s, at) ==
    [state |-> s, updated |-> at, expires |-> at + TTL,
     started |-> IF s = "running" /\ w.started = 0 THEN at ELSE w.started,
     ended |-> IF IsActive(s) THEN 0 ELSE IF w.ended = 0 THEN at ELSE w.ended]

UsedAt(w) == IF w.ended # 0 THEN w.ended ELSE w.updated

touchResources(w) ==
    IF w.state = "queued" \/ (w.state = "cancelled" /\ w.started = 0) \/ UsedAt(w) < res.lastUsed
    THEN res
    ELSE [res EXCEPT !.lastUsed = UsedAt(w)]

\* ReportWork leaves finished work to terminal reports, UpdateWork to nobody.
ignored(w, r, at) ==
    /\ w.state # "none"
    /\ \/ IsTerminal(w.state) /\ (IsActive(r.state) \/ r.op = "update")
       \/ w.updated > at

observedAt(r) == IF r.observed = 0 THEN resNow ELSE r.observed

\* requireHost and the check of the named resource; UpdateWork needs a row.
refused(r) ==
    IF r.op = "report" THEN ~host.known \/ ~res.known ELSE work[r.job].state = "none"

\* An update without a state renews the state the row has.
stateOf(r) == IF r.state = "same" THEN work[r.job].state ELSE r.state

WorkRecorded(r) ==
    LET w == applyWorkState(work[r.job], stateOf(r), observedAt(r)) IN
    IF refused(r) \/ ignored(work[r.job], [r EXCEPT !.state = stateOf(r)], observedAt(r))
    THEN UNCHANGED <<work, res>>
    ELSE work' = [work EXCEPT ![r.job] = w] /\ res' = touchResources(w)

\* A request is answered, loses its answer, is held up, or never arrives.
ReportSent(r, fate) ==
    \/ fate \in {"answered", "unanswered"} /\ WorkRecorded(r) /\ UNCHANGED late
    \/ fate = "delayed" /\ late' = late \cup {r} /\ UNCHANGED <<work, res>>
    \/ fate = "lost" /\ UNCHANGED <<work, res, late>>

Fates == {"answered", "unanswered", "delayed", "lost"}

ReportWork == \E r \in late :
    /\ WorkRecorded(r)
    /\ late' = late \ {r}
    /\ UNCHANGED <<resNow, host, runner, file, mirror>>

-----------------------------------------------------------------------------
(* den-tool resources run.                                                   *)

\* One key for every check-in of a run; once the row's id is known, an update
\* with no state, here "same", renews.
checkInRequest(c) == IF runner[c].id THEN Update(c, "same", 0) ELSE Report(c, "running", 0)

checkIn(c) == \E fate \in Fates :
    LET r == checkInRequest(c)
        ok == fate \in {"answered", "unanswered"} /\ ~refused(r)
    IN /\ runner[c].pc \in {"idle", "running"}
       /\ ReportSent(r, fate)
       /\ runner' = [runner EXCEPT ![c] =
            [pc |-> "running", id |-> @.id \/ (ok /\ fate = "answered"),
             renewed |-> IF ok THEN resNow ELSE @.renewed]]
       /\ UNCHANGED <<resNow, host, file, mirror>>

\* Without an id there is nothing to check out: the row goes stale.
checkOut(c) == \E s \in {"completed", "failed", "cancelled"}, fate \in Fates :
    /\ runner[c].pc = "running"
    /\ IF runner[c].id THEN ReportSent(Update(c, s, 0), fate)
       ELSE UNCHANGED <<work, res, late>>
    /\ runner' = [runner EXCEPT ![c].pc = "ended"]
    /\ UNCHANGED <<resNow, host, file, mirror>>

-----------------------------------------------------------------------------
(* den-tool resources collect: the Workbench.                                *)

\* The Workbench writes a request file, its worker the later states.
FileMoves(f) == \E s \in {"queued", "running", "completed", "cancelled"} :
    /\ ~IsTerminal(file[f].state) /\ s # file[f].state /\ (s = "queued" => file[f].state = "none")
    /\ file' = [file EXCEPT ![f] = [state |-> s, mtime |-> resNow]]
    /\ UNCHANGED <<resNow, host, res, work, runner, mirror, late>>

\* Mutant: only running rows are listed.
workbenchRunning ==
    /\ mirror.pc = "idle"
    /\ mirror' = [pc |-> "listed", active |-> {f \in Files : work[f].state = "running"}, mtime |-> 0]
    /\ UNCHANGED <<resNow, host, res, work, runner, file, late>>

workbench ==
    /\ mirror.pc = "idle"
    /\ mirror' = [pc |-> "listed", active |-> {f \in Files : IsActive(work[f].state)}, mtime |-> 0]
    /\ UNCHANGED <<resNow, host, res, work, runner, file, late>>

\* The modification time is read before the file is.
statFile(f) ==
    /\ mirror.pc = "listed" /\ file[f].state # "none"
    /\ mirror' = [mirror EXCEPT !.pc = f, !.mtime = file[f].mtime]
    /\ UNCHANGED <<resNow, host, res, work, runner, file, late>>

\* A finished file closes a row the listing showed as active, and no other.
workbenchFile(f, fate) ==
    /\ mirror.pc = f
    /\ IF IsActive(file[f].state) THEN ReportSent(Report(f, file[f].state, mirror.mtime), fate)
       ELSE IF f \in mirror.active THEN ReportSent(Update(f, file[f].state, mirror.mtime), fate)
       ELSE UNCHANGED <<work, res, late>>
    /\ mirror' = [mirror EXCEPT !.pc = "idle"]
    /\ UNCHANGED <<resNow, host, runner, file>>

-----------------------------------------------------------------------------
(* Hosts, apps and the directory.                                            *)

RegisterHost ==
    /\ host' = [host EXCEPT !.known = TRUE]
    /\ UNCHANGED <<resNow, res, work, runner, file, mirror, late>>

UpsertResource(touch) ==
    /\ host.known
    /\ res' = [res EXCEPT !.known = TRUE, !.lastUsed = IF touch THEN resNow ELSE @]
    /\ UNCHANGED <<resNow, host, work, runner, file, mirror, late>>

\* A failed probe keeps the last snapshot; an older snapshot changes nothing
\* that is shown; a clock that runs ahead counts as the receipt.
Unreadable == [failed |-> TRUE, at |-> 0, busy |-> FALSE, match |-> FALSE]
Probes == {Unreadable} \cup
          [failed : {FALSE}, at : ResTimes, busy : BOOLEAN, match : BOOLEAN]

sampledAt(p) == IF p.at # 0 /\ p.at < resNow THEN p.at ELSE resNow

ReportTelemetry(p) ==
    /\ host.known
    /\ LET accepted == ~p.failed /\ sampledAt(p) >= host.sampled IN
       /\ host' = IF accepted
                  THEN [host EXCEPT !.sampled = sampledAt(p), !.busy = p.busy, !.error = FALSE]
                  ELSE [host EXCEPT !.error = @ \/ p.failed]
       /\ res' = IF accepted /\ p.match /\ res.known /\ res.activity <= sampledAt(p)
                 THEN [res EXCEPT !.activity = sampledAt(p)] ELSE res
    /\ UNCHANGED <<resNow, work, runner, file, mirror, late>>

\* What a probe of a ComfyUI queue finds; it names the resource.
Queues == {"idle", "queued", "running"}

ReportApps(q) ==
    /\ host.known /\ res.known
    /\ host' = [host EXCEPT !.apps = q, !.appsChecked = resNow]
    /\ res' = IF q = "running" THEN [res EXCEPT !.activity = resNow] ELSE res
    /\ UNCHANGED <<resNow, work, runner, file, mirror, late>>

\* The old board's rows, an active Workbench row among them, where there is
\* none yet.
ImportBoard ==
    /\ host' = [host EXCEPT !.known = TRUE]
    /\ res' = IF res.known THEN res ELSE [NoResource EXCEPT !.known = TRUE, !.lastUsed = 1]
    /\ work' = [j \in Jobs |-> IF j \in Files /\ work[j].state = "none"
                               THEN applyWorkState(NoWork, "running", 1) ELSE work[j]]
    /\ UNCHANGED <<resNow, runner, file, mirror, late>>

ResTick ==
    /\ resNow < ResMaxTime /\ resNow' = resNow + 1
    /\ UNCHANGED <<host, res, work, runner, file, mirror, late>>

\* The collector reads the files and its requests reach the service.
Mirrors ==
    \/ workbench
    \/ \E f \in Files : statFile(f) \/ workbenchFile(f, "answered")

ResourcesNext ==
    \/ ReportWork \/ RegisterHost \/ ImportBoard \/ ResTick \/ Mirrors
    \/ \E c \in Commands : checkIn(c) \/ checkOut(c)
    \/ \E f \in Files : FileMoves(f) \/ \E fate \in Fates : workbenchFile(f, fate)
    \/ \E touch \in BOOLEAN : UpsertResource(touch)
    \/ \E p \in Probes : ReportTelemetry(p)
    \/ \E q \in Queues : ReportApps(q)

ResourcesSpec == ResourcesInit /\ [][ResourcesNext]_resourceVars

-----------------------------------------------------------------------------
(* State: what the board shows.                                              *)

\* Mutant: off by one at the expiry.
staleAtExpiry(w) == IsActive(w.state) /\ w.expires <= resNow

Stale(w) == IsActive(w.state) /\ w.expires < resNow

Fresh(at) == at # 0 /\ resNow - at <= StaleAfter

hostResponse ==
    LET live == {work[j].state : j \in {k \in Jobs : IsActive(work[k].state) /\ ~Stale(work[k])}}
        app == IF Fresh(host.appsChecked) THEN host.apps ELSE "none"
    IN IF ~Fresh(host.sampled) \/ host.error THEN "unknown"
       ELSE IF host.busy \/ app = "running" \/ "running" \in live THEN "working"
       ELSE IF live # {} \/ app = "queued" THEN "queued"
       ELSE "quiet"

ResourcesTypeOK ==
    /\ resNow \in 1..ResMaxTime
    /\ host.sampled \in ResTimes /\ host.appsChecked \in ResTimes
    /\ res.lastUsed \in ResTimes /\ res.activity \in ResTimes
    /\ \A j \in Jobs : work[j].updated \in ResTimes /\ work[j].ended \in ResTimes

\* "Stale or failed telemetry is unknown, never quiet" (hostResponse): a host
\* is not shown as quiet while a command on it runs whose check-in was
\* recorded less than its TTL ago, whatever of its own requests or of the
\* collector's arrive late; and a row says finished exactly when it has an end.
QuietIsReal ==
    /\ ResourcesTypeOK
    /\ \A j \in Jobs : IsTerminal(work[j].state) <=> work[j].ended # 0
    /\ hostResponse = "quiet" =>
         \A c \in Commands : runner[c].pc = "running" /\ runner[c].renewed # 0
                               => resNow > runner[c].renewed + TTL

\* A Workbench request that has finished does not stay in the ledger as
\* active: some later pass of the collector closes it.
FinishedFilesClose ==
    \A f \in Files : IsTerminal(file[f].state) /\ IsActive(work[f].state)
                       ~> IsTerminal(work[f].state)

=============================================================================
