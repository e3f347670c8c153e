--------------------------------- MODULE Ops --------------------------------
(***************************************************************************)
(* The ops ledger (ops/internal) and the program that reports to it        *)
(* (cmd/den-tool).  A run reports that it started, sends heartbeats and    *)
(* ends with a terminal report; a request may be lost, handled after its   *)
(* sender gave up, or handled with its answer lost.  A terminal report     *)
(* that was not answered goes to the spool, which later calls replay.      *)
(*                                                                         *)
(* The service handles one report at a time (Service.writes).  What a      *)
(* reader sees of the job is computed from the stored runs and the clock.  *)
(***************************************************************************)
EXTENDS Integers, FiniteSets, FiniteSetsExt

CONSTANTS
    OpsRuns,    \* run ids of the job
    Period,     \* time between two scheduled starts
    RunGrace,   \* Schedule.Grace
    StaleAfter, \* HeartbeatStaleAfter
    OpsMaxTime, \* bound: the clock stops here
    MaxBeats,   \* bound: heartbeats of a run after the first
    LossyRuns,  \* bound: the runs with heartbeats, whose requests may get lost
    MaxLate     \* bound: requests under way at a time whose sender gave up

\* NewSchedule refuses a grace that is not positive (state.go:37).
ASSUME OpsAssumption ==
    /\ OpsRuns \subseteq Nat \ {0} /\ IsFiniteSet(OpsRuns) /\ LossyRuns \subseteq OpsRuns
    /\ Period \in Nat \ {0} /\ RunGrace \in Nat \ {0} /\ StaleAfter \in Nat
    /\ OpsMaxTime \in Nat /\ MaxBeats \in Nat /\ MaxLate \in Nat

VARIABLES
    opsNow,     \* the clock
    job,        \* jobs: the row of the job
    ledger,     \* runs, by id
    runners,    \* den-tool: the processes that run and report
    opsWire,    \* requests whose sender gave up and that may still arrive
    opsSpool,   \* the spool directory
    handled     \* history: the newest heartbeat and end of each run handled

opsVars == <<opsNow, job, ledger, runners, opsWire, opsSpool, handled>>

-----------------------------------------------------------------------------

Ended == {"success", "warning", "failed", "skipped"}

OpsReport == [run : OpsRuns, state : {"running"} \cup Ended, started : Nat, at : Nat]

NoRun == [run |-> 0, state |-> "absent", started |-> 0, at |-> 0]

NoRunner == [pc |-> "idle", started |-> 0, beats |-> 0, ends |-> {}, at |-> 0]

NoJob == [registered |-> FALSE, enabled |-> FALSE, there |-> FALSE]

OpsTypeOK ==
    /\ opsNow \in 0..OpsMaxTime
    /\ \A r \in OpsRuns : ledger[r] \in OpsReport \cup {NoRun}
    /\ \A r \in OpsRuns : runners[r].pc \in {"idle", "running", "ended"}
    /\ opsWire \subseteq OpsReport /\ opsSpool \subseteq OpsReport
    /\ handled \in [OpsRuns \X BOOLEAN -> OpsReport \cup {NoRun}]

OpsInit ==
    /\ opsNow = 0
    /\ job = NoJob
    /\ ledger = [r \in OpsRuns |-> NoRun]
    /\ runners = [r \in OpsRuns |-> NoRunner]
    /\ opsWire = {} /\ opsSpool = {}
    /\ handled = [k \in OpsRuns \X BOOLEAN |-> NoRun]

-----------------------------------------------------------------------------
(* The service                                                               *)

IsTerminalRun(run) == run.state \in Ended

DecideReport(existing, incoming) ==
    LET same == IsTerminalRun(existing) = IsTerminalRun(incoming)
    IN
    CASE existing = NoRun -> "created"
      [] existing # NoRun /\ ~same -> IF IsTerminalRun(existing) THEN "ignored_terminal" ELSE "updated"
      [] existing # NoRun /\ same /\ incoming.at < existing.at -> "ignored_stale"
      [] existing # NoRun /\ same /\ incoming.at = existing.at -> "duplicate"
      [] OTHER -> "updated"

\* A report of a job nobody has registered creates it.
implicitJob == IF job.there THEN job ELSE [registered |-> FALSE, enabled |-> TRUE, there |-> TRUE]

\* SaveReport: the job and the run in one transaction.
saveRun(rep) == ledger' = [ledger EXCEPT ![rep.run] = rep] /\ job' = implicitJob

ReportRun(rep) ==
    /\ IF DecideReport(ledger[rep.run], rep) \in {"created", "updated"} THEN saveRun(rep)
       ELSE UNCHANGED <<ledger, job>>
    /\ handled' = [handled EXCEPT ![<<rep.run, IsTerminalRun(rep)>>] =
          IF @ = NoRun \/ @.at < rep.at THEN rep ELSE @]

NotHandled == UNCHANGED <<ledger, job, handled>>

RegisterJob(enabled) ==
    /\ job # [registered |-> TRUE, enabled |-> enabled, there |-> TRUE]
    /\ job' = [registered |-> TRUE, enabled |-> enabled, there |-> TRUE]
    /\ UNCHANGED <<opsNow, ledger, runners, opsWire, opsSpool, handled>>

-----------------------------------------------------------------------------
(* den-tool                                                                  *)

ReportOf(r, state) ==
    [run |-> r, state |-> state, at |-> opsNow,
     started |-> IF runners[r].pc = "idle" THEN opsNow ELSE runners[r].started]

\* OpsClient.Do: answered, lost, or given up while it is under way.
Answered(rep) == ReportRun(rep) /\ UNCHANGED opsWire
GivenUp(rep) ==
    /\ rep.run \in LossyRuns
    /\ NotHandled
    /\ opsWire' \in {opsWire} \cup (IF Cardinality(opsWire) < MaxLate THEN {opsWire \cup {rep}} ELSE {})

\* A heartbeat that is not answered is forgotten.
sendHeartbeat(r) ==
    /\ Answered(ReportOf(r, "running")) \/ GivenUp(ReportOf(r, "running"))
    /\ UNCHANGED <<opsNow, opsSpool>>

runOpsRun(r) ==
    /\ runners[r].pc = "idle"
    /\ \A q \in OpsRuns : q < r => runners[q].pc # "idle"
    /\ sendHeartbeat(r)
    /\ runners' = [runners EXCEPT ![r] = [NoRunner EXCEPT !.pc = "running", !.started = opsNow]]

runForwardingSignals(r) ==
    /\ runners[r].pc = "running"
    /\ r \in LossyRuns /\ runners[r].beats < MaxBeats
    /\ sendHeartbeat(r)
    /\ runners' = [runners EXCEPT ![r].beats = @ + 1]

deliverOrSpool(rep) ==
    \/ Answered(rep) /\ UNCHANGED opsSpool
    \/ GivenUp(rep) /\ opsSpool' = opsSpool \cup {rep}

\* The command ends, or a collector reports a run that was skipped.
EndRun(r, state) ==
    /\ runners[r].pc = "running" \/ (runners[r].pc = "idle" /\ state = "skipped")
    /\ \A q \in OpsRuns : q < r => runners[q].pc # "idle"
    /\ deliverOrSpool(ReportOf(r, state))
    /\ runners' = [runners EXCEPT ![r] =
          [@ EXCEPT !.pc = "ended", !.ends = {state}, !.at = opsNow,
                    !.started = ReportOf(r, state).started]]
    /\ UNCHANGED opsNow

\* A collector that finds the report of an ended run changed sends it again.
ReviseRun(r, state) ==
    /\ runners[r].pc = "ended" /\ Cardinality(runners[r].ends) = 1
    /\ state \notin runners[r].ends /\ "skipped" \notin runners[r].ends
    /\ runners[r].at < opsNow
    /\ deliverOrSpool(ReportOf(r, state))
    /\ runners' = [runners EXCEPT ![r].ends = @ \cup {state}, ![r].at = opsNow]
    /\ UNCHANGED opsNow

\* Replay sends the oldest entry and removes its file once it is answered.
Replay ==
    \E rep \in opsSpool :
       /\ \A o \in opsSpool : rep.at <= o.at
       /\ ReportRun(rep)
       /\ opsSpool' = opsSpool \ {rep}
       /\ UNCHANGED <<opsNow, runners, opsWire>>

\* The answer, or the removal, is lost.
ReplayUnanswered ==
    \E rep \in opsSpool :
       /\ \A o \in opsSpool : rep.at <= o.at
       /\ ReportRun(rep)
       /\ UNCHANGED <<opsNow, runners, opsWire, opsSpool>>

ArrivesLate ==
    \E rep \in opsWire :
       /\ ReportRun(rep)
       /\ opsWire' = opsWire \ {rep}
       /\ UNCHANGED <<opsNow, runners, opsSpool>>

OpsTick ==
    /\ opsNow < OpsMaxTime
    /\ opsNow' = opsNow + 1
    /\ UNCHANGED <<job, ledger, runners, opsWire, opsSpool, handled>>

-----------------------------------------------------------------------------
(* What a reader sees                                                        *)

\* Slots are the multiples of Period; -1 where there is none.
PreviousSlot(at) == Max({-1} \cup {s \in 0..OpsMaxTime : s % Period = 0 /\ s <= at})

Newest(S) == CHOOSE x \in S : \A y \in S : x.started > y.started
                                \/ (x.started = y.started /\ x.run >= y.run)
LastOf(S) == IF S = {} THEN NoRun ELSE Newest(S)

LoadJobRuns ==
    LET stored == {ledger[r] : r \in OpsRuns} \ {NoRun}
    IN  [attempt  |-> LastOf(stored),
         started  |-> LastOf({x \in stored : x.state # "skipped"}),
         finished |-> LastOf({x \in stored : x.state \in Ended \ {"skipped"}}),
         success  |-> LastOf({x \in stored : x.state = "success"})]

\* Mutant: any attempt counts for the slot, a skipped one too.
coveredByAttempt(slot, runs) ==
    LET prior == PreviousSlot(slot - 1)
        opens == IF prior = -1 THEN 0 ELSE Min({prior + RunGrace, slot})
    IN  runs.attempt # NoRun /\ runs.attempt.started >= opens

coversSlot(slot, runs) ==
    LET prior == PreviousSlot(slot - 1)
        opens == IF prior = -1 THEN 0 ELSE Min({prior + RunGrace, slot})
    IN  runs.started # NoRun /\ runs.started.started >= opens

Overdue(runs) ==
    LET expected == PreviousSlot(opsNow - RunGrace)
    IN  job.registered /\ expected # -1 /\ ~coversSlot(expected, runs)

\* EvaluateJob and rollUp; only a registered job has a schedule.
EvaluateJob ==
    LET runs == LoadJobRuns
        silent == runs.attempt.state = "running" /\ opsNow - runs.attempt.at > StaleAfter
    IN
    IF ~job.enabled THEN "disabled"
    ELSE IF runs.attempt = NoRun THEN "never_reported"
    ELSE IF silent THEN "unknown"
    ELSE IF runs.finished.state = "failed" THEN "failed"
    ELSE IF Overdue(runs) THEN "overdue"
    ELSE IF runs.finished.state = "warning" THEN "warning"
    ELSE IF runs.attempt.state = "running" THEN "running"
    ELSE IF runs.finished = NoRun THEN "unknown" ELSE "ok"

-----------------------------------------------------------------------------

OpsNext ==
    \/ \E r \in OpsRuns :
          \/ runOpsRun(r) \/ runForwardingSignals(r)
          \/ \E state \in Ended : EndRun(r, state)
          \/ \E state \in {"warning"} : ReviseRun(r, state)
    \/ \E enabled \in BOOLEAN : RegisterJob(enabled)
    \/ Replay \/ ReplayUnanswered \/ ArrivesLate \/ OpsTick

OpsSpec == OpsInit /\ [][OpsNext]_opsVars

-----------------------------------------------------------------------------
(* Properties *)

\* In whatever order, late or twice the reports of a run arrive, the ledger
\* holds the newest terminal report it was ever given, or the newest
\* heartbeat while there is none; and a terminal report that was not answered
\* is in the spool until the ledger knows the end of its run
\* (DecideReport, ops/internal/state.go:244; deliverOrSpool, cmd/den-tool/ops.go:251).
LedgerIsNewest ==
    /\ OpsTypeOK
    /\ \A r \in OpsRuns :
       /\ ledger[r] = IF handled[<<r, TRUE>>] # NoRun THEN handled[<<r, TRUE>>]
                      ELSE handled[<<r, FALSE>>]
       /\ runners[r].pc = "ended" =>
             IsTerminalRun(ledger[r]) \/ \E rep \in opsSpool : rep.run = r /\ IsTerminalRun(rep)

\* Lack of evidence is never success: a job shows ok only if it is enabled,
\* the last of its finished runs succeeded, no run stored as started after
\* that one is unfinished unless a skipped attempt followed it, and some run,
\* not skipped, started for the last slot whose grace has passed: after the
\* grace of the slot before it, or not before the slot itself
\* (docs/ops-api-contract.md:83-93, EvaluateJob, ops/internal/state.go:157).
StatusIsEvidenced ==
    LET stored == {ledger[r] : r \in OpsRuns} \ {NoRun}
        due == {s \in 0..OpsMaxTime : s % Period = 0 /\ s + RunGrace <= opsNow}
        begun == {x \in stored : x.state # "skipped"}
        later(x, y) == x.started > y.started \/ (x.started = y.started /\ x.run > y.run)
    IN
    EvaluateJob = "ok" =>
       /\ job.enabled
       /\ \E x \in stored :
             /\ x.state = "success"
             /\ \A y \in stored : later(y, x) =>
                   \/ y.state = "skipped"
                   \/ y.state = "running" /\ \E z \in stored : later(z, y) /\ z.state = "skipped"
       /\ job.registered /\ due # {} =>
             \E x \in begun : x.started >= Min({Max(due) - Period + RunGrace, Max(due)})

\* What is shown of a job rests on the ledger and the ledger on the reports: no
\* order of arrival makes a job look better than its newest report
\* (UpsertRun, EvaluateJob).
LedgerIsEvidence == LedgerIsNewest /\ StatusIsEvidenced

=============================================================================
