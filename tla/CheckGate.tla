----------------------------- MODULE CheckGate -----------------------------
(***************************************************************************)
(* GitHub check gates of one task (review/internal): a gate per commit,    *)
(* registered by agents, settled by the one background watcher of the      *)
(* service, with a durable terminal event per attempt and an evidence      *)
(* message on the task thread.                                             *)
(*                                                                         *)
(* Registrations run concurrently with each other and with the watcher.    *)
(* A registration is one READ COMMITTED transaction of two statements      *)
(* followed, for a failed or timed-out gate, by a statement of its own;    *)
(* the watcher works on snapshots of rows it listed earlier, and asks      *)
(* GitHub and the messages service between its statements.                 *)
(***************************************************************************)
EXTENDS Integers, FiniteSets

CONSTANTS
    Commits,       \* commits of the task; a commit names its one gate row
    Checks,        \* names of GitHub checks
    Requests,      \* registration requests, numbered as they arrive
    Timeout,       \* the requested or default timeout of a gate
    PollInterval,  \* poll_interval_seconds
    Grace,         \* github.missing_check_grace
    BatchSize,     \* rows the watcher lists at a time
    None,          \* no commit
    Horizon,       \* bound: the clock stops here; no later deadline is set
    MaxFaults      \* bound: failed statements and watcher crashes

ASSUME CheckGateAssumption ==
    /\ Requests \subseteq Nat
    /\ Timeout \in Nat \ {0}
    /\ PollInterval \in Nat \ {0}
    /\ Grace \in Nat
    /\ BatchSize \in Nat \ {0}
    /\ None \notin Commits
    /\ Horizon \in Nat
    /\ MaxFaults \in Nat

VARIABLES
    now,       \* the clock
    gates,     \* den_review.github_check_gates, committed rows
    events,    \* den_review.github_check_gate_terminal_events
    messages,  \* evidence messages on the task thread
    regs,      \* the registration requests
    watcher,   \* the GitHubCheckWatcher
    faults     \* faults left

gateVars == <<now, gates, events, messages, regs, watcher, faults>>

-----------------------------------------------------------------------------

NoTime == -1
Time == Nat \cup {NoTime}

Terminal == {"passed", "failed", "timed_out", "superseded"}

\* "absent" stands for a row that does not exist.
GateStatus == {"absent", "pending"} \cup Terminal

terminalGitHubCheckGateStatus(s) == s \in Terminal

reopenableGitHubCheckGateStatus(s) == s \in {"failed", "timed_out"}

EvidenceStatus == {"not_required", "pending", "error", "posted"}

\* checks: required_checks; runs: the names that appear in check_runs.
Gate ==
    [status : GateStatus, attempt : Nat, checks : SUBSET Checks, runs : SUBSET Checks,
     createdAt : Time, timeoutAt : Time, nextPoll : Time, evidence : EvidenceStatus]

NoGate ==
    [status |-> "absent", attempt |-> 0, checks |-> {}, runs |-> {},
     createdAt |-> NoTime, timeoutAt |-> NoTime, nextPoll |-> NoTime,
     evidence |-> "not_required"]

Event ==
    [commit : Commits, attempt : Nat, status : Terminal,
     checks : SUBSET Checks, runs : SUBSET Checks]

Message == [commit : Commits, attempt : Nat, status : Terminal]

\* A registration: between its statements it holds the locks of the rows it
\* superseded; "reopen" is between the transaction and the second statement.
Registration ==
    [pc : {"idle", "upsert", "reopen", "done"}, commit : Commits \cup {None},
     checks : SUBSET Checks, at : Time, locks : SUBSET Commits, attempt : Nat]

NoReg(pc) ==
    [pc |-> pc, commit |-> None, checks |-> {}, at |-> NoTime, locks |-> {}, attempt |-> 0]

\* What the watcher knows: the snapshots still to process, whether the list
\* was full, the snapshot in hand and what it is about to write about it.
Snapshot == [commit : Commits, row : Gate]

Result ==
    [kind : {"none", "complete", "delay", "posted", "error"},
     status : GateStatus, runs : SUBSET Checks, next : Time]

NoResult == [kind |-> "none", status |-> "absent", runs |-> {}, next |-> NoTime]

Idle(pc) == [pc |-> pc, batch |-> {}, full |-> FALSE, commit |-> None, res |-> NoResult]

Watcher ==
    [pc : {"list", "evaluate", "apply", "evidence", "append", "mark"},
     batch : SUBSET Snapshot, full : BOOLEAN, commit : Commits \cup {None}, res : Result]

GateTypeOK ==
    /\ now \in 0..Horizon
    /\ gates \in [Commits -> Gate]
    /\ events \subseteq Event
    /\ messages \subseteq Message
    /\ regs \in [Requests -> Registration]
    /\ watcher \in Watcher
    /\ faults \in 0..MaxFaults

-----------------------------------------------------------------------------
(* The terminal event of a row, inserted by the statement that ends it.      *)

EventOf(c, row) ==
    [commit |-> c, attempt |-> row.attempt, status |-> row.status,
     checks |-> row.checks, runs |-> row.runs]

\* A gate that failed before: what a service finds when it starts.
FailedGate ==
    [status |-> "failed", attempt |-> 1, checks |-> Checks, runs |-> Checks,
     createdAt |-> 0, timeoutAt |-> Timeout, nextPoll |-> 0, evidence |-> "pending"]

GateInit ==
    /\ now = 0
    /\ \E old \in {{}} \cup {{c} : c \in Commits} :
          /\ gates = [c \in Commits |-> IF c \in old THEN FailedGate ELSE NoGate]
          /\ events = {EventOf(c, FailedGate) : c \in old}
    /\ messages = {}
    /\ regs = [r \in Requests |-> NoReg("idle")]
    /\ watcher = Idle("list")
    /\ faults = MaxFaults

\* on conflict(gate_id, attempt) do nothing
InsertEvents(new) ==
    events' = events \cup
        {e \in new : ~ \E f \in events : f.commit = e.commit /\ f.attempt = e.attempt}

\* A row another transaction has locked: statements that write it wait.
Locked(c, r) == \E q \in Requests \ {r} : c \in regs[q].locks

LockedByAny(c) == \E q \in Requests : c \in regs[q].locks

-----------------------------------------------------------------------------
(* RegisterGitHubCheckGate.                                                  *)

Pending(c) == gates[c].status = "pending"

\* supersedeGitHubCheckGatesSQL: updates and so locks every other gate of the
\* task that is pending when the statement runs.
RegisterSupersede(r, c, required) ==
    LET older == {d \in Commits \ {c} : Pending(d)} IN
    /\ regs[r].pc = "idle"
    /\ \A q \in Requests : q < r => regs[q].pc # "idle"
    /\ now + Timeout <= Horizon
    /\ \A d \in older : ~Locked(d, r)
    /\ regs' = [regs EXCEPT ![r] =
          [pc |-> "upsert", commit |-> c, checks |-> required, at |-> now,
           locks |-> older, attempt |-> 0]]
    /\ UNCHANGED <<now, gates, events, messages, watcher, faults>>

Superseded(row) == [row EXCEPT !.status = "superseded", !.evidence = "pending"]

\* upsertGitHubCheckGateSQL: a new row, or a row of the same commit: while it
\* is pending it takes the new checks and is polled at once; its deadline,
\* and everything of a terminal row, stay.
Upserted(row, required, at) ==
    IF row.status = "absent"
    THEN [NoGate EXCEPT !.status = "pending", !.attempt = 1, !.checks = required,
                        !.createdAt = at, !.timeoutAt = at + Timeout, !.nextPoll = at]
    ELSE IF row.status = "pending"
    THEN [row EXCEPT !.checks = required, !.nextPoll = at]
    ELSE row

\* The upsert and the commit of the transaction; a failed or timed-out row
\* goes on to the reopening statement with the attempt that was returned.
RegisterUpsert(r) ==
    LET g == regs[r]
        stored == Upserted(gates[g.commit], g.checks, g.at)
        old(d) == Superseded(gates[d])
    IN
    /\ g.pc = "upsert"
    /\ ~Locked(g.commit, r)
    /\ gates' = [d \in Commits |-> IF d = g.commit THEN stored
                                   ELSE IF d \in g.locks THEN old(d) ELSE gates[d]]
    /\ InsertEvents({EventOf(d, old(d)) : d \in g.locks})
    /\ regs' = [regs EXCEPT ![r] =
          IF reopenableGitHubCheckGateStatus(stored.status)
          THEN [g EXCEPT !.pc = "reopen", !.locks = {}, !.attempt = stored.attempt]
          ELSE NoReg("done")]
    /\ UNCHANGED <<now, messages, watcher, faults>>

Reopened(row, required) ==
    [row EXCEPT !.status = "pending", !.attempt = @ + 1, !.checks = required,
                !.timeoutAt = now + Timeout, !.nextPoll = now,
                !.evidence = "not_required"]

\* reopenGitHubCheckGateSQL: compares the attempt the transaction returned.
ReopenGitHubCheckGate(r) ==
    LET g == regs[r]
        row == gates[g.commit]
    IN
    /\ g.pc = "reopen"
    /\ now + Timeout <= Horizon
    /\ ~LockedByAny(g.commit)
    /\ gates' = IF row.attempt = g.attempt /\ reopenableGitHubCheckGateStatus(row.status)
                THEN [gates EXCEPT ![g.commit] = Reopened(row, g.checks)]
                ELSE gates
    /\ regs' = [regs EXCEPT ![r] = NoReg("done")]
    /\ UNCHANGED <<now, events, messages, watcher, faults>>

\* The transaction rolls back (an error, or the victim of a deadlock), or the
\* request ends before the reopening statement.
RegisterAbort(r) ==
    /\ regs[r].pc \in {"upsert", "reopen"}
    /\ regs' = [regs EXCEPT ![r] = NoReg("done")]
    /\ UNCHANGED <<now, gates, events, messages, watcher, faults>>

-----------------------------------------------------------------------------
(* The watcher: PollGitHubCheckGates, called by Run at every tick.           *)

\* The first BatchSize rows by next_poll_at; ties in any order.
FirstDue(due) ==
    {B \in SUBSET due :
        /\ Cardinality(B) = IF Cardinality(due) < BatchSize THEN Cardinality(due) ELSE BatchSize
        /\ \A c \in B, d \in due \ B : gates[c].nextPoll <= gates[d].nextPoll}

Snapshots(B) == {[commit |-> c, row |-> gates[c]] : c \in B}

ListPendingGitHubCheckGates ==
    /\ watcher.pc = "list"
    /\ \E B \in FirstDue({c \in Commits : Pending(c) /\ gates[c].nextPoll <= now}) :
          watcher' = IF B = {} THEN Idle("evidence")
                     ELSE [Idle("evaluate") EXCEPT !.batch = Snapshots(B),
                                                   !.full = (Cardinality(B) = BatchSize)]
    /\ UNCHANGED <<now, gates, events, messages, regs, faults>>

\* How GitHub answers about each name: no run of it anywhere, a run that has
\* not settled it, a run that satisfies it, a failure.
CheckState == {"missing", "waiting", "green", "red"}

\* CheckChange reduced to its verdict.  Required checks that are missing when
\* every observed run has settled fail the gate once its row is old enough.
Verdict(required, answer, settled, old) ==
    IF \E k \in required : answer[k] = "red" THEN "failed"
    ELSE IF \E k \in required : answer[k] = "missing"
    THEN IF settled /\ old THEN "failed" ELSE "pending"
    ELSE IF \E k \in required : answer[k] = "waiting" THEN "pending"
    ELSE "passed"

\* The snapshot evaluated next: the batch is in order of next_poll_at.
Evaluating(s) ==
    /\ watcher.pc = "evaluate"
    /\ s \in watcher.batch
    /\ \A t \in watcher.batch : s.row.nextPoll <= t.row.nextPoll

Decide(s, res) ==
    watcher' = [watcher EXCEPT !.pc = "apply", !.batch = @ \ {s},
                               !.commit = s.commit, !.res = res]

\* TimeoutGitHubCheckGate keeps the runs the row has when it is read.
EvaluateTimeout ==
    \E s \in watcher.batch :
        /\ Evaluating(s)
        /\ now >= s.row.timeoutAt
        /\ Decide(s, [kind |-> "complete", status |-> "timed_out",
                      runs |-> gates[s.commit].runs, next |-> now])
        /\ UNCHANGED <<now, gates, events, messages, regs, faults>>

\* evaluateGitHubCheckGate asks about the required checks of the snapshot.
EvaluateAnswer ==
    \E s \in watcher.batch, settled \in BOOLEAN :
        /\ Evaluating(s)
        /\ now < s.row.timeoutAt
        /\ \E answer \in [s.row.checks -> CheckState] :
              LET status == Verdict(s.row.checks, answer, settled,
                                    now >= s.row.createdAt + Grace)
              IN Decide(s, [kind |-> "complete", status |-> status, runs |-> s.row.checks,
                            next |-> IF status = "pending" THEN now + PollInterval ELSE now])
        /\ UNCHANGED <<now, gates, events, messages, regs, faults>>

\* A request error or a 403 or 429 response puts the poll off, at most to the
\* deadline of the snapshot: delayGitHubCheckGateAfterError takes the poll
\* interval, nextGitHubHTTPErrorPollAt a backoff GitHub may choose.
EvaluateError ==
    \E s \in watcher.batch :
        /\ Evaluating(s)
        /\ now < s.row.timeoutAt
        /\ \E next \in (now + 1)..s.row.timeoutAt :
              Decide(s, [kind |-> "delay", status |-> "pending", runs |-> {}, next |-> next])
        /\ UNCHANGED <<now, gates, events, messages, regs, faults>>

\* Back to the list after a full batch, else on to the evidence.
NextSnapshot ==
    watcher' = IF watcher.batch # {}
               THEN [watcher EXCEPT !.pc = "evaluate", !.commit = None, !.res = NoResult]
               ELSE Idle(IF watcher.full THEN "list" ELSE "evidence")

\* Mutant: the status is not compared.
CompleteAnyStatus(c, res) ==
    LET row == [gates[c] EXCEPT !.status = res.status, !.runs = res.runs, !.nextPoll = res.next]
        done == [row EXCEPT !.evidence = "pending"]
    IN IF terminalGitHubCheckGateStatus(res.status)
       THEN gates' = [gates EXCEPT ![c] = done] /\ InsertEvents({EventOf(c, done)})
       ELSE gates' = [gates EXCEPT ![c] = row] /\ UNCHANGED events

\* completeGitHubCheckGateSQL: one statement that writes the row while it is
\* pending and, for a terminal status, its event.
CompleteGitHubCheckGate(c, res) ==
    LET row == [gates[c] EXCEPT !.status = res.status, !.runs = res.runs, !.nextPoll = res.next]
        done == [row EXCEPT !.evidence = "pending"]
    IN IF ~Pending(c) THEN UNCHANGED <<gates, events>>
       ELSE IF terminalGitHubCheckGateStatus(res.status)
       THEN gates' = [gates EXCEPT ![c] = done] /\ InsertEvents({EventOf(c, done)})
       ELSE gates' = [gates EXCEPT ![c] = row] /\ UNCHANGED events

ApplyComplete ==
    /\ watcher.pc = "apply"
    /\ watcher.res.kind = "complete"
    /\ ~LockedByAny(watcher.commit)
    /\ CompleteGitHubCheckGate(watcher.commit, watcher.res)
    /\ NextSnapshot
    /\ UNCHANGED <<now, messages, regs, faults>>

DelayGitHubCheckGate ==
    /\ watcher.pc = "apply"
    /\ watcher.res.kind = "delay"
    /\ ~LockedByAny(watcher.commit)
    /\ gates' = IF Pending(watcher.commit)
                THEN [gates EXCEPT ![watcher.commit].nextPoll = watcher.res.next,
                                   ![watcher.commit].runs = {}]
                ELSE gates
    /\ NextSnapshot
    /\ UNCHANGED <<now, events, messages, regs, faults>>

\* The statement fails: the error is collected and the loop goes on.
ApplyFails ==
    /\ watcher.pc = "apply"
    /\ faults > 0
    /\ faults' = faults - 1
    /\ NextSnapshot
    /\ UNCHANGED <<now, gates, events, messages, regs>>

-----------------------------------------------------------------------------
(* RetryGitHubCheckGateEvidence, at the end of every poll.                   *)

\* Mutant: a failed append is not retried.
ListNeverAppended ==
    LET due == {c \in Commits : /\ gates[c].evidence = "pending"
                                /\ terminalGitHubCheckGateStatus(gates[c].status)}
    IN
    /\ watcher.pc = "evidence"
    /\ watcher' = IF due = {} THEN Idle("list")
                  ELSE [Idle("append") EXCEPT !.batch = Snapshots(due)]
    /\ UNCHANGED <<now, gates, events, messages, regs, faults>>

\* Rows beyond the batch are taken by a later poll; which ones is left open.
ListGitHubCheckGatesPendingEvidence ==
    LET due == {c \in Commits : /\ gates[c].evidence \in {"pending", "error"}
                                /\ terminalGitHubCheckGateStatus(gates[c].status)}
    IN
    /\ watcher.pc = "evidence"
    /\ \E B \in SUBSET due :
          /\ Cardinality(B) = IF Cardinality(due) < BatchSize THEN Cardinality(due) ELSE BatchSize
          /\ watcher' = IF B = {} THEN Idle("list")
                        ELSE [Idle("append") EXCEPT !.batch = Snapshots(B)]
    /\ UNCHANGED <<now, gates, events, messages, regs, faults>>

Appending(s, outcome) ==
    /\ watcher.pc = "append"
    /\ s \in watcher.batch
    /\ watcher' = [watcher EXCEPT !.pc = "mark", !.batch = @ \ {s}, !.commit = s.commit,
                                  !.res = [NoResult EXCEPT !.kind = outcome]]
    /\ UNCHANGED <<now, gates, events, regs>>

Evidence(s) == [commit |-> s.commit, attempt |-> s.row.attempt, status |-> s.row.status]

\* AppendTaskMessage with what the snapshot says.
AppendEvidence ==
    \E s \in watcher.batch :
        /\ Appending(s, "posted")
        /\ messages' = messages \cup {Evidence(s)}
        /\ UNCHANGED faults

\* The append fails, or succeeds and its answer is lost.
AppendFails ==
    \E s \in watcher.batch, arrived \in BOOLEAN :
        /\ faults > 0
        /\ faults' = faults - 1
        /\ Appending(s, "error")
        /\ messages' = IF arrived THEN messages \cup {Evidence(s)} ELSE messages

\* Mutant: a failed append is marked as posted.
MarkAlwaysPosted ==
    /\ watcher.pc = "mark"
    /\ ~LockedByAny(watcher.commit)
    /\ gates' = [gates EXCEPT ![watcher.commit].evidence = "posted"]
    /\ watcher' = IF watcher.batch # {}
                  THEN [watcher EXCEPT !.pc = "append", !.commit = None, !.res = NoResult]
                  ELSE Idle("list")
    /\ UNCHANGED <<now, events, messages, regs, faults>>

\* markGitHubCheckGateEvidencePostedSQL and recordGitHubCheckGateEvidenceErrorSQL
\* write the row whatever has become of it.
MarkEvidence ==
    /\ watcher.pc = "mark"
    /\ ~LockedByAny(watcher.commit)
    /\ gates' = [gates EXCEPT ![watcher.commit].evidence = watcher.res.kind]
    /\ watcher' = IF watcher.batch # {}
                  THEN [watcher EXCEPT !.pc = "append", !.commit = None, !.res = NoResult]
                  ELSE Idle("list")
    /\ UNCHANGED <<now, events, messages, regs, faults>>

\* The process stops between two steps and starts again.
WatcherCrash ==
    /\ watcher.pc \in {"evaluate", "apply", "append", "mark"}
    /\ faults > 0
    /\ faults' = faults - 1
    /\ watcher' = Idle("list")
    /\ UNCHANGED <<now, gates, events, messages, regs>>

Tick ==
    /\ now < Horizon
    /\ now' = now + 1
    /\ UNCHANGED <<gates, events, messages, regs, watcher, faults>>

-----------------------------------------------------------------------------

Watch ==
    \/ ListPendingGitHubCheckGates
    \/ EvaluateTimeout
    \/ EvaluateAnswer
    \/ EvaluateError
    \/ ApplyComplete
    \/ DelayGitHubCheckGate
    \/ ListGitHubCheckGatesPendingEvidence
    \/ AppendEvidence
    \/ MarkEvidence

Faulty == ApplyFails \/ AppendFails \/ WatcherCrash

Register ==
    \E r \in Requests :
        \/ \E c \in Commits, required \in SUBSET Checks \ {{}} :
              RegisterSupersede(r, c, required)
        \/ RegisterUpsert(r)
        \/ ReopenGitHubCheckGate(r)
        \/ RegisterAbort(r)

GateNext == Register \/ Watch \/ Faulty \/ Tick

GateSpec == GateInit /\ [][GateNext]_gateVars

\* Every transaction ends; the watcher keeps working through its loop.
GateFairness ==
    /\ \A r \in Requests : WF_gateVars(RegisterUpsert(r) \/ RegisterAbort(r))
    /\ WF_gateVars(Watch)
    /\ WF_gateVars(Tick)

FairGateSpec == GateSpec /\ GateFairness

-----------------------------------------------------------------------------
(* Properties.                                                               *)

\* The event log tells the whole history of a gate: one event per finished
\* attempt, none of a running one, the earlier attempts failed or timed out,
\* and the last event has the status the row has.  It rests on the row and the
\* event being written together, and on every writer comparing the status.
EventsTellHistory ==
    /\ GateTypeOK
    /\ \A c \in Commits :
        LET row == gates[c]
            finished == {k \in 1..row.attempt : k < row.attempt \/ row.status \in Terminal}
            of(k) == {e \in events : e.commit = c /\ e.attempt = k}
        IN
        /\ {e.attempt : e \in {f \in events : f.commit = c}} = finished
        /\ \A k \in finished : Cardinality(of(k)) = 1
        /\ \A k \in finished, e \in events :
              e \in of(k) => e.status \in (IF k = row.attempt THEN {row.status}
                                           ELSE {"failed", "timed_out"})

\* A terminal row the watcher ended, and a superseded row that was never
\* reopened, is marked as posted only if a message with its status is on the
\* thread: evidence is never dropped by a failure, a lost answer or a crash.
PostedWasAppended ==
    \A c \in Commits :
        /\ gates[c].status \in Terminal
        /\ gates[c].evidence = "posted"
        /\ gates[c].status # "superseded" \/ gates[c].attempt = 1
        => [commit |-> c, attempt |-> gates[c].attempt, status |-> gates[c].status] \in messages

\* What the gate, its events and the thread say of an attempt is one story
\* (store.go CompleteGitHubCheckGate, service.go PostGitHubCheckGateEvidence).
GateRecordIsTrue == EventsTellHistory /\ PostedWasAppended

\* Passed and superseded gates stay as they are, and an attempt ends only in a
\* terminal state: nothing but a reopening starts a new one.
VerdictsAreFinal ==
    [][\A c \in Commits :
          /\ gates[c].status \in {"passed", "superseded"} =>
                /\ gates'[c].status = gates[c].status
                /\ gates'[c].attempt = gates[c].attempt
                /\ gates'[c].checks = gates[c].checks
          /\ gates'[c].attempt # gates[c].attempt /\ gates[c].status # "absent" =>
                /\ gates[c].status \in {"failed", "timed_out"}
                /\ gates'[c].attempt = gates[c].attempt + 1]_gateVars

\* A gate that is pending is settled: whatever GitHub answers or fails to
\* answer, its deadline ends it.
PendingSettles ==
    \A c \in Commits : gates[c].status = "pending" ~> gates[c].status \in Terminal

\* The evidence of a finished gate is posted, unless a reopening withdraws it.
EvidenceIsDelivered ==
    \A c \in Commits :
        gates[c].evidence \in {"pending", "error"} ~>
            gates[c].evidence \in {"posted", "not_required"}

\* Both: the watcher's two passes between them bring every gate to its end and
\* the requester to the news of it (PollGitHubCheckGates).
GatesConclude == PendingSettles /\ EvidenceIsDelivered

\* docs/github-check-gate-terminal-events.md:78: "Exact requested check runs
\* appear in check_runs".
PassedOnRequestedChecks ==
    \A e \in events : e.status = "passed" => e.checks \subseteq e.runs

=============================================================================
