--------------------------- MODULE ReviewRounds ---------------------------
(***************************************************************************)
(* The review rounds of one task: review/internal/service.go and store.go  *)
(* (rounds, findings, packets, finalizations), with the two services they  *)
(* write to, Messages (deduplicates by review packet) and Tasks.           *)
(*                                                                         *)
(* A request runs one statement, transaction or remote call at a time and  *)
(* may stop after any of them.  A transaction is one step where the        *)
(* advisory lock of the task, or the lock of the row, keeps out whatever   *)
(* could change what it reads.  The id of a round is its number, the id of *)
(* a message its place on the thread; a message id of 0 is the null column.*)
(* Notes, branches, file references and the audit rows of findings are     *)
(* left out; the digest of a decision is the decision.                     *)
(***************************************************************************)
EXTENDS Integers, Sequences, FiniteSets

CONSTANTS
    None,
    Reqs,         \* requests in flight at a time
    Authors,      \* contents of a review request: who asks, what for
    Decisions,    \* contents of a finalize_review request
    MaxRounds, MaxFindings,
    MaxCalls,     \* calls to the service in a behaviour
    MaxMoves      \* changes of the task's status by anyone else

VARIABLES
    task,      \* status of the task, kept by the Tasks service
    rounds,    \* den_review.review_rounds, by number
    findings,  \* den_review.review_findings, by number
    packets,   \* den_review.review_packets, by idempotency key: the message id
    finals,    \* den_review.review_finalizations, by round
    thread,    \* messages of the task: the packet a message carries, or None
    reqs,      \* the requests in flight
    reached,   \* history: rounds whose finalization saw the task in its target
    calls, moves

reviewTables == <<rounds, findings, packets, finals>>
reviewVars == <<task, rounds, findings, packets, finals, thread, reqs, reached, calls, moves>>

---------------------------------------------------------------------------

TaskStatus == {"in_progress", "review", "done", "cancelled"}
FindingStatus ==
    {"open", "claimed_fixed", "verified_fixed", "not_fixed", "superseded", "split_to_follow_up"}
resolvedStatus(s) == s \in {"verified_fixed", "superseded", "split_to_follow_up"}

RoundIds == 1..MaxRounds

\* What makes two requests the same: the author, the round to supersede (its
\* number is part of the notes) and the kind of target.
Identity == [who : Authors, sup : 0..MaxRounds, kind : {"code_diff", "campaign"}]
\* "unset" is the empty verdict of a round that nobody has judged.
Verdicts == {"unset", "looks_good", "changes_requested", "follow_up_needed", "superseded"}
Round == [id : Identity, verdict : Verdicts, note : 0..MaxRounds]
Finding == [round : RoundIds, status : FindingStatus]

\* review-round:<id>:<kind>, review-findings:<id> and the finalization's key.
Keys == {"request", "findings", "final"} \X RoundIds

Finalization ==
    [dec : Decisions, key : Keys, msg : Nat, moved : BOOLEAN,
     state : {"pending", "packet_posted", "task_transitioned", "complete", "retryable_error"}]

\* A decision: the verdict, the reviewer, the resolutions of prior findings
\* and how many new findings it brings.
ASSUME DecisionsAssumption ==
    \A d \in Decisions :
        /\ d.verdict \in {"looks_good", "changes_requested"}
        /\ DOMAIN d.res \subseteq 1..MaxFindings
        /\ d.res \in [DOMAIN d.res -> FindingStatus]
        /\ d.new \in Nat

ASSUME BoundsAssumption ==
    /\ MaxRounds \in Nat \ {0}
    /\ MaxFindings \in Nat

\* Neither a message id, nor a packet, nor a row.
ASSUME NoneAssumption == None \notin Nat /\ None \notin Keys /\ None \notin Finalization

taskStatusForVerdict(v) == IF v = "looks_good" THEN "done" ELSE "in_progress"

\* A request: what was asked, and what it has read or done so far.
Idle ==
    [op |-> "none", pc |-> "idle", id |-> None, round |-> 0, dec |-> None, todo |-> {},
     status |-> None, key |-> None, msg |-> 0, step |-> None]

Request ==
    [op : {"none", "request", "campaign", "create_round", "create_finding", "set_verdict",
           "post_findings", "finalize", "respond", "set_status", "split"},
     pc : {"idle", "check", "reuse", "create", "reread", "supersede", "packet", "reserve",
           "append", "accept", "transition", "find", "insert", "update", "set", "say", "lookup",
           "list", "project", "begin", "mark_posted", "read_task", "set_task", "mark_moved",
           "complete", "fail"},
     id : Identity \cup {None}, round : 0..MaxRounds, dec : Decisions \cup {None},
     todo : SUBSET (1..MaxFindings), status : FindingStatus \cup {None},
     key : Keys \cup {None}, msg : Nat,
     step : {None, "packet_delivery", "task_transition", "completion"}]

Go(q, r) == reqs' = [reqs EXCEPT ![q] = r]
GoTo(q, pc) == Go(q, [reqs[q] EXCEPT !.pc = pc])
Return(q) == Go(q, Idle)
At(q, pc) == reqs[q].pc = pc

---------------------------------------------------------------------------
(* The calls. *)

Asks(op, id) == [Idle EXCEPT !.op = op, !.pc = "check", !.id = id]
CallsRound(op, pc, r, d) == [Idle EXCEPT !.op = op, !.pc = pc, !.round = r, !.dec = d]
CallsFindings(op, F, s) == [Idle EXCEPT !.op = op, !.pc = "check", !.todo = F, !.status = s]

Requests ==
    {Asks("request", i) : i \in [who : Authors, sup : 0..Len(rounds), kind : {"code_diff"}]}
    \cup {Asks("campaign", [who |-> a, sup |-> 0, kind |-> "campaign"]) : a \in Authors}
    \cup {Asks("create_round", [who |-> a, sup |-> 0, kind |-> "code_diff"]) : a \in Authors}

RoundCalls ==
    {CallsRound(o, "check", r, None) :
        o \in {"create_finding", "set_verdict", "post_findings"}, r \in DOMAIN rounds}
    \cup {CallsRound("finalize", "lookup", r, d) : r \in DOMAIN rounds, d \in Decisions}

FindingCalls(q) ==
    \/ \E f \in DOMAIN findings, s \in {None, "claimed_fixed"} : Go(q, CallsFindings("respond", {f}, s))
    \/ \E f \in DOMAIN findings, s \in {"open", "verified_fixed"} : Go(q, CallsFindings("set_status", {f}, s))
    \/ \E F \in SUBSET DOMAIN findings \ {{}} : Go(q, CallsFindings("split", F, "split_to_follow_up"))

Start(q) ==
    /\ reqs[q] = Idle
    /\ calls < MaxCalls
    /\ calls' = calls + 1
    /\ FindingCalls(q) \/ \E c \in Requests \cup RoundCalls : Go(q, c)
    /\ UNCHANGED <<task, reviewTables, thread, moves>>

\* The request stops: the client gives up, the process dies, a statement fails.
Abort(q) ==
    /\ reqs[q] # Idle
    /\ Return(q)
    /\ UNCHANGED <<task, reviewTables, thread, calls, moves>>

---------------------------------------------------------------------------
(* What every call does first: read the task. *)

allowedStatuses(op) ==
    CASE op \in {"set_verdict", "finalize"} -> {"review"}
      [] op = "post_findings" -> {"in_progress", "review", "done"}
      [] OTHER -> {"in_progress", "review"}

AfterCheck(r) ==
    CASE r.op = "request" -> IF r.id.sup = 0 THEN "reuse" ELSE "supersede"
      [] r.op = "campaign" -> "reuse"
      [] r.op = "create_round" -> "create"
      [] r.op = "create_finding" -> "insert"
      [] r.op = "set_verdict" -> "set"
      [] r.op = "post_findings" -> "find"
      [] r.op = "finalize" -> "list"
      [] OTHER -> "update"

validateTask(q) ==
    /\ At(q, "check")
    /\ IF /\ task \in allowedStatuses(reqs[q].op)
          /\ reqs[q].op = "set_verdict" => rounds[reqs[q].round].verdict # "superseded"
       THEN GoTo(q, AfterCheck(reqs[q]))
       ELSE Return(q)
    /\ UNCHANGED <<task, reviewTables, thread, calls, moves>>

---------------------------------------------------------------------------
(* Rounds. *)

Latest == Len(rounds)

reusable(id) == Latest > 0 /\ rounds[Latest].verdict = "unset" /\ rounds[Latest].id = id

WithRound(q, n) == [reqs[q] EXCEPT !.pc = "packet", !.round = n, !.key = <<"request", n>>]

\* The list is read outside of any transaction.  RequestReview reads it again
\* after a failed create.
reusableReviewRound(q) ==
    /\ reqs[q].pc \in {"reuse", "reread"}
    /\ CASE reusable(reqs[q].id) -> Go(q, WithRound(q, Latest))
         [] ~reusable(reqs[q].id) /\ At(q, "reuse") -> GoTo(q, "create")
         [] OTHER -> Return(q)
    /\ UNCHANGED <<task, reviewTables, thread, calls, moves>>

createRoundTx(id) == Append(rounds, [id |-> id, verdict |-> "unset", note |-> 0])

CreateRound(q) ==
    /\ At(q, "create")
    /\ Latest < MaxRounds
    /\ rounds' = createRoundTx(reqs[q].id)
    /\ IF reqs[q].op = "create_round" THEN Return(q) ELSE Go(q, WithRound(q, Latest + 1))
    /\ UNCHANGED <<task, findings, packets, finals, thread, calls, moves>>

CreateRoundFails(q) ==
    /\ At(q, "create")
    /\ reqs[q].op = "request"
    /\ GoTo(q, "reread")
    /\ UNCHANGED <<task, reviewTables, thread, calls, moves>>

Reviewed(r) == finals[r] # None \/ \E f \in DOMAIN findings : findings[f].round = r

\* A superseded round may be superseded again by the same request: the
\* replacement is returned.
CreateRoundSuperseding(q) ==
    LET old == reqs[q].id.sup
        id == reqs[q].id
    IN  /\ At(q, "supersede")
        /\ IF rounds[old].verdict = "superseded" /\ rounds[Latest].id = id /\ rounds[old].note = Latest
           THEN Go(q, WithRound(q, Latest)) /\ UNCHANGED rounds
           ELSE IF rounds[old].verdict # "unset" \/ Reviewed(old)
           THEN Return(q) /\ UNCHANGED rounds
           ELSE /\ Latest < MaxRounds
                /\ rounds' = [createRoundTx(id) EXCEPT ![old].verdict = "superseded", ![old].note = Latest + 1]
                /\ Go(q, WithRound(q, Latest + 1))
        /\ UNCHANGED <<task, findings, packets, finals, thread, calls, moves>>

\* TransitionTaskToReview of the Tasks service, and the end of RequestReview.
TransitionTaskToReview(q) ==
    /\ At(q, "transition")
    /\ task' = IF task = "in_progress" THEN "review" ELSE task
    /\ Return(q)
    /\ UNCHANGED <<reviewTables, thread, calls, moves>>

---------------------------------------------------------------------------
(* Packets and messages. *)

\* Mutant: without the unique index on the packet.
alwaysInserts(key) == Append(thread, key)

\* The insert does nothing when the packet is on the thread, and the message
\* that is there is returned.
CreateMessage(key) ==
    IF key # None /\ \E m \in DOMAIN thread : thread[m] = key THEN thread ELSE Append(thread, key)

MessageOf(key, th) == CHOOSE m \in DOMAIN th : th[m] = key

Delivered(q) == IF reqs[q].op = "request" THEN GoTo(q, "transition") ELSE Return(q)

acceptPacket(q) ==
    LET key == reqs[q].key IN
    /\ At(q, "packet")
    /\ CASE packets[key] = None -> GoTo(q, "reserve")
         [] packets[key] = 0 -> GoTo(q, "append")
         [] OTHER -> Delivered(q)
    /\ UNCHANGED <<task, reviewTables, thread, calls, moves>>

\* The upsert of a key that is there writes every column, message_id included.
StorePacket(q) ==
    \/ /\ At(q, "reserve")
       /\ packets' = [packets EXCEPT ![reqs[q].key] = 0]
       /\ GoTo(q, "append")
       /\ UNCHANGED <<task, rounds, findings, finals, thread, calls, moves>>
    \/ /\ At(q, "accept")
       /\ packets' = [packets EXCEPT ![reqs[q].key] = reqs[q].msg]
       /\ Delivered(q)
       /\ UNCHANGED <<task, rounds, findings, finals, thread, calls, moves>>

\* The call to Messages: answered, or failed with or without its effect.
appendPacketMessage(q) ==
    LET key == reqs[q].key
        final == reqs[q].op = "finalize"
        appended == CreateMessage(key)
    IN  /\ At(q, "append")
        /\ \/ /\ thread' = appended
              /\ Go(q, [reqs[q] EXCEPT !.pc = IF final THEN "mark_posted" ELSE "accept",
                                       !.msg = MessageOf(key, appended)])
           \/ /\ thread' \in {thread, appended}
              /\ IF final THEN Go(q, [reqs[q] EXCEPT !.pc = "fail", !.step = "packet_delivery"]) ELSE Return(q)
        /\ UNCHANGED <<task, reviewTables, calls, moves>>

\* Prefers a packet with a message.  Between two with, or two without, the
\* statement orders by time and id, which are not kept here: either is taken.
FindingsPackets(r) ==
    LET all == {k \in {<<"findings", r>>, <<"final", r>>} : packets[k] # None}
        posted == {k \in all : packets[k] # 0}
    IN  IF posted # {} THEN posted ELSE all

PostReviewFindings(q) ==
    LET r == reqs[q].round IN
    /\ At(q, "find")
    /\ \/ /\ FindingsPackets(r) = {}
          /\ Go(q, [reqs[q] EXCEPT !.pc = "packet", !.key = <<"findings", r>>])
       \/ \E k \in FindingsPackets(r) :
            IF packets[k] = 0 THEN Go(q, [reqs[q] EXCEPT !.pc = "append", !.key = k]) ELSE Return(q)
    /\ UNCHANGED <<task, reviewTables, thread, calls, moves>>

---------------------------------------------------------------------------
(* Findings and the compatibility verdict. *)

CreateFinding(q) ==
    LET r == reqs[q].round IN
    /\ At(q, "insert")
    /\ IF rounds[r].verdict = "superseded"
       THEN UNCHANGED findings
       ELSE /\ Len(findings) < MaxFindings
            /\ findings' = Append(findings, [round |-> r, status |-> "open"])
    /\ Return(q)
    /\ UNCHANGED <<task, rounds, packets, finals, thread, calls, moves>>

\* RespondToFinding, SetFindingStatus, and SplitFindingsToFollowUp, which
\* updates its findings one after the other.
UpdateFinding(q) ==
    \E f \in reqs[q].todo :
        /\ At(q, "update")
        /\ findings' = IF reqs[q].status = None THEN findings
                       ELSE [findings EXCEPT ![f].status = reqs[q].status]
        /\ IF reqs[q].todo = {f} THEN Return(q) ELSE Go(q, [reqs[q] EXCEPT !.todo = @ \ {f}])
        /\ UNCHANGED <<task, rounds, packets, finals, thread, calls, moves>>

\* The statement writes any verdict but a supersession.
SetVerdict(q) ==
    LET r == reqs[q].round IN
    /\ At(q, "set")
    /\ IF rounds[r].verdict = "superseded"
       THEN UNCHANGED rounds /\ Return(q)
       ELSE rounds' = [rounds EXCEPT ![r].verdict = "follow_up_needed"] /\ GoTo(q, "say")
    /\ UNCHANGED <<task, findings, packets, finals, thread, calls, moves>>

\* The message of the verdict carries no packet.
AppendVerdictMessage(q) ==
    /\ At(q, "say")
    /\ thread' = CreateMessage(None)
    /\ Return(q)
    /\ UNCHANGED <<task, reviewTables, calls, moves>>

---------------------------------------------------------------------------
(* FinalizeReview: the decision is committed in one transaction and then    *)
(* carried out in checkpoints that a retry resumes.                         *)

posted(f) == f.msg # 0

\* The first checkpoint that the row read does not have.
NextCheckpoint(q, f, msg) ==
    LET r == [reqs[q] EXCEPT !.key = f.key, !.msg = msg] IN
    CASE f.state = "complete" -> Idle
      [] f.state # "complete" /\ ~posted(f) -> [r EXCEPT !.pc = IF msg = 0 THEN "append" ELSE "mark_posted"]
      [] f.state # "complete" /\ posted(f) /\ ~f.moved -> [r EXCEPT !.pc = "read_task", !.msg = 0]
      [] OTHER -> [r EXCEPT !.pc = "complete", !.msg = 0]

resumeFinalization(q, f, msg) == Go(q, NextCheckpoint(q, f, msg))

LookupFinalization(q) ==
    LET f == finals[reqs[q].round] IN
    /\ At(q, "lookup")
    /\ IF f = None THEN GoTo(q, "check")
       ELSE IF f.dec # reqs[q].dec THEN Return(q)
       ELSE resumeFinalization(q, f, packets[f.key])
    /\ UNCHANGED <<task, reviewTables, thread, calls, moves>>

\* The status a finding would have, and the verdict that allows.
projected(d, f) == IF f \in DOMAIN d.res THEN d.res[f] ELSE findings[f].status

validateFinalizationFindings(d, listed) ==
    IF d.verdict = "looks_good"
    THEN d.new = 0 /\ \A f \in DOMAIN findings : resolvedStatus(projected(d, f))
    ELSE d.new > 0 \/ \E f \in listed : ~resolvedStatus(projected(d, f))

\* Two statements, both before the lock: the findings of the round, then all.
ListRoundFindings(q) ==
    /\ At(q, "list")
    /\ Go(q, [reqs[q] EXCEPT !.pc = "project",
                             !.todo = {f \in DOMAIN findings : findings[f].round = reqs[q].round}])
    /\ UNCHANGED <<task, reviewTables, thread, calls, moves>>

ProjectFindings(q) ==
    LET d == reqs[q].dec IN
    /\ At(q, "project")
    /\ IF DOMAIN d.res \subseteq DOMAIN findings /\ validateFinalizationFindings(d, reqs[q].todo)
       THEN Go(q, [reqs[q] EXCEPT !.pc = "begin", !.todo = {}])
       ELSE Return(q)
    /\ UNCHANGED <<task, reviewTables, thread, calls, moves>>

applyFinalizationMutationTx(r, d) ==
    [f \in 1..(Len(findings) + d.new) |->
        IF f \in DOMAIN d.res THEN [findings[f] EXCEPT !.status = d.res[f]]
        ELSE IF f \in DOMAIN findings THEN findings[f]
        ELSE [round |-> r, status |-> "open"]]

isCurrentRound(r) == r = Latest

\* Mutant: the row is upserted, so that a second decision replaces the first.
beginReplaces(q) ==
    LET r == reqs[q].round
        k == <<"final", r>>
        f == [dec |-> reqs[q].dec, key |-> k, msg |-> 0, moved |-> FALSE, state |-> "pending"]
    IN  /\ At(q, "begin")
        /\ packets' = [packets EXCEPT ![k] = IF @ = None THEN 0 ELSE @]
        /\ finals' = [finals EXCEPT ![r] = f]
        /\ resumeFinalization(q, f, 0)
        /\ UNCHANGED <<task, rounds, findings, thread, calls, moves>>

\* An existing findings packet of the round is adopted.
BeginFinalization(q) ==
    LET r == reqs[q].round
        d == reqs[q].dec
        existing == finals[r]
        new(k, m) == [dec |-> d, key |-> k, msg |-> m, moved |-> FALSE,
                      state |-> IF m = 0 THEN "pending" ELSE "packet_posted"]
    IN  /\ At(q, "begin")
        /\ \/ /\ existing # None
              /\ IF existing.dec = d THEN resumeFinalization(q, existing, packets[existing.key]) ELSE Return(q)
              /\ UNCHANGED reviewTables
           \/ /\ existing = None
              /\ ~isCurrentRound(r) \/ rounds[r].verdict \notin {"unset", d.verdict}
              /\ Return(q)
              /\ UNCHANGED reviewTables
           \/ /\ existing = None
              /\ isCurrentRound(r)
              /\ rounds[r].verdict \in {"unset", d.verdict}
              /\ Len(findings) + d.new <= MaxFindings
              /\ findings' = applyFinalizationMutationTx(r, d)
              /\ rounds' = [rounds EXCEPT ![r].verdict = d.verdict]
              /\ \E k \in IF FindingsPackets(r) = {} THEN {<<"final", r>>} ELSE FindingsPackets(r) :
                    LET m == IF packets[k] = None THEN 0 ELSE packets[k] IN
                    /\ packets' = [packets EXCEPT ![k] = m]
                    /\ finals' = [finals EXCEPT ![r] = new(k, m)]
                    /\ resumeFinalization(q, new(k, m), m)
        /\ UNCHANGED <<task, thread, calls, moves>>

\* coalesce keeps the message of an earlier delivery, in the packet and here.
MarkFinalizationPacketPosted(q) ==
    LET r == reqs[q].round
        f == finals[r]
        m == reqs[q].msg
        updated == [f EXCEPT !.msg = IF posted(f) THEN @ ELSE m,
                             !.state = IF @ = "complete" THEN @ ELSE "packet_posted"]
    IN  /\ At(q, "mark_posted")
        /\ packets' = [packets EXCEPT ![f.key] = IF @ = 0 THEN m ELSE @]
        /\ finals' = [finals EXCEPT ![r] = updated]
        /\ Go(q, [reqs[q] EXCEPT !.pc = IF updated.moved THEN "complete" ELSE "read_task", !.msg = 0])
        /\ UNCHANGED <<task, rounds, findings, thread, calls, moves>>

target(q) == taskStatusForVerdict(reqs[q].dec.verdict)
TransitionFailed(q) == [reqs[q] EXCEPT !.pc = "fail", !.step = "task_transition"]

\* GetTaskContext: the status decides, or the call fails.
ReadTaskStatus(q) ==
    /\ At(q, "read_task")
    /\ \/ task = target(q) /\ GoTo(q, "mark_moved")
       \/ task # target(q) /\ task = "review" /\ GoTo(q, "set_task")
       \/ Go(q, TransitionFailed(q))
    /\ UNCHANGED <<task, reviewTables, thread, calls, moves>>

\* The PATCH sets the status whatever it is; the answer may be lost.
SetTaskStatus(q) ==
    /\ At(q, "set_task")
    /\ \/ task' = target(q) /\ GoTo(q, "mark_moved")
       \/ task' \in {task, target(q)} /\ Go(q, TransitionFailed(q))
    /\ UNCHANGED <<reviewTables, thread, calls, moves>>

MarkFinalizationTaskTransitioned(q) ==
    /\ At(q, "mark_moved")
    /\ finals' = [finals EXCEPT ![reqs[q].round].moved = TRUE,
                                ![reqs[q].round].state = IF @ = "complete" THEN @ ELSE "task_transitioned"]
    /\ GoTo(q, "complete")
    /\ UNCHANGED <<task, rounds, findings, packets, thread, calls, moves>>

CompleteFinalization(q) ==
    LET r == reqs[q].round IN
    /\ At(q, "complete")
    /\ IF posted(finals[r]) /\ finals[r].moved
       THEN finals' = [finals EXCEPT ![r].state = "complete"] /\ Return(q)
       ELSE UNCHANGED finals /\ Go(q, [reqs[q] EXCEPT !.pc = "fail", !.step = "completion"])
    /\ UNCHANGED <<task, rounds, findings, packets, thread, calls, moves>>

\* An error of a checkpoint that another request has passed is not recorded.
RecordFinalizationError(f, step) ==
    IF \/ f.state = "complete"
       \/ step = "packet_delivery" /\ posted(f)
       \/ step = "task_transition" /\ f.moved
    THEN f
    ELSE [f EXCEPT !.state = "retryable_error"]

finalizationFailure(q) ==
    LET r == reqs[q].round IN
    /\ At(q, "fail")
    /\ finals' = [finals EXCEPT ![r] = RecordFinalizationError(@, reqs[q].step)]
    /\ Return(q)
    /\ UNCHANGED <<task, rounds, findings, packets, thread, calls, moves>>

---------------------------------------------------------------------------

\* Anyone may change the task through the Tasks service.
TaskMoves ==
    /\ moves < MaxMoves
    /\ task' \in TaskStatus \ {task}
    /\ moves' = moves + 1
    /\ UNCHANGED <<reviewTables, thread, reqs, calls>>

\* A new task, or one under review: a round with its request delivered.
ReviewInit ==
    /\ findings = <<>>
    /\ finals = [r \in RoundIds |-> None]
    /\ reqs = [q \in Reqs |-> Idle]
    /\ reached = {}
    /\ calls = 0
    /\ moves = 0
    /\ \/ /\ task = "in_progress"
          /\ rounds = <<>>
          /\ packets = [k \in Keys |-> None]
          /\ thread = <<>>
       \/ /\ task = "review"
          /\ \E a \in Authors :
                rounds = <<[id |-> [who |-> a, sup |-> 0, kind |-> "code_diff"], verdict |-> "unset", note |-> 0]>>
          /\ packets = [k \in Keys |-> IF k = <<"request", 1>> THEN 1 ELSE None]
          /\ thread = << <<"request", 1>> >>

Step(q) ==
    \/ Start(q) \/ Abort(q) \/ validateTask(q)
    \/ reusableReviewRound(q) \/ CreateRound(q) \/ CreateRoundFails(q) \/ CreateRoundSuperseding(q)
    \/ acceptPacket(q) \/ StorePacket(q) \/ appendPacketMessage(q) \/ PostReviewFindings(q)
    \/ TransitionTaskToReview(q)
    \/ CreateFinding(q) \/ UpdateFinding(q) \/ SetVerdict(q) \/ AppendVerdictMessage(q)
    \/ LookupFinalization(q) \/ ListRoundFindings(q) \/ ProjectFindings(q) \/ BeginFinalization(q)
    \/ MarkFinalizationPacketPosted(q) \/ ReadTaskStatus(q) \/ SetTaskStatus(q)
    \/ MarkFinalizationTaskTransitioned(q) \/ CompleteFinalization(q) \/ finalizationFailure(q)

ReviewNext ==
    /\ TaskMoves \/ \E q \in Reqs : Step(q)
    /\ reached' = reached \cup
         {r \in RoundIds : finals'[r] # None /\ task' = taskStatusForVerdict(finals'[r].dec.verdict)}

ReviewSpec == ReviewInit /\ [][ReviewNext]_reviewVars

---------------------------------------------------------------------------
(* Properties. *)

\* Type correctness of the tables and the thread.
ReviewTypeOK ==
    /\ task \in TaskStatus
    /\ rounds \in Seq(Round) /\ Len(rounds) <= MaxRounds
    /\ findings \in Seq(Finding) /\ Len(findings) <= MaxFindings
    /\ thread \in Seq(Keys \cup {None})
    /\ packets \in [Keys -> {None} \cup 0..Len(thread)]
    /\ finals \in [RoundIds -> Finalization \cup {None}]
    /\ reqs \in [Reqs -> Request]
    /\ reached \subseteq RoundIds

\* Closing a round as superseded serializes with findings, verdicts and
\* finalizations: a superseded round has neither findings nor a finalization,
\* whatever was in flight when it was closed.  And supersessions pair up: a
\* closed round names the one replacement that asked for it, and a replacement
\* the round it closed, also under retries and concurrent requests
\* (CreateRoundSuperseding).
ReplacedOnce ==
    /\ ReviewTypeOK
    /\ \A r \in DOMAIN rounds : rounds[r].verdict = "superseded" => ~Reviewed(r)
    /\ \A r \in DOMAIN rounds : rounds[r].verdict = "superseded" =>
            rounds[r].note \in DOMAIN rounds /\ rounds[rounds[r].note].id.sup = r
    /\ \A n \in DOMAIN rounds : rounds[n].id.sup # 0 =>
            rounds[rounds[n].id.sup].verdict = "superseded" /\ rounds[rounds[n].id.sup].note = n

\* A packet is on the thread once, whoever delivers it and however often the
\* delivery is repeated, and every row that names a message names that one.
\* A finalization is complete only when both remote effects happened: its
\* packet is on the thread, and the task has been in the status of the verdict
\* since the decision was committed.
DeliveredOnce ==
    /\ \A m, n \in DOMAIN thread : thread[m] = thread[n] /\ thread[m] # None => m = n
    /\ \A k \in Keys : packets[k] \notin {None, 0} => thread[packets[k]] = k
    /\ \A r \in RoundIds : finals[r] # None /\ posted(finals[r]) => thread[finals[r].msg] = finals[r].key
    /\ \A r \in RoundIds : finals[r] # None /\ finals[r].state = "complete" =>
          posted(finals[r]) /\ r \in reached

\* Both: a retried or raced request about a round finds what the first one did
\* and does not do it again (CreateRoundSuperseding, FinalizeReview, PostPacket).
RoundsSettleOnce == ReplacedOnce /\ DeliveredOnce

\* A committed decision stands: no racing or retried finalization replaces it,
\* no late delivery replaces its message, and a failure of one request does not
\* take back what another has completed.
DecisionStands ==
    [][\A r \in RoundIds : finals[r] # None =>
        /\ finals'[r].dec = finals[r].dec /\ finals'[r].key = finals[r].key
        /\ posted(finals[r]) => finals'[r].msg = finals[r].msg
        /\ finals[r].moved => finals'[r].moved
        /\ finals[r].state = "complete" => finals'[r].state = "complete"]_reviewVars

\* docs/review-lifeboat-contract.md:143: "`looks_good` requires no unresolved
\* findings for the current task".
ApprovedWithoutUnresolved ==
    [][\A r \in RoundIds :
        finals[r] = None /\ finals'[r] # None /\ finals'[r].dec.verdict = "looks_good" =>
            \A f \in DOMAIN findings' : resolvedStatus(findings'[f].status)]_reviewVars

=============================================================================
