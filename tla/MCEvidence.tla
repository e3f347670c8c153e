----------------------------- MODULE MCEvidence -----------------------------
(* One of the services that conclude from what others report: the review     *)
(* rounds of a task, the poll of a check gate at GitHub, the ops ledger or    *)
(* the context composed of a task.                                           *)
EXTENDS ReviewRounds, CheckVerdict, Ops, ContextCompose, TLC

CONSTANTS
    r1, r2,
    Parts   \* the services a run is about

VARIABLE part   \* the service a behaviour is about

evidenceVars ==
    <<reviewVars, verdictVars, opsVars, composeVars>>

-----------------------------------------------------------------------------
\* One reviewer approves, approves with a finding verified, or asks for changes
\* with a new finding; another approves as well.
Verified(F) == [f \in F |-> "verified_fixed"]
Decision(v, by, F, n) == [verdict |-> v, by |-> by, res |-> Verified(F), new |-> n]

MCDecisions ==
    {Decision("looks_good", r1, {}, 0), Decision("looks_good", r2, {1}, 0),
     Decision("changes_requested", r1, {}, 1)}

Symmetry == Permutations(Reqs)

\* Moves of the review are taken from the calls a run may make.
RoundsNext == ReviewNext /\ calls' + moves' <= MaxCalls

\* GitHub does not move once there are as many later commits as a run begins with.
PollNext == VerdictNext /\ (ghMoves' # ghMoves => head < Gated + LaterCommits)

-----------------------------------------------------------------------------
\* A read asks for what its sources hold: the others are empty.
SmallHoldings ==
    LET entries == holds.entries IN
    /\ holds.incomplete => holds.packets = {}
    /\ compose.op = "get_task_context" => Cardinality({s \in DOMAIN entries : entries[s] = 2}) <= 1
    /\ \A s \in DOMAIN entries :
          s \in Asked(compose.op) /\ ~Wanted(compose, s) /\ s \notin {"unread", "expanded_packets"}
             => entries[s] = 0

\* Up to two of the sources of a read fail.
FewFailures ==
    Cardinality({s \in DOMAIN compose.outcome : compose.outcome[s] \notin {"unasked", "answer"}}) <= 2

-----------------------------------------------------------------------------
MCEvidenceInit ==
    /\ part \in Parts
    /\ ReviewInit /\ OpsInit /\ ComposeInit
    /\ part # "rounds" => rounds = <<>>
    /\ IF part = "verdict" THEN VerdictInit ELSE VerdictIdle

\* The other services stand still.
Quiet(p, vars) == part # p => UNCHANGED vars

MCEvidenceNext ==
    /\ UNCHANGED part
    /\ \/ part = "rounds" /\ RoundsNext
       \/ part = "verdict" /\ PollNext
       \/ part = "ops" /\ OpsNext
       \/ part = "context" /\ ComposeNext /\ FewFailures' /\ (compose.op = "none" => SmallHoldings')
    /\ Quiet("rounds", reviewVars) /\ Quiet("verdict", verdictVars) /\ Quiet("ops", opsVars)
    /\ Quiet("context", composeVars)

MCEvidenceSpec == MCEvidenceInit /\ [][MCEvidenceNext]_<<part, evidenceVars>>

=============================================================================
